------------------------------ MODULE DataDir ------------------------------
(***************************************************************************)
(* The data directory: what `meshctl init` and `meshctl join`              *)
(* (cmd/meshctl/main.go) leave on disk through internal/identity and       *)
(* internal/pki/pem.go, and what meshd can load of it.                     *)
(*                                                                         *)
(* A run is one execution of a command.  Runs may overlap, fail at any     *)
(* check, and crash between any two system calls; opening a file for       *)
(* writing and filling it are two steps.                                   *)
(***************************************************************************)
EXTENDS Integers, Sequences, FiniteSets

CONSTANTS Runs,      \* executions of meshctl
          MaxActive, \* bound: how many run at the same time
          Names,     \* the values an operator gives to --node-id
          NoName,    \* --node-id is not given
          MeshCA,    \* the CA of the coordinator that answers a join
          Absent,    \* the file does not exist
          Torn       \* the file exists and does not parse

ASSUME DataDirAssumption ==
    /\ NoName \notin Names \cup Runs
    /\ Absent \notin Names \cup Runs
    /\ Torn \notin Names \cup Runs \cup {Absent}
    /\ MeshCA \notin Runs
    /\ Names \cap Runs = {}
    /\ MaxActive \in Nat \ {0}

VARIABLES file,      \* credential files: Absent, Torn or the run that wrote it
          nodeID,    \* the node_id file: Absent, Torn or a name
          run,       \* run[r]: command, flags and progress of r
          forced,    \* history: a run with --force was started
          overlap    \* history: the runs during which another run was active

vars == <<file, nodeID, run, forced, overlap>>

Credentials == {"ca.crt", "ca.key", "node.crt", "node.key",
                "admin.crt", "admin.key"}

\* Mutant: Persist forgets the key.
WritesNoKey(cmd) ==
    IF cmd = "init"
    THEN <<"ca.crt", "ca.key", "node.crt", "node.key", "admin.crt", "admin.key">>
    ELSE <<"ca.crt", "node.crt">>

\* The files a command writes, in order: the table in cmdInit, and Persist.
Writes(cmd) ==
    IF cmd = "init"
    THEN <<"ca.crt", "ca.key", "node.crt", "node.key", "admin.crt", "admin.key">>
    ELSE <<"ca.crt", "node.crt", "node.key">>

\* Mutant: both commands look for the CA.
GuardedByCA(cmd) == "ca.key"

\* The file whose existence stops a command that is not forced.
Guarded(cmd) == IF cmd = "init" THEN "ca.key" ELSE "node.key"

\* The name that Generate draws for a run: hostname and random suffix, never
\* drawn twice.  The run itself stands for it.
Generated(r) == r

Progress == {"idle", "guard", "setCheck", "setOpen", "setFill", "load",
             "createOpen", "createFill", "credentials", "open", "fill",
             "done", "failed"}

Active == {r \in Runs : run[r].pc \notin {"idle", "done", "failed"}}

RunStates ==
    [pc : Progress, cmd : {"init", "join"}, force : BOOLEAN,
     flag : Names \cup {NoName}, name : Names \cup Runs \cup {NoName},
     next : 1 .. 6]

NotStarted == [pc |-> "idle", cmd |-> "init", force |-> FALSE,
               flag |-> NoName, name |-> NoName, next |-> 1]

Init ==
    /\ file = [f \in Credentials |-> Absent]
    /\ nodeID = Absent
    /\ run = [r \in Runs |-> NotStarted]
    /\ forced = FALSE
    /\ overlap = {}

\* r moves on to pc.
Goto(r, pc) == run' = [run EXCEPT ![r].pc = pc]

\* The process exits with an error or is killed.  Only what its files may carry
\* is remembered: the command and the name.
Fail(r) ==
    run' = [run EXCEPT ![r] = [pc |-> "failed", cmd |-> run[r].cmd, force |-> FALSE,
                               flag |-> NoName, name |-> run[r].name, next |-> 1]]

-----------------------------------------------------------------------------

Start(r, cmd, force, flag) ==
    /\ run[r].pc = "idle"
    /\ Cardinality(Active) < MaxActive
    /\ run' = [run EXCEPT ![r] = [pc |-> "guard", cmd |-> cmd, force |-> force,
                                  flag |-> flag, name |-> NoName, next |-> 1]]
    /\ forced' = (forced \/ force)
    /\ overlap' = IF Active = {} THEN overlap ELSE overlap \cup Active \cup {r}
    /\ UNCHANGED <<file, nodeID>>

\* os.Stat of the guarded file.
Guard(r) ==
    /\ run[r].pc = "guard"
    /\ IF file[Guarded(run[r].cmd)] # Absent /\ ~run[r].force
       THEN Fail(r)
       ELSE Goto(r, IF run[r].flag = NoName THEN "load" ELSE "setCheck")
    /\ UNCHANGED <<file, nodeID, forced, overlap>>

\* Mutant: Set does not refuse to change the name.
SetCheckLax(r) ==
    /\ run[r].pc = "setCheck"
    /\ Goto(r, "setOpen")
    /\ UNCHANGED <<file, nodeID, forced, overlap>>

\* identity.Set: an existing node_id is kept unless the run is forced; a name
\* that is already there is fine.
SetCheck(r) ==
    /\ run[r].pc = "setCheck"
    /\ IF nodeID = Absent \/ run[r].force THEN Goto(r, "setOpen")
       ELSE IF nodeID = run[r].flag THEN Goto(r, "load")
       ELSE Fail(r)
    /\ UNCHANGED <<file, nodeID, forced, overlap>>

\* os.WriteFile truncates ...
NodeIDOpen(r) ==
    /\ run[r].pc \in {"setOpen", "createOpen"}
    /\ nodeID' = Torn
    /\ Goto(r, IF run[r].pc = "setOpen" THEN "setFill" ELSE "createFill")
    /\ UNCHANGED <<file, forced, overlap>>

\* ... and writes the operator's name, which LoadOrCreate then reads back,
SetFill(r) ==
    /\ run[r].pc = "setFill"
    /\ nodeID' = run[r].flag
    /\ Goto(r, "load")
    /\ UNCHANGED <<file, forced, overlap>>

\* or the generated one, which the run goes on with.
CreateFill(r) ==
    /\ run[r].pc = "createFill"
    /\ nodeID' = Generated(r)
    /\ run' = [run EXCEPT ![r].pc = "credentials", ![r].name = Generated(r)]
    /\ UNCHANGED <<file, forced, overlap>>

\* identity.LoadOrCreate: an empty file is no valid node_id.
Load(r) ==
    /\ run[r].pc = "load"
    /\ IF nodeID = Absent THEN Goto(r, "createOpen")
       ELSE IF nodeID = Torn THEN Fail(r)
       ELSE run' = [run EXCEPT ![r].pc = "credentials", ![r].name = nodeID]
    /\ UNCHANGED <<file, nodeID, forced, overlap>>

\* cmdInit makes a CA and signs; cmdJoin finds a coordinator and pairs.  Either
\* may fail, and nothing is on disk yet.
MakeCredentials(r) ==
    /\ run[r].pc = "credentials"
    /\ \/ Goto(r, "open")
       \/ Fail(r)
    /\ UNCHANGED <<file, nodeID, forced, overlap>>

Target(r) == Writes(run[r].cmd)[run[r].next]

\* Mutant: writeFile without O_EXCL.
FileOpenTruncating(r) ==
    /\ run[r].pc = "open"
    /\ Goto(r, "fill")
    /\ file' = [file EXCEPT ![Target(r)] = Torn]
    /\ UNCHANGED <<nodeID, forced, overlap>>

\* Mutant: writeFile cleans up after an error, whoever's file it is.
FileOpenRemoving(r) ==
    /\ run[r].pc = "open"
    /\ IF file[Target(r)] # Absent /\ ~run[r].force
       THEN Fail(r) /\ file' = [file EXCEPT ![Target(r)] = Absent]
       ELSE Goto(r, "fill") /\ file' = [file EXCEPT ![Target(r)] = Torn]
    /\ UNCHANGED <<nodeID, forced, overlap>>

\* writeFile: O_EXCL unless forced, O_TRUNC.
FileOpen(r) ==
    /\ run[r].pc = "open"
    /\ IF file[Target(r)] # Absent /\ ~run[r].force
       THEN Fail(r) /\ UNCHANGED file
       ELSE Goto(r, "fill") /\ file' = [file EXCEPT ![Target(r)] = Torn]
    /\ UNCHANGED <<nodeID, forced, overlap>>

FileFill(r) ==
    /\ run[r].pc = "fill"
    /\ file' = [file EXCEPT ![Target(r)] = r]
    /\ run' = IF run[r].next = Len(Writes(run[r].cmd))
              THEN [run EXCEPT ![r].pc = "done", ![r].flag = NoName]
              ELSE [run EXCEPT ![r].pc = "open", ![r].next = @ + 1]
    /\ UNCHANGED <<nodeID, forced, overlap>>

\* The process is killed, the machine stops, or a write fails.
Crash(r) ==
    /\ r \in Active
    /\ Fail(r)
    /\ UNCHANGED <<file, nodeID, forced, overlap>>

Step(r) ==
    \/ Guard(r)
    \/ SetCheck(r)
    \/ NodeIDOpen(r)
    \/ SetFill(r)
    \/ CreateFill(r)
    \/ Load(r)
    \/ MakeCredentials(r)
    \/ FileOpen(r)
    \/ FileFill(r)

Next ==
    \E r \in Runs :
        \/ \E cmd \in {"init", "join"}, force \in BOOLEAN,
              flag \in Names \cup {NoName} : Start(r, cmd, force, flag)
        \/ Step(r)
        \/ Crash(r)

Spec == Init /\ [][Next]_vars

-----------------------------------------------------------------------------
(***************************************************************************)
(* What meshd makes of the directory.                                      *)
(***************************************************************************)

\* The CA behind the certificates of a run.
CAOf(r) == IF run[r].cmd = "init" THEN r ELSE MeshCA

\* LoadNodeIdentity: the three files parse, the key is the certificate's and the
\* certificate chains to ca.crt.
Loadable ==
    /\ {file["ca.crt"], file["node.crt"], file["node.key"]} \subseteq Runs
    /\ file["node.key"] = file["node.crt"]
    /\ CAOf(file["ca.crt"]) = CAOf(file["node.crt"])

\* ReadCA: what meshd --coordinator needs to sign.
CALoadable == file["ca.crt"] \in Runs /\ file["ca.key"] = file["ca.crt"]

\* The node_id in node.crt, which meshd goes by.
CertName == run[file["node.crt"]].name

-----------------------------------------------------------------------------
(***************************************************************************)
(* Properties.                                                             *)
(***************************************************************************)

\* Every file and every run is in a state the code can leave it in.
TypeOK ==
    /\ file \in [Credentials -> Runs \cup {Absent, Torn}]
    /\ nodeID \in Names \cup Runs \cup {Absent, Torn}
    /\ run \in [Runs -> RunStates]
    /\ forced \in BOOLEAN
    /\ overlap \in SUBSET Runs

\* Without --force a directory never holds credentials of two runs: O_EXCL on
\* ca.crt, the first file of both commands, decides who may write, even between
\* overlapping runs and after a crash.
OneSetOfCredentials ==
    ~forced => \A f, g \in Credentials :
                  {file[f], file[g]} \subseteq Runs => file[f] = file[g]

\* An identity that meshd can load is not touched by commands without --force,
\* whatever they race with and wherever they fail.
IdentityPreserved ==
    [][(Loadable /\ ~forced) =>
          \A f \in {"ca.crt", "node.crt", "node.key"} : file'[f] = file[f]]_vars

\* --force repairs: a forced run that had the directory to itself and completes
\* leaves an identity that loads and that node_id agrees with, and after init a
\* CA that loads, whatever earlier runs, crashed or not, left behind.
ForceRepairs ==
    [][\A r \in Runs :
          (run[r].pc # "done" /\ run'[r].pc = "done"
                              /\ run[r].force /\ r \notin overlap)
              => /\ Loadable'
                 /\ run[r].cmd = "init" => CALoadable'
                 /\ nodeID' = run'[r].name
                 /\ CertName' = run'[r].name]_vars

\* As long as no run is forced and none overlaps another, the node_id file holds
\* the name in the certificate: crashes and failures do not part them.
NodeIDBound ==
    (~forced /\ overlap = {} /\ Loadable) => nodeID = CertName

\* cmdJoin looks for node.key before it spends a code and writes ca.crt first: if a
\* join that had the directory to itself finds ca.crt in its way with the code spent,
\* an earlier command was cut short there.
CodeWastedOnlyAfterFailure ==
    \A r \in Runs :
        /\ run[r].pc = "open" /\ run[r].cmd = "join"
        /\ ~run[r].force /\ r \notin overlap
        /\ file[Target(r)] # Absent
        => \E q \in Runs \ {r} : run[q].pc = "failed"

\* "it must never change for the lifetime of an install" (internal/identity): a
\* directory at rest whose identity loads has that identity's node_id.
NodeIDNeverChanges ==
    (Active = {} /\ Loadable) => nodeID = CertName
=============================================================================
