---------------------------- MODULE MeshdProofs ----------------------------
(***************************************************************************)
(* Proofs about DataDir and Meshd, for any number of concurrent runs of    *)
(* meshctl.                                                                *)
(*                                                                         *)
(* Without --force, the run that creates ca.crt is the only one to go on   *)
(* (Exclusive).  A run that has the directory to itself finds what it left *)
(* (Unshared).  As long as no forced run interferes, a file that parses is *)
(* not written to again (Fresh), so what meshd has read stays what is      *)
(* there.                                                                  *)
(***************************************************************************)
EXTENDS Meshd, TLAPS

\* Leaves are for Zenon; one that needs arithmetic, or is too large, names SMT.
USE Zenon

-----------------------------------------------------------------------------
(***************************************************************************)
(* The credential files.                                                   *)
(***************************************************************************)

\* What OneSetOfCredentials rests on.  A run numbers its files from one while it
\* prepares; without --force, the run that has ca.crt is the only one to go on,
\* and what it has open is still empty.
Exclusive ==
    /\ \A r \in Runs : ~run[r].force
    /\ \A r \in Runs : run[r].pc = "fill" => file[Target(r)] = Torn
    /\ \A r, s \in Runs :
          (/\ run[r].pc = "fill" /\ run[r].next = 1
           /\ run[s].pc = "fill" /\ run[s].next = 1) => r = s
    /\ \A r \in Runs :
          (run[r].pc \in {"open", "fill"} /\ run[r].next > 1) => file["ca.crt"] = r
    /\ \A f \in Credentials : file[f] \in Runs => file["ca.crt"] = file[f]

InOrder ==
    \A r \in Runs :
        /\ run[r].next \in 1 .. Len(Writes(run[r].cmd))
        /\ run[r].pc \notin {"open", "fill", "done"} => run[r].next = 1
        /\ run[r].pc \in {"setCheck", "setOpen", "setFill"} => run[r].flag \in Names

IInv ==
    /\ TypeOK
    /\ InOrder
    /\ ~forced => Exclusive

-----------------------------------------------------------------------------

\* Both commands write ca.crt first and only once, and only credential files.
LEMMA WritesOrder ==
    ASSUME NEW cmd \in {"init", "join"}, NEW i \in 1 .. Len(Writes(cmd))
    PROVE  /\ Writes(cmd)[i] \in Credentials
           /\ Writes(cmd)[i] = "ca.crt" <=> i = 1
           /\ i \in 1 .. 6
  <1>1. CASE cmd = "init"
    BY SMTT(30), <1>1 DEF Writes, Credentials
  <1>2. CASE cmd = "join"
    BY SMTT(30), <1>2 DEF Writes, Credentials
  <1> QED
    BY <1>1, <1>2

\* Both commands write something.
LEMMA WritesSome ==
    ASSUME NEW cmd \in {"init", "join"}
    PROVE  Len(Writes(cmd)) \in 1 .. 6 /\ 1 \in 1 .. Len(Writes(cmd))
  BY SMTT(30) DEF Writes

\* The initial directory is empty and no run has started.
LEMMA InitIInv == Init => IInv
  <1> SUFFICES ASSUME Init PROVE IInv
    OBVIOUS
  <1>0. NotStarted \in RunStates
    BY SMTT(30) DEF NotStarted, RunStates, Progress
  <1>1. TypeOK
    BY <1>0 DEF Init, TypeOK
  <1>2. InOrder
    <2>1. \A r \in Runs : /\ run[r].cmd = "init" /\ run[r].next = 1
                         /\ run[r].pc = "idle"
      BY DEF Init, NotStarted
    <2>2. 1 \in 1 .. Len(Writes("init"))
      BY WritesSome
    <2> QED
      BY <2>1, <2>2 DEF InOrder
  <1>3. Exclusive
    BY DataDirAssumption DEF Exclusive, Init, NotStarted
  <1> QED
    BY <1>1, <1>2, <1>3 DEF IInv

\* The target of a run that has a file to write.
LEMMA TargetFacts ==
    ASSUME TypeOK, InOrder, NEW r \in Runs
    PROVE  /\ Target(r) \in Credentials
           /\ Target(r) = "ca.crt" <=> run[r].next = 1
  <1>1. run[r].cmd \in {"init", "join"}
    BY DEF TypeOK, RunStates
  <1> QED
    BY <1>1, WritesOrder DEF Target, InOrder

\* Every step keeps the variables' types and the order of the writes.
LEMMA StepType ==
    ASSUME TypeOK, InOrder, [Next]_vars
    PROVE  TypeOK' /\ InOrder'
  <1> USE DataDirAssumption
  <1>0. CASE UNCHANGED vars
    BY <1>0 DEF vars, TypeOK, InOrder
  <1> SUFFICES ASSUME NEW r \in Runs,
                      \/ \E cmd \in {"init", "join"}, force \in BOOLEAN,
                            flag \in Names \cup {NoName} : Start(r, cmd, force, flag)
                      \/ Step(r)
                      \/ Crash(r)
               PROVE  TypeOK' /\ InOrder'
    BY <1>0 DEF Next
  <1>a. run[r] \in RunStates
    BY DEF TypeOK
  <1>b. ASSUME NEW state \in RunStates, run' = [run EXCEPT ![r] = state],
               file' \in [Credentials -> Runs \cup {Absent, Torn}],
               nodeID' \in Names \cup Runs \cup {Absent, Torn},
               forced' \in BOOLEAN, overlap' \in SUBSET Runs,
               state.next \in 1 .. Len(Writes(state.cmd)),
               state.pc \notin {"open", "fill", "done"} => state.next = 1,
               state.pc \in {"setCheck", "setOpen", "setFill"} => state.flag \in Names
        PROVE  TypeOK' /\ InOrder'
    <2>1. TypeOK'
      BY <1>b DEF TypeOK
    <2>2. run' \in [Runs -> RunStates] /\ run'[r] = state
          /\ \A s \in Runs \ {r} : run'[s] = run[s]
      BY <1>b DEF TypeOK
    <2>3. InOrder'
      BY SMTT(30), <1>b, <2>2 DEF InOrder
    <2> QED
      BY <2>1, <2>3
  <1>1. ASSUME NEW cmd \in {"init", "join"}, NEW force \in BOOLEAN,
               NEW flag \in Names \cup {NoName}, Start(r, cmd, force, flag)
        PROVE  TypeOK' /\ InOrder'
    <2> DEFINE state == [pc |-> "guard", cmd |-> cmd, force |-> force,
                         flag |-> flag, name |-> NoName, next |-> 1]
    <2>1. state \in RunStates
      BY SMTT(30) DEF RunStates, Progress
    <2>2. 1 \in 1 .. Len(Writes(cmd))
      BY WritesSome
    <2>3. forced' \in BOOLEAN /\ overlap' \in SUBSET Runs
      BY <1>1 DEF Start, TypeOK, Active
    <2> QED
      BY <1>1, <1>b, <2>1, <2>2, <2>3 DEF Start, TypeOK
  <1>2. ASSUME NEW at \in Progress, Goto(r, at), UNCHANGED <<forced, overlap>>,
               file' \in [Credentials -> Runs \cup {Absent, Torn}],
               nodeID' \in Names \cup Runs \cup {Absent, Torn},
               \/ run[r].pc \notin {"open", "fill", "done"}
               \/ at \in {"open", "fill", "done"},
               at \in {"setCheck", "setOpen", "setFill"} => run[r].flag \in Names
        PROVE  TypeOK' /\ InOrder'
    <2> DEFINE state == [run[r] EXCEPT !.pc = at]
    <2>1. /\ state \in RunStates /\ state.pc = at
          /\ state.next = run[r].next /\ state.cmd = run[r].cmd
          /\ state.flag = run[r].flag
      BY <1>a DEF RunStates
    <2>2. run' = [run EXCEPT ![r] = state]
      BY <1>2 DEF Goto
    <2> HIDE DEF state
    <2> QED
      BY SMTT(30), <1>2, <1>b, <2>1, <2>2 DEF TypeOK, InOrder
  <1>3. ASSUME Fail(r), UNCHANGED <<file, nodeID, forced, overlap>>
        PROVE  TypeOK' /\ InOrder'
    <2> DEFINE state == [pc |-> "failed", cmd |-> run[r].cmd, force |-> FALSE,
                         flag |-> NoName, name |-> run[r].name, next |-> 1]
    <2>1. state \in RunStates
      BY SMTT(30), <1>a DEF RunStates, Progress
    <2>0. run[r].cmd \in {"init", "join"}
      BY <1>a DEF RunStates
    <2>2. 1 \in 1 .. Len(Writes(run[r].cmd))
      BY <2>0, WritesSome
    <2> QED
      BY <1>3, <1>b, <2>1, <2>2 DEF Fail, TypeOK
  <1>4. ASSUME NEW n \in Names \cup Runs,
               run[r].pc \in {"load", "createFill"},
               run' = [run EXCEPT ![r].pc = "credentials", ![r].name = n],
               UNCHANGED <<file, forced, overlap>>,
               nodeID' \in Names \cup Runs \cup {Absent, Torn}
        PROVE  TypeOK' /\ InOrder'
    <2> DEFINE state == [run[r] EXCEPT !.pc = "credentials", !.name = n]
    <2>1. /\ state \in RunStates /\ state.pc = "credentials"
          /\ state.next = run[r].next /\ state.cmd = run[r].cmd
      BY <1>a DEF RunStates, Progress
    <2>2. run' = [run EXCEPT ![r] = state]
      BY <1>4 DEF TypeOK
    <2> HIDE DEF state
    <2> QED
      BY SMTT(30), <1>4, <1>b, <2>1, <2>2 DEF TypeOK, InOrder
  <1>5. CASE Guard(r)
    <2>1. run[r].flag # NoName => run[r].flag \in Names
      BY <1>a DEF RunStates
    <2> DEFINE at == IF run[r].flag = NoName THEN "load" ELSE "setCheck"
    <2>2. CASE Goto(r, at)
      <3>1. at \in Progress /\ (at = "setCheck" => run[r].flag # NoName)
            /\ at \notin {"setOpen", "setFill"}
        BY DEF Progress
      <3> HIDE DEF at
      <3> QED
        BY <1>5, <1>2, <2>1, <2>2, <3>1 DEF Guard, TypeOK
    <2> QED
      BY <1>5, <1>3, <2>2 DEF Guard
  <1>6. CASE SetCheck(r)
    BY <1>6, <1>2, <1>3 DEF SetCheck, TypeOK, InOrder, Progress
  <1>7. CASE NodeIDOpen(r)
    BY <1>7, <1>2 DEF NodeIDOpen, TypeOK, InOrder, Progress
  <1>8. CASE SetFill(r)
    BY <1>8, <1>2 DEF SetFill, TypeOK, InOrder, Progress
  <1>9. CASE CreateFill(r)
    BY <1>9, <1>4 DEF CreateFill, Generated, TypeOK
  <1>10. CASE Load(r)
    BY <1>10, <1>2, <1>3, <1>4 DEF Load, TypeOK, Progress
  <1>11. CASE MakeCredentials(r)
    BY <1>11, <1>2, <1>3 DEF MakeCredentials, TypeOK, Progress
  <1>12. CASE FileOpen(r)
    BY <1>12, <1>2, <1>3, TargetFacts DEF FileOpen, TypeOK, Progress
  <1>13. CASE FileFill(r)
    <2>1. run[r].cmd \in {"init", "join"} /\ run[r].next \in 1 .. 6
      BY <1>a DEF RunStates
    <2>2. Len(Writes(run[r].cmd)) \in 1 .. 6
      BY <2>1, WritesSome
    <2>3. file' \in [Credentials -> Runs \cup {Absent, Torn}]
      BY <1>13, TargetFacts DEF FileFill, TypeOK
    <2>4. /\ nodeID' \in Names \cup Runs \cup {Absent, Torn}
          /\ forced' \in BOOLEAN /\ overlap' \in SUBSET Runs
      BY <1>13 DEF FileFill, TypeOK
    <2>5. CASE run[r].next = Len(Writes(run[r].cmd))
      <3> DEFINE state == [run[r] EXCEPT !.pc = "done", !.flag = NoName]
      <3>1. /\ state \in RunStates /\ state.pc = "done"
            /\ state.next = run[r].next /\ state.cmd = run[r].cmd
        BY <1>a DEF RunStates, Progress
      <3>2. run' = [run EXCEPT ![r] = state]
        BY <1>13, <2>5 DEF FileFill, TypeOK
      <3> HIDE DEF state
      <3> QED
        <4>1. state.next \in 1 .. Len(Writes(state.cmd))
          BY <3>1 DEF InOrder
        <4> QED
          BY <1>b, <2>3, <2>4, <3>1, <3>2, <4>1
    <2>6. CASE run[r].next # Len(Writes(run[r].cmd))
      <3> DEFINE state == [run[r] EXCEPT !.pc = "open", !.next = run[r].next + 1]
      <3>0. run[r].next + 1 \in 1 .. Len(Writes(run[r].cmd))
        BY SMTT(30), <2>1, <2>2, <2>6 DEF InOrder
      <3>1. /\ state \in RunStates /\ state.pc = "open"
            /\ state.next = run[r].next + 1 /\ state.cmd = run[r].cmd
        <4>1. run[r].next + 1 \in 1 .. 6
          BY <2>1, <3>0, WritesOrder
        <4> QED
          BY <1>a, <4>1 DEF RunStates, Progress
      <3>2. run' = [run EXCEPT ![r] = state]
        BY <1>13, <2>6 DEF FileFill, TypeOK
      <3> HIDE DEF state
      <3> QED
        BY <1>b, <2>3, <2>4, <3>0, <3>1, <3>2
    <2> QED
      BY <2>5, <2>6
  <1>14. CASE Crash(r)
    BY <1>14, <1>3 DEF Crash
  <1> QED
    BY <1>1, <1>5, <1>6, <1>7, <1>8, <1>9, <1>10, <1>11, <1>12, <1>13, <1>14
       DEF Step

\* Steps that only prepare (no file opened or filled) keep the writers apart: r
\* has opened nothing yet, or ends.
LEMMA PreparingKeepsExclusive ==
    ASSUME IInv, Exclusive, NEW r \in Runs, UNCHANGED file,
           run' \in [Runs -> RunStates],
           \A s \in Runs \ {r} : run'[s] = run[s],
           ~run'[r].force,
           run'[r].pc = "fill" => FALSE,
           run'[r].pc = "open" => run'[r].next = 1
    PROVE  Exclusive'
  BY SMTT(30) DEF Exclusive, Target

\* Every step keeps the writers apart as long as no run is forced.
LEMMA StepExclusive ==
    ASSUME IInv, [Next]_vars
    PROVE  ~forced' => Exclusive'
  <1> USE DataDirAssumption
  <1>t. TypeOK /\ InOrder /\ TypeOK' /\ InOrder'
    BY StepType DEF IInv
  <1>0. CASE UNCHANGED vars
    BY <1>0 DEF vars, IInv, Exclusive, Target
  <1> SUFFICES ASSUME ~forced', NEW r \in Runs,
                      \/ \E cmd \in {"init", "join"}, force \in BOOLEAN,
                            flag \in Names \cup {NoName} : Start(r, cmd, force, flag)
                      \/ Step(r)
                      \/ Crash(r)
               PROVE  Exclusive'
    BY <1>0 DEF Next
  <1>e. ~forced /\ Exclusive
    <2>1. ASSUME NEW cmd, NEW force, NEW flag, Start(r, cmd, force, flag)
          PROVE  ~forced
      BY <2>1 DEF Start
    <2>2. CASE Step(r) \/ Crash(r)
      <3>1. forced' = forced
        BY <2>2 DEF Step, Crash, Guard, SetCheck, NodeIDOpen, SetFill, CreateFill,
                    Load, MakeCredentials, FileOpen, FileFill
      <3> QED
        BY <3>1 DEF IInv
    <2> QED
      BY <2>1, <2>2 DEF IInv
  <1>r. run[r] \in RunStates /\ run' \in [Runs -> RunStates] /\ run \in [Runs -> RunStates]
    BY <1>t DEF TypeOK
  <1>1. ASSUME NEW cmd \in {"init", "join"}, NEW force \in BOOLEAN,
               NEW flag \in Names \cup {NoName}, Start(r, cmd, force, flag)
        PROVE  Exclusive'
    BY <1>1, <1>e, <1>r, PreparingKeepsExclusive DEF Start
  <1>2. ASSUME NEW at, Goto(r, at), UNCHANGED file, at # "fill",
               at = "open" => run[r].next = 1
        PROVE  Exclusive'
    <2>1. /\ \A s \in Runs \ {r} : run'[s] = run[s]
          /\ run'[r].pc = at /\ run'[r].force = run[r].force
          /\ run'[r].next = run[r].next
      BY <1>2, <1>r DEF Goto, RunStates
    <2>2. ~run[r].force
      BY <1>e DEF Exclusive
    <2> QED
      BY <1>2, <1>e, <1>r, <2>1, <2>2, PreparingKeepsExclusive
  <1>3. ASSUME Fail(r), UNCHANGED file
        PROVE  Exclusive'
    BY <1>3, <1>e, <1>r, PreparingKeepsExclusive DEF Fail
  <1>4. ASSUME NEW n, UNCHANGED file,
               run' = [run EXCEPT ![r].pc = "credentials", ![r].name = n]
        PROVE  Exclusive'
    <2>1. /\ \A s \in Runs \ {r} : run'[s] = run[s]
          /\ run'[r].pc = "credentials" /\ run'[r].force = run[r].force
      BY SMTT(30), <1>4, <1>r DEF RunStates
    <2>2. ~run[r].force
      BY <1>e DEF Exclusive
    <2> QED
      BY <1>4, <1>e, <1>r, <2>1, <2>2, PreparingKeepsExclusive
  <1>5. CASE FileOpen(r)
    <2>1. CASE Fail(r) /\ UNCHANGED file
      BY <2>1, <1>3
    <2>2. CASE file[Target(r)] = Absent /\ Goto(r, "fill")
               /\ file' = [file EXCEPT ![Target(r)] = Torn]
      <3>1. /\ \A s \in Runs \ {r} : run'[s] = run[s]
            /\ run'[r].pc = "fill" /\ run'[r].force = run[r].force
            /\ run'[r].next = run[r].next /\ run'[r].cmd = run[r].cmd
        BY <2>2, <1>r DEF Goto, RunStates
      <3>2. \A s \in Runs : Target(s)' = Target(s)
        BY <3>1 DEF Target
      <3>3. \A s \in Runs : /\ Target(s) \in Credentials
                            /\ Target(s) = "ca.crt" <=> run[s].next = 1
                            /\ run[s].next \in 1 .. 6
        BY <1>t, <1>r, TargetFacts DEF RunStates
      <3>4. run[r].pc = "open"
        BY <1>5 DEF FileOpen
      <3>5. file \in [Credentials -> Runs \cup {Absent, Torn}] /\ "ca.crt" \in Credentials
        BY <1>t DEF TypeOK, Credentials
      <3> QED
        BY SMTT(30), <1>e, <2>2, <3>1, <3>2, <3>3, <3>4, <3>5 DEF Exclusive
    <2> QED
      BY <1>5, <1>e, <2>1, <2>2 DEF FileOpen, Exclusive
  <1>6. CASE FileFill(r)
    <2>1. \A s \in Runs : /\ Target(s) \in Credentials
                          /\ Target(s) = "ca.crt" <=> run[s].next = 1
                          /\ run[s].next \in 1 .. 6
      BY <1>t, <1>r, TargetFacts DEF RunStates
    <2>2. /\ \A s \in Runs \ {r} : run'[s] = run[s]
          /\ run'[r].pc \in {"open", "done"} /\ run'[r].force = run[r].force
      BY SMTT(30), <1>6, <1>r DEF FileFill, RunStates
    <2>3. \A s \in Runs \ {r} : Target(s)' = Target(s)
      BY <2>2 DEF Target
    <2>4. file \in [Credentials -> Runs \cup {Absent, Torn}] /\ "ca.crt" \in Credentials
      BY <1>t DEF TypeOK, Credentials
    <2>5. /\ run[r].pc = "fill" /\ file' = [file EXCEPT ![Target(r)] = r]
          /\ file[Target(r)] = Torn
      BY <1>6, <1>e DEF FileFill, Exclusive
    <2>6. file'["ca.crt"] = r
      BY SMTT(30), <1>e, <2>1, <2>4, <2>5 DEF Exclusive
    <2>7. \A s \in Runs \ {r} : run[s].pc = "fill" => Target(s) # Target(r)
      BY SMTT(30), <1>e, <2>1, <2>4, <2>5 DEF Exclusive
    <2>8. \A f \in Credentials : file'[f] \in Runs => file'[f] = r
      BY SMTT(30), <1>e, <2>1, <2>4, <2>5 DEF Exclusive
    <2>9. \A s \in Runs \ {r} :
              ~(run[s].pc \in {"open", "fill"} /\ run[s].next > 1)
      BY SMTT(30), <1>e, <2>1, <2>4, <2>5 DEF Exclusive
    <2> QED
      BY SMTT(30), <1>e, <2>1, <2>2, <2>3, <2>4, <2>5, <2>6, <2>7, <2>8, <2>9 DEF Exclusive
  <1>7. run[r].pc \notin {"open", "fill", "done"} => run[r].next = 1
    BY <1>t DEF InOrder
  <1>8. CASE MakeCredentials(r)
    BY <1>8, <1>7, <1>2, <1>3 DEF MakeCredentials
  <1>9. CASE Guard(r) \/ SetCheck(r) \/ NodeIDOpen(r) \/ SetFill(r) \/ Load(r)
    BY <1>9, <1>2, <1>3, <1>4 DEF Guard, SetCheck, NodeIDOpen, SetFill, Load
  <1>10. CASE CreateFill(r)
    BY <1>10, <1>4 DEF CreateFill
  <1>11. CASE Crash(r)
    BY <1>11, <1>3 DEF Crash
  <1> QED
    BY <1>1, <1>5, <1>6, <1>8, <1>9, <1>10, <1>11 DEF Step

-----------------------------------------------------------------------------

\* The inductive invariant holds in every reachable state of the directory.
THEOREM Invariance == Spec => []IInv
  <1>1. IInv /\ [Next]_vars => IInv'
    BY StepType, StepExclusive DEF IInv
  <1> QED
    BY InitIInv, <1>1, PTL DEF Spec

\* cmdInit, cmdJoin and Persist leave credentials of one run at most, for any
\* number of overlapping, failing and crashing runs without --force.
THEOREM CredentialsNeverMix == Spec => []OneSetOfCredentials
  <1>1. IInv => OneSetOfCredentials
    BY DEF IInv, Exclusive, OneSetOfCredentials
  <1> QED
    BY Invariance, <1>1, PTL

\* No run without --force changes an identity that LoadNodeIdentity accepts: what
\* writeFile fills was empty, and what it opens did not exist.
THEOREM IdentityIsPreserved == Spec => IdentityPreserved
  <1> DEFINE Kept == (Loadable /\ ~forced) =>
                \A f \in {"ca.crt", "node.crt", "node.key"} : file'[f] = file[f]
  <1>1. IInv /\ [Next]_vars => [Kept]_vars
    <2> SUFFICES ASSUME IInv, Next, Loadable, ~forced,
                        NEW f \in {"ca.crt", "node.crt", "node.key"}
                 PROVE  file'[f] = file[f]
      OBVIOUS
    <2> USE DataDirAssumption
    <2>1. file[f] \in Runs /\ f \in Credentials
      BY DEF Loadable, Credentials
    <2>2. Exclusive /\ TypeOK
      BY DEF IInv
    <2>3. CASE UNCHANGED file
      BY <2>3
    <2>4. ASSUME NEW r \in Runs, FileOpen(r)
          PROVE  file'[f] = file[f]
      BY <2>1, <2>2, <2>4 DEF FileOpen, Exclusive, TypeOK
    <2>5. ASSUME NEW r \in Runs, FileFill(r)
          PROVE  file'[f] = file[f]
      BY <2>1, <2>2, <2>5 DEF FileFill, Exclusive, TypeOK
    <2> QED
      BY <2>3, <2>4, <2>5 DEF Next, Start, Step, Crash, Guard, SetCheck, NodeIDOpen,
           SetFill, CreateFill, Load, MakeCredentials
  <1> QED
    BY Invariance, <1>1, PTL DEF Spec, IdentityPreserved

\* No file and no run is ever in a state the code cannot leave it in.
THEOREM TypeCorrect == Spec => []TypeOK
  <1>1. IInv => TypeOK
    BY DEF IInv
  <1> QED
    BY Invariance, <1>1, PTL

-----------------------------------------------------------------------------
(***************************************************************************)
(* The node_id file.                                                       *)
(***************************************************************************)

\* What NodeIDBound rests on: one run at a time; node_id is written only where there
\* was none, and a run that goes on to credentials has the name that is there.
Named ==
    /\ \A q, r \in Active : q = r
    /\ \A r \in Runs :
          /\ run[r].pc \in {"setOpen", "createOpen"} => nodeID = Absent
          /\ run[r].pc \in {"setFill", "createFill"} => nodeID = Torn
          /\ run[r].pc \in {"credentials", "open", "fill"} =>
                nodeID = run[r].name /\ nodeID \notin {Absent, Torn}
    /\ file["node.crt"] \in Runs =>
          /\ nodeID = run[file["node.crt"]].name /\ nodeID \notin {Absent, Torn}
          /\ run[file["node.crt"]].pc \in {"open", "fill", "done", "failed"}

NInv == IInv /\ ((~forced /\ overlap = {}) => Named)

\* A step of the one active run.
LEMMA StepOfOne ==
    ASSUME TypeOK, Named, NEW r \in Active, \A s \in Runs \ {r} : run'[s] = run[s],
           run'[r].pc \in {"setOpen", "createOpen"} => nodeID' = Absent,
           run'[r].pc \in {"setFill", "createFill"} => nodeID' = Torn,
           run'[r].pc \in {"credentials", "open", "fill"} =>
               nodeID' = run'[r].name /\ nodeID' \notin {Absent, Torn},
           file'["node.crt"] \in Runs =>
               /\ nodeID' \notin {Absent, Torn}
               /\ \/ /\ file'["node.crt"] = r /\ nodeID' = run'[r].name
                     /\ run'[r].pc \in {"open", "fill", "done", "failed"}
                  \/ file'["node.crt"] = file["node.crt"] /\ file["node.crt"] # r /\ nodeID' = nodeID
    PROVE  Named'
  <1>1. Active' \subseteq {r}
    BY DEF Active, Named
  <1>2. ASSUME NEW s \in Runs \ {r}
        PROVE  run'[s] = run[s] /\ run[s].pc \in {"idle", "done", "failed"}
    BY <1>2 DEF Active, Named
  <1>3. \A s \in Runs :
          /\ run'[s].pc \in {"setOpen", "createOpen"} => nodeID' = Absent
          /\ run'[s].pc \in {"setFill", "createFill"} => nodeID' = Torn
          /\ run'[s].pc \in {"credentials", "open", "fill"} =>
                nodeID' = run'[s].name /\ nodeID' \notin {Absent, Torn}
    BY <1>2
  <1>4. ASSUME file'["node.crt"] \in Runs
        PROVE  /\ nodeID' = run'[file'["node.crt"]].name
               /\ run'[file'["node.crt"]].pc \in {"open", "fill", "done", "failed"}
    <2>1. CASE file'["node.crt"] = r
      BY <1>4, <2>1
    <2>2. CASE file'["node.crt"] # r
      BY SMTT(30), <1>2, <1>4, <2>2 DEF Named
    <2> QED
      BY <2>1, <2>2
  <1> QED
    BY <1>1, <1>3, <1>4 DEF Named

\* Every step keeps Named, as long as no run is forced or overlaps another.
LEMMA StepNamed ==
    ASSUME IInv, Named, Next, ~forced', overlap' = {}
    PROVE  Named'
  <1> USE DataDirAssumption
  <1>1. PICK r \in Runs :
            \/ \E cmd \in {"init", "join"}, force \in BOOLEAN,
                  flag \in Names \cup {NoName} : Start(r, cmd, force, flag)
            \/ Step(r)
            \/ Crash(r)
    BY DEF Next
  <1>2. /\ TypeOK /\ InOrder /\ run \in [Runs -> RunStates] /\ run[r] \in RunStates
        /\ file \in [Credentials -> Runs \cup {Absent, Torn}]
        /\ nodeID \in Names \cup Runs \cup {Absent, Torn}
    BY DEF IInv, TypeOK
  <1>3. ASSUME Fail(r)
        PROVE  /\ run'[r].pc = "failed" /\ run'[r].name = run[r].name
               /\ \A s \in Runs \ {r} : run'[s] = run[s]
    BY <1>2, <1>3 DEF Fail
  <1>4. ASSUME NEW at, Goto(r, at)
        PROVE  /\ run'[r].pc = at /\ run'[r].name = run[r].name
               /\ \A s \in Runs \ {r} : run'[s] = run[s]
    <2>1. run'[r] = [run[r] EXCEPT !.pc = at] /\ \A s \in Runs \ {r} : run'[s] = run[s]
      BY <1>2, <1>4 DEF Goto
    <2> QED
      BY <1>2, <2>1 DEF RunStates
  <1>5. ASSUME NEW name, run' = [run EXCEPT ![r].pc = "credentials", ![r].name = name]
        PROVE  /\ run'[r].pc = "credentials" /\ run'[r].name = name
               /\ \A s \in Runs \ {r} : run'[s] = run[s]
    <2>1. /\ run'[r] = [run[r] EXCEPT !.pc = "credentials", !.name = name]
          /\ \A s \in Runs \ {r} : run'[s] = run[s]
      BY <1>2, <1>5
    <2> QED
      BY <1>2, <2>1 DEF RunStates
  <1>6. r \in Active /\ run[r].pc \notin {"open", "fill"} => file["node.crt"] # r
    BY DEF Active, Named
  <1>7. ASSUME NEW cmd \in {"init", "join"}, NEW force \in BOOLEAN,
               NEW flag \in Names \cup {NoName}, Start(r, cmd, force, flag)
        PROVE  Named'
    <2>1. /\ run[r].pc = "idle" /\ run'[r].pc = "guard"
          /\ \A s \in Runs \ {r} : run'[s] = run[s]
          /\ UNCHANGED <<file, nodeID>>
      BY <1>2, <1>7 DEF Start
    <2>2. Active = {}
      BY <1>7 DEF Start
    <2>3. \A s \in Runs : run[s].pc \in {"idle", "done", "failed"}
      BY <2>2 DEF Active
    <2>4. Active' \subseteq {r}
      BY <2>1, <2>3 DEF Active
    <2>5. file["node.crt"] # r
      BY <2>1 DEF Named
    <2> QED
      BY SMTT(30), <2>1, <2>3, <2>4, <2>5 DEF Named
  <1>8. CASE Crash(r) \/ (r \in Active /\ Fail(r) /\ UNCHANGED <<file, nodeID>>)
    <2>1. r \in Active /\ Fail(r) /\ UNCHANGED <<file, nodeID>>
      BY <1>8 DEF Crash
    <2>2. file["node.crt"] \in Runs => nodeID \notin {Absent, Torn}
      BY DEF Named
    <2>3. file["node.crt"] = r => nodeID = run[r].name
      BY DEF Named
    <2> QED
      BY <1>2, <1>3, <2>1, <2>2, <2>3, StepOfOne
  <1>9. ASSUME Guard(r) \/ SetCheck(r) \/ MakeCredentials(r)
        PROVE  Named'
    <2>1. r \in Active /\ UNCHANGED <<file, nodeID>> /\ run[r].pc \notin {"open", "fill"}
      BY <1>9 DEF Guard, SetCheck, MakeCredentials, Active
    <2>2. \/ Fail(r)
          \/ Goto(r, "load") \/ Goto(r, "setCheck")
          \/ Goto(r, "setOpen") /\ nodeID = Absent
          \/ Goto(r, "open") /\ run[r].pc = "credentials"
      <3>1. forced' = forced
        BY <1>9 DEF Guard, SetCheck, MakeCredentials
      <3>2. ~run[r].force
        BY <3>1 DEF IInv, Exclusive
      <3> QED
        BY <1>9, <3>2 DEF Guard, SetCheck, MakeCredentials
    <2>3. file["node.crt"] \in Runs => nodeID \notin {Absent, Torn}
      BY DEF Named
    <2>4. CASE Fail(r)
      BY <1>8, <2>1, <2>4
    <2>5. CASE Goto(r, "load") \/ Goto(r, "setCheck")
      BY SMTT(30), <1>2, <1>4, <1>6, <2>1, <2>3, <2>5, StepOfOne
    <2>6. CASE Goto(r, "setOpen") /\ nodeID = Absent
      BY SMTT(30), <1>2, <1>4, <1>6, <2>1, <2>3, <2>6, StepOfOne
    <2>7. CASE Goto(r, "open") /\ run[r].pc = "credentials"
      <3>1. nodeID = run[r].name /\ nodeID \notin {Absent, Torn}
        BY <2>7 DEF Named
      <3> QED
        BY <1>2, <1>4, <1>6, <2>1, <2>7, <3>1, StepOfOne
    <2> QED
      BY <2>2, <2>4, <2>5, <2>6, <2>7
  <1>10. CASE NodeIDOpen(r)
    <2>1. /\ r \in Active /\ nodeID = Absent /\ nodeID' = Torn /\ file' = file
          /\ \E at \in {"setFill", "createFill"} : Goto(r, at)
      BY <1>10 DEF NodeIDOpen, Active, Named
    <2>2. file["node.crt"] \notin Runs
      BY <2>1 DEF Named
    <2> QED
      BY <1>2, <1>4, <2>1, <2>2, StepOfOne
  <1>11. CASE SetFill(r) \/ CreateFill(r)
    <2>1. r \in Active /\ nodeID = Torn /\ file' = file
      BY <1>11 DEF SetFill, CreateFill, Active, Named
    <2>2. file["node.crt"] \notin Runs
      BY <2>1 DEF Named
    <2>3. CASE SetFill(r)
      <3>1. Goto(r, "load")
        BY <2>3 DEF SetFill
      <3> QED
        BY SMTT(30), <1>2, <1>4, <2>1, <2>2, <3>1, StepOfOne
    <2>4. CASE CreateFill(r)
      <3>1. nodeID' = r /\ run' = [run EXCEPT ![r].pc = "credentials", ![r].name = r]
        BY <2>4 DEF CreateFill, Generated
      <3> QED
        BY <1>2, <1>5, <2>1, <2>2, <3>1, StepOfOne
    <2> QED
      BY <1>11, <2>3, <2>4
  <1>12. CASE Load(r)
    <2>1. /\ r \in Active /\ UNCHANGED <<file, nodeID>> /\ run[r].pc \notin {"open", "fill"}
          /\ \/ nodeID = Absent /\ Goto(r, "createOpen")
             \/ Fail(r)
             \/ /\ nodeID \notin {Absent, Torn}
                /\ run' = [run EXCEPT ![r].pc = "credentials", ![r].name = nodeID]
      BY <1>12 DEF Load, Active
    <2>2. file["node.crt"] \in Runs => nodeID \notin {Absent, Torn}
      BY DEF Named
    <2>3. CASE nodeID = Absent /\ Goto(r, "createOpen")
      BY SMTT(30), <1>2, <1>4, <1>6, <2>1, <2>2, <2>3, StepOfOne
    <2>4. CASE Fail(r)
      BY <1>8, <2>1, <2>4
    <2>5. CASE /\ nodeID \notin {Absent, Torn}
               /\ run' = [run EXCEPT ![r].pc = "credentials", ![r].name = nodeID]
      <3>1. PICK name : name = nodeID
        OBVIOUS
      <3>2. /\ run'[r].pc = "credentials" /\ run'[r].name = nodeID
            /\ \A s \in Runs \ {r} : run'[s] = run[s]
        BY <1>5, <2>5, <3>1
      <3> QED
        BY <1>2, <1>6, <2>1, <2>5, <3>2, StepOfOne
    <2> QED
      BY <2>1, <2>3, <2>4, <2>5
  <1>13. CASE FileOpen(r)
    <2>1. /\ r \in Active /\ nodeID' = nodeID
          /\ nodeID = run[r].name /\ nodeID \notin {Absent, Torn}
          /\ \/ Fail(r) /\ file' = file
             \/ Goto(r, "fill") /\ file' = [file EXCEPT ![Target(r)] = Torn]
      BY <1>13 DEF FileOpen, Active, Named
    <2>2. CASE Fail(r) /\ file' = file
      BY <1>8, <2>1, <2>2
    <2>3. CASE Goto(r, "fill") /\ file' = [file EXCEPT ![Target(r)] = Torn]
      <3>1. file'["node.crt"] \in Runs => file'["node.crt"] = file["node.crt"]
        BY <1>2, <2>3 DEF Credentials
      <3> QED
        BY SMTT(30), <1>2, <1>4, <2>1, <2>3, <3>1, StepOfOne
    <2> QED
      BY <2>1, <2>2, <2>3
  <1>14. CASE FileFill(r)
    <2>1. /\ r \in Active /\ nodeID' = nodeID
          /\ nodeID = run[r].name /\ nodeID \notin {Absent, Torn}
          /\ file' = [file EXCEPT ![Target(r)] = r]
      BY <1>14 DEF FileFill, Active, Named
    <2>2. /\ run'[r].pc \in {"done", "open"} /\ run'[r].name = run[r].name
          /\ \A s \in Runs \ {r} : run'[s] = run[s]
      <3>1. CASE run' = [run EXCEPT ![r].pc = "done", ![r].flag = NoName]
        <4>1. /\ run'[r] = [run[r] EXCEPT !.pc = "done", !.flag = NoName]
              /\ \A s \in Runs \ {r} : run'[s] = run[s]
          BY <1>2, <3>1
        <4> QED
          BY <1>2, <4>1 DEF RunStates
      <3>2. CASE run' = [run EXCEPT ![r].pc = "open", ![r].next = @ + 1]
        <4>1. /\ run'[r] = [run[r] EXCEPT !.pc = "open", !.next = run[r].next + 1]
              /\ \A s \in Runs \ {r} : run'[s] = run[s]
          BY <1>2, <3>2 DEF RunStates
        <4> QED
          BY <1>2, <4>1 DEF RunStates
      <3> QED
        BY <1>14, <3>1, <3>2 DEF FileFill
    <2>3. file'["node.crt"] = r \/ file'["node.crt"] = file["node.crt"]
      BY <1>2, <2>1 DEF Credentials
    <2> QED
      BY <1>2, <2>1, <2>2, <2>3, StepOfOne
  <1> QED
    BY <1>1, <1>7, <1>8, <1>9, <1>10, <1>11, <1>12, <1>13, <1>14 DEF Step

\* identity.Set and LoadOrCreate keep the node_id file and the certificate together
\* through any number of runs, failed and crashed ones included, as long as none is
\* forced and none overlaps another.
THEOREM NodeIDStaysBound == Spec => []NodeIDBound
  <1>1. Init => NInv
    <2> SUFFICES ASSUME Init PROVE Named
      BY InitIInv DEF NInv
    <2> QED
      BY DataDirAssumption DEF Init, Named, NotStarted, Active, Credentials
  <1>2. NInv /\ [Next]_vars => NInv'
    <2> SUFFICES ASSUME NInv, [Next]_vars PROVE NInv'
      OBVIOUS
    <2>1. IInv'
      BY StepType, StepExclusive DEF NInv, IInv
    <2>2. ASSUME Next, ~forced', overlap' = {}
          PROVE  Named'
      <3>1. ~forced /\ overlap = {}
        <4>1. CASE \E r \in Runs, cmd \in {"init", "join"}, force \in BOOLEAN,
                      flag \in Names \cup {NoName} : Start(r, cmd, force, flag)
          BY <2>2, <4>1 DEF Start
        <4>2. CASE \E r \in Runs : Step(r) \/ Crash(r)
          <5>1. forced' = forced /\ overlap' = overlap
            BY <4>2 DEF Step, Crash, Guard, SetCheck, NodeIDOpen, SetFill, CreateFill, Load,
                        MakeCredentials, FileOpen, FileFill
          <5> QED
            BY <2>2, <5>1
        <4> QED
          BY <2>2, <4>1, <4>2 DEF Next
      <3> QED
        BY <2>2, <3>1, StepNamed DEF NInv
    <2>3. CASE UNCHANGED vars
      BY SMTT(30), <2>1, <2>3 DEF NInv, vars, Named, Active
    <2> QED
      BY <2>1, <2>2, <2>3 DEF NInv
  <1>3. NInv => NodeIDBound
    BY DEF NInv, Named, NodeIDBound, Loadable, CertName
  <1> QED
    BY <1>1, <1>2, <1>3, PTL DEF Spec
-----------------------------------------------------------------------------
(***************************************************************************)
(* A run that has the directory to itself.                                 *)
(***************************************************************************)

\* writeFile of r has opened f.
Opened(r, f) ==
    \E i \in 1 .. Len(Writes(run[r].cmd)) :
        /\ f = Writes(run[r].cmd)[i]
        /\ i < run[r].next \/ (i = run[r].next /\ run[r].pc \in {"fill", "done"})

\* Where files come from: what a run has opened stays, and what is there was opened
\* by a run that is still at it, is done, or failed.
Accounted ==
    /\ \A r \in Runs, f \in Credentials : Opened(r, f) => file[f] # Absent
    /\ \A f \in Credentials : file[f] # Absent =>
          \E r \in Runs : run[r].pc = "failed" \/ Opened(r, f)
    /\ \A r \in Runs : run[r].pc = "done" => run[r].next = Len(Writes(run[r].cmd))

\* What a run has while it is the only one: the files it filled and the name it read
\* are still there, and if its command is a join that passed the check for node.key,
\* no run was done before it.
Unshared(r) ==
    /\ \A q \in Active : q = r
    /\ \A i \in 1 .. Len(Writes(run[r].cmd)) :
          i < run[r].next => file[Writes(run[r].cmd)[i]] = r
    /\ run[r].pc \in {"credentials", "open", "fill"} => nodeID = run[r].name
    /\ (run[r].cmd = "join" /\ ~run[r].force /\ run[r].pc # "guard") =>
          \A q \in Runs \ {r} : run[q].pc \in {"idle", "failed"}

AInv ==
    /\ TypeOK
    /\ InOrder
    /\ Accounted
    /\ \A r \in Active \ overlap : Unshared(r)

\* What a step of r, other than its start, does: it fails, prepares, opens its next
\* file, or fills it and goes on or is done.
Moves(r) ==
    /\ r \in Active
    /\ \A s \in Runs \ {r} : run'[s] = run[s]
    /\ overlap' = overlap
    /\ run'[r].cmd = run[r].cmd
    /\ \/ run'[r].pc = "failed" /\ run'[r].next = 1 /\ UNCHANGED <<file, nodeID>>
       \/ /\ UNCHANGED file /\ run'[r].next = 1 /\ run[r].next = 1
          /\ run'[r].force = run[r].force /\ run[r].pc # "fill"
          /\ run'[r].pc \notin {"guard", "fill", "done", "failed"}
          /\ run'[r].pc \in {"credentials", "open"} =>
                \/ nodeID' = run'[r].name
                \/ /\ run[r].pc = "credentials" /\ run'[r].name = run[r].name
                   /\ nodeID' = nodeID
          /\ run[r].pc = "guard" => run[r].force \/ file[Guarded(run[r].cmd)] = Absent
       \/ /\ run[r].pc = "open" /\ run'[r].pc = "fill" /\ nodeID' = nodeID
          /\ run'[r].next = run[r].next /\ run'[r].force = run[r].force
          /\ run'[r].name = run[r].name
          /\ file' = [file EXCEPT ![Target(r)] = Torn]
       \/ /\ run[r].pc = "fill" /\ nodeID' = nodeID
          /\ run'[r].name = run[r].name /\ run'[r].force = run[r].force
          /\ file' = [file EXCEPT ![Target(r)] = r]
          /\ \/ /\ run'[r].pc = "done" /\ run'[r].next = run[r].next
                /\ run[r].next = Len(Writes(run[r].cmd))
             \/ run'[r].pc = "open" /\ run'[r].next = run[r].next + 1

\* Every step but a start is one of these.
LEMMA StepMoves ==
    ASSUME TypeOK, InOrder, NEW r \in Runs, Step(r) \/ Crash(r)
    PROVE  Moves(r)
  <1>1. run \in [Runs -> RunStates] /\ run[r] \in RunStates
    BY DEF TypeOK
  <1>2. ASSUME Fail(r), r \in Active, overlap' = overlap, UNCHANGED <<file, nodeID>>
        PROVE  Moves(r)
    BY <1>1, <1>2 DEF Fail, Moves
  <1>3. ASSUME NEW at, Goto(r, at)
        PROVE  /\ run'[r].pc = at /\ run'[r].name = run[r].name
               /\ run'[r].cmd = run[r].cmd /\ run'[r].force = run[r].force
               /\ run'[r].next = run[r].next
               /\ \A s \in Runs \ {r} : run'[s] = run[s]
    <2>1. run'[r] = [run[r] EXCEPT !.pc = at] /\ \A s \in Runs \ {r} : run'[s] = run[s]
      BY <1>1, <1>3 DEF Goto
    <2> QED
      BY <1>1, <2>1 DEF RunStates
  <1>4. ASSUME NEW name, run' = [run EXCEPT ![r].pc = "credentials", ![r].name = name]
        PROVE  /\ run'[r].pc = "credentials" /\ run'[r].name = name
               /\ run'[r].cmd = run[r].cmd /\ run'[r].force = run[r].force
               /\ run'[r].next = run[r].next
               /\ \A s \in Runs \ {r} : run'[s] = run[s]
    <2>1. /\ run'[r] = [run[r] EXCEPT !.pc = "credentials", !.name = name]
          /\ \A s \in Runs \ {r} : run'[s] = run[s]
      BY <1>1, <1>4
    <2> QED
      BY <1>1, <2>1 DEF RunStates
  <1>5. CASE Crash(r)
    BY <1>2, <1>5 DEF Crash
  <1>6. CASE Guard(r)
    <2>1. r \in Active /\ run[r].next = 1 /\ run[r].pc = "guard"
          /\ overlap' = overlap /\ UNCHANGED <<file, nodeID>>
      BY <1>6 DEF Guard, Active, InOrder
    <2>2. CASE file[Guarded(run[r].cmd)] # Absent /\ ~run[r].force
      BY <1>2, <1>6, <2>1, <2>2 DEF Guard
    <2>3. CASE ~(file[Guarded(run[r].cmd)] # Absent /\ ~run[r].force)
      <3>1. PICK at \in {"load", "setCheck"} : Goto(r, at)
        BY <1>6, <2>3 DEF Guard
      <3> QED
        BY <1>3, <2>1, <2>3, <3>1 DEF Moves
    <2> QED
      BY <2>2, <2>3
  <1>7. CASE SetCheck(r) \/ MakeCredentials(r)
    <2>1. r \in Active /\ run[r].next = 1 /\ run[r].pc \notin {"guard", "fill"}
          /\ overlap' = overlap /\ UNCHANGED <<file, nodeID>>
      BY <1>7 DEF SetCheck, MakeCredentials, Active, InOrder
    <2>2. CASE Fail(r)
      BY <1>2, <2>1, <2>2
    <2>3. CASE Goto(r, "setOpen") \/ Goto(r, "load")
      <3>1. PICK at \in {"load", "setOpen"} : Goto(r, at)
        BY <2>3
      <3> QED
        BY <1>3, <2>1, <3>1 DEF Moves
    <2>4. CASE Goto(r, "open") /\ run[r].pc = "credentials"
      BY SMTT(30), <1>3, <2>1, <2>4 DEF Moves
    <2> QED
      BY <1>7, <2>2, <2>3, <2>4 DEF SetCheck, MakeCredentials
  <1>8. CASE NodeIDOpen(r) \/ SetFill(r)
    <2>1. r \in Active /\ run[r].next = 1 /\ run[r].pc \notin {"guard", "fill"}
          /\ overlap' = overlap /\ UNCHANGED file
      BY <1>8 DEF NodeIDOpen, SetFill, Active, InOrder
    <2>2. PICK at \in {"setFill", "createFill", "load"} : Goto(r, at)
      BY <1>8 DEF NodeIDOpen, SetFill
    <2> QED
      BY <1>3, <2>1, <2>2 DEF Moves
  <1>9. CASE CreateFill(r)
    <2>1. r \in Active /\ run[r].next = 1 /\ run[r].pc \notin {"guard", "fill"}
          /\ overlap' = overlap /\ UNCHANGED file /\ nodeID' = r
          /\ run' = [run EXCEPT ![r].pc = "credentials", ![r].name = r]
      BY <1>9 DEF CreateFill, Active, InOrder, Generated
    <2> QED
      BY <1>4, <2>1 DEF Moves
  <1>10. CASE Load(r)
    <2>1. r \in Active /\ run[r].next = 1 /\ run[r].pc \notin {"guard", "fill"}
          /\ overlap' = overlap /\ UNCHANGED <<file, nodeID>>
      BY <1>10 DEF Load, Active, InOrder
    <2>2. CASE Fail(r)
      BY <1>2, <2>1, <2>2
    <2>3. CASE Goto(r, "createOpen")
      BY SMTT(30), <1>3, <2>1, <2>3 DEF Moves
    <2>4. CASE run' = [run EXCEPT ![r].pc = "credentials", ![r].name = nodeID]
      <3>1. PICK name : name = nodeID
        OBVIOUS
      <3> QED
        BY <1>4, <2>1, <2>4, <3>1 DEF Moves
    <2> QED
      BY <1>10, <2>2, <2>3, <2>4 DEF Load
  <1>11. CASE FileOpen(r)
    <2>1. r \in Active /\ run[r].pc = "open" /\ overlap' = overlap /\ UNCHANGED nodeID
      BY <1>11 DEF FileOpen, Active
    <2>2. CASE Fail(r) /\ UNCHANGED file
      BY <1>2, <2>1, <2>2
    <2>3. CASE Goto(r, "fill") /\ file' = [file EXCEPT ![Target(r)] = Torn]
      BY <1>3, <2>1, <2>3 DEF Moves
    <2> QED
      BY <1>11, <2>2, <2>3 DEF FileOpen
  <1>12. CASE FileFill(r)
    <2>1. r \in Active /\ run[r].pc = "fill" /\ overlap' = overlap /\ UNCHANGED nodeID
          /\ file' = [file EXCEPT ![Target(r)] = r]
      BY <1>12 DEF FileFill, Active
    <2>2. CASE run[r].next = Len(Writes(run[r].cmd))
      <3>1. /\ run'[r] = [run[r] EXCEPT !.pc = "done", !.flag = NoName]
            /\ \A s \in Runs \ {r} : run'[s] = run[s]
        BY <1>1, <1>12, <2>2 DEF FileFill
      <3>2. /\ run'[r].pc = "done" /\ run'[r].next = run[r].next
            /\ run'[r].name = run[r].name /\ run'[r].force = run[r].force
            /\ run'[r].cmd = run[r].cmd
        BY <1>1, <3>1 DEF RunStates
      <3> QED
        BY <2>1, <2>2, <3>1, <3>2 DEF Moves
    <2>3. CASE run[r].next # Len(Writes(run[r].cmd))
      <3>1. /\ run'[r] = [run[r] EXCEPT !.pc = "open", !.next = run[r].next + 1]
            /\ \A s \in Runs \ {r} : run'[s] = run[s]
        BY <1>1, <1>12, <2>3 DEF FileFill, RunStates
      <3>2. /\ run'[r].pc = "open" /\ run'[r].next = run[r].next + 1
            /\ run'[r].name = run[r].name /\ run'[r].force = run[r].force
            /\ run'[r].cmd = run[r].cmd
        BY <1>1, <3>1 DEF RunStates
      <3> QED
        BY <2>1, <2>3, <3>1, <3>2 DEF Moves
    <2> QED
      BY <2>2, <2>3
  <1> QED
    BY <1>5, <1>6, <1>7, <1>8, <1>9, <1>10, <1>11, <1>12 DEF Step

\* No command writes a file twice, and both write node.key.
LEMMA WritesOnce ==
    ASSUME NEW cmd \in {"init", "join"}
    PROVE  /\ \A i, j \in 1 .. Len(Writes(cmd)) :
                Writes(cmd)[i] = Writes(cmd)[j] => i = j
           /\ \E i \in 1 .. Len(Writes(cmd)) : Writes(cmd)[i] = "node.key"
           /\ \E i \in 1 .. Len(Writes(cmd)) : Writes(cmd)[i] = "node.crt"
           /\ \E i \in 1 .. Len(Writes(cmd)) : Writes(cmd)[i] = "ca.crt"
           /\ cmd = "init" =>
                \E i \in 1 .. Len(Writes(cmd)) : Writes(cmd)[i] = "ca.key"
  <1>1. CASE cmd = "init"
    BY SMTT(30), <1>1 DEF Writes
  <1>2. CASE cmd = "join"
    BY SMTT(30), <1>2 DEF Writes
  <1> QED
    BY <1>1, <1>2

\* What a step of r does to the files r has opened.
LEMMA OpenedFacts ==
    ASSUME TypeOK, InOrder, NEW r \in Runs, Moves(r), NEW f \in Credentials
    PROVE  /\ \A s \in Runs \ {r} : Opened(s, f)' <=> Opened(s, f)
           /\ Opened(r, f)' => Opened(r, f) \/ (f = Target(r) /\ file'[f] = Torn)
           /\ Opened(r, f) => Opened(r, f)' \/ run'[r].pc = "failed"
           /\ file'[f] # file[f] => f = Target(r) /\ Opened(r, f)' /\ file'[f] \in {r, Torn}
  <1>1. /\ run[r].cmd \in {"init", "join"} /\ run[r].next \in 1 .. 6
        /\ run[r].next \in 1 .. Len(Writes(run[r].cmd))
        /\ Len(Writes(run[r].cmd)) \in 1 .. 6
        /\ file \in [Credentials -> Runs \cup {Absent, Torn}]
        /\ run[r].pc \notin {"open", "fill", "done"} => run[r].next = 1
    BY WritesSome DEF TypeOK, RunStates, InOrder
  <1>2. run'[r].cmd = run[r].cmd /\ run[r].pc # "done"
    BY DEF Moves, Active
  <1>3. \A s \in Runs \ {r} : Opened(s, f)' <=> Opened(s, f)
    BY SMTT(30) DEF Moves, Opened
  <1>4. CASE run'[r].pc = "failed" /\ run'[r].next = 1 /\ UNCHANGED file
    <2>1. ~Opened(r, f)'
      BY SMTT(30), <1>4 DEF Opened
    <2> QED
      BY <1>3, <1>4, <2>1
  <1>5. CASE /\ UNCHANGED file /\ run'[r].next = 1 /\ run[r].next = 1
             /\ run'[r].pc \notin {"guard", "fill", "done", "failed"}
             /\ run[r].pc # "fill"
    BY SMTT(30), <1>1, <1>2, <1>3, <1>5 DEF Opened
  <1>6. CASE /\ run[r].pc = "open" /\ run'[r].pc = "fill"
             /\ run'[r].next = run[r].next /\ file' = [file EXCEPT ![Target(r)] = Torn]
    <2>1. Opened(r, f)' <=> Opened(r, f) \/ f = Target(r)
      BY <1>1, <1>2, <1>6 DEF Opened, Target
    <2> QED
      BY <1>1, <1>3, <1>6, <2>1
  <1>7. CASE /\ run[r].pc = "fill" /\ file' = [file EXCEPT ![Target(r)] = r]
             /\ \/ run'[r].pc = "done" /\ run'[r].next = run[r].next
                \/ run'[r].pc = "open" /\ run'[r].next = run[r].next + 1
    <2>1. Opened(r, f)' <=> Opened(r, f)
      BY SMTT(30), <1>1, <1>2, <1>7 DEF Opened
    <2>2. f = Target(r) => Opened(r, f)
      BY <1>1, <1>2, <1>7 DEF Opened, Target
    <2> QED
      BY <1>1, <1>3, <1>7, <2>1, <2>2
  <1> QED
    BY <1>4, <1>5, <1>6, <1>7 DEF Moves

\* A step of r leaves every file accounted for.
LEMMA MovesAccounted ==
    ASSUME TypeOK, InOrder, Accounted, NEW r \in Runs, Moves(r)
    PROVE  Accounted'
  <1> USE DataDirAssumption
  <1>1. \A s \in Runs \ {r} : run'[s] = run[s]
    BY DEF Moves
  <1>2. r \in Runs => r # Absent /\ Torn # Absent
    OBVIOUS
  <1>3. ASSUME NEW s \in Runs, NEW f \in Credentials, Opened(s, f)'
        PROVE  file'[f] # Absent
    BY <1>2, <1>3, OpenedFacts DEF Accounted
  <1>4. ASSUME NEW f \in Credentials, file'[f] # Absent
        PROVE  \E s \in Runs : run'[s].pc = "failed" \/ Opened(s, f)'
    <2>1. CASE file'[f] # file[f]
      BY <2>1, OpenedFacts
    <2>2. CASE file'[f] = file[f]
      <3>1. PICK s \in Runs : run[s].pc = "failed" \/ Opened(s, f)
        BY <1>4, <2>2 DEF Accounted
      <3>2. CASE s = r
        BY <3>1, <3>2, OpenedFacts DEF Moves, Active
      <3>3. CASE s # r
        BY <1>1, <3>1, <3>3, OpenedFacts
      <3> QED
        BY <3>2, <3>3
    <2> QED
      BY <2>1, <2>2
  <1>5. ASSUME NEW s \in Runs, run'[s].pc = "done"
        PROVE  run'[s].next = Len(Writes(run'[s].cmd))
    <2>1. CASE s = r
      BY <1>5, <2>1 DEF Moves
    <2>2. CASE s # r
      BY <1>1, <1>5, <2>2 DEF Accounted
    <2> QED
      BY <2>1, <2>2
  <1> QED
    BY <1>3, <1>4, <1>5 DEF Accounted

\* A run that is done wrote node.key, so that a join without --force stops.
LEMMA DoneHasKey ==
    ASSUME TypeOK, Accounted, NEW q \in Runs, run[q].pc = "done"
    PROVE  file["node.key"] # Absent
  <1>1. run[q].cmd \in {"init", "join"}
    BY DEF TypeOK, RunStates
  <1>2. PICK i \in 1 .. Len(Writes(run[q].cmd)) : Writes(run[q].cmd)[i] = "node.key"
    BY <1>1, WritesOnce
  <1>3. run[q].next = Len(Writes(run[q].cmd)) /\ Len(Writes(run[q].cmd)) \in 1 .. 6
    BY <1>1, WritesSome DEF Accounted
  <1>4. Opened(q, "node.key")
    BY SMTT(30), <1>2, <1>3 DEF Opened
  <1> QED
    BY <1>4 DEF Accounted, Credentials

\* A run that is alone keeps what it has through its own steps.
LEMMA MovesUnshared ==
    ASSUME TypeOK, InOrder, Accounted, NEW r \in Runs, Moves(r), Unshared(r),
           r \in Active'
    PROVE  Unshared(r)'
  <1>1. /\ run[r].cmd \in {"init", "join"} /\ run[r].next \in 1 .. 6
        /\ run[r].next \in 1 .. Len(Writes(run[r].cmd))
        /\ Len(Writes(run[r].cmd)) \in 1 .. 6
        /\ file \in [Credentials -> Runs \cup {Absent, Torn}]
    BY WritesSome DEF TypeOK, RunStates, InOrder
  <1>2. /\ run'[r].cmd = run[r].cmd /\ r \in Active
        /\ \A s \in Runs \ {r} : run'[s] = run[s]
        /\ run'[r].pc \notin {"idle", "done", "failed"}
    BY DEF Moves, Active
  <1>3. \A q \in Active' : q = r
    BY <1>2 DEF Unshared, Active
  <1>4. \A i \in 1 .. Len(Writes(run'[r].cmd)) :
            i < run'[r].next => file'[Writes(run'[r].cmd)[i]] = r
    <2> SUFFICES ASSUME NEW i \in 1 .. Len(Writes(run[r].cmd)), i < run'[r].next
                 PROVE  file'[Writes(run[r].cmd)[i]] = r
      BY <1>2
    <2>1. Writes(run[r].cmd)[i] \in Credentials
      BY <1>1, WritesOrder
    <2>2. i # run[r].next => Writes(run[r].cmd)[i] # Target(r)
      BY ZenonT(30), <1>1, WritesOnce DEF Target
    <2>3. i < run[r].next => file[Writes(run[r].cmd)[i]] = r
      BY DEF Unshared
    <2>4. CASE run'[r].next = 1
      BY SMTT(30), <2>4
    <2>5. CASE /\ run[r].pc = "open" /\ run'[r].next = run[r].next
               /\ file' = [file EXCEPT ![Target(r)] = Torn]
      <3>1. i < run[r].next /\ i # run[r].next
        BY SMTT(30), <1>1, <2>5
      <3>2. Writes(run[r].cmd)[i] # Target(r) /\ file[Writes(run[r].cmd)[i]] = r
        BY <2>2, <2>3, <3>1
      <3> QED
        BY <1>1, <2>1, <2>5, <3>2
    <2>6. CASE /\ file' = [file EXCEPT ![Target(r)] = r]
               /\ run'[r].next = run[r].next + 1
      <3>1. CASE i = run[r].next
        BY <1>1, <2>1, <2>6, <3>1 DEF Target
      <3>2. CASE i # run[r].next
        <4>1. i < run[r].next
          BY SMTT(30), <1>1, <2>6, <3>2
        <4>2. Writes(run[r].cmd)[i] # Target(r) /\ file[Writes(run[r].cmd)[i]] = r
          BY <2>2, <2>3, <3>2, <4>1
        <4> QED
          BY <1>1, <2>1, <2>6, <4>2
      <3> QED
        BY <3>1, <3>2
    <2> QED
      BY <1>2, <2>4, <2>5, <2>6 DEF Moves
  <1>5. run'[r].pc \in {"credentials", "open", "fill"} => nodeID' = run'[r].name
    BY <1>2 DEF Moves, Unshared
  <1>6. ASSUME run'[r].cmd = "join", ~run'[r].force, run'[r].pc # "guard",
               NEW q \in Runs \ {r}
        PROVE  run'[q].pc \in {"idle", "failed"}
    <2>1. run'[q] = run[q] /\ run[q].pc \in {"idle", "done", "failed"}
      BY <1>2 DEF Unshared, Active
    <2>2. ~run[r].force /\ run[r].cmd = "join"
      BY <1>2, <1>6 DEF Moves
    <2>3. CASE run[r].pc = "guard"
      <3>1. file["node.key"] = Absent
        BY <1>2, <2>2, <2>3 DEF Moves, Guarded
      <3> QED
        BY <2>1, <3>1, DoneHasKey
    <2>4. CASE run[r].pc # "guard"
      BY <2>1, <2>2, <2>4 DEF Unshared
    <2> QED
      BY <2>3, <2>4
  <1> QED
    BY <1>3, <1>4, <1>5, <1>6 DEF Unshared

\* A start that finds no other run active is alone; one that finds another is not,
\* and neither is the other any more.
LEMMA StartAlone ==
    ASSUME AInv, NEW r \in Runs, NEW cmd \in {"init", "join"}, NEW force \in BOOLEAN,
           NEW flag \in Names \cup {NoName}, Start(r, cmd, force, flag)
    PROVE  Accounted' /\ \A s \in Active' \ overlap' : Unshared(s)'
  <1>1. /\ run[r].pc = "idle" /\ run'[r].pc = "guard" /\ run'[r].next = 1
        /\ \A s \in Runs \ {r} : run'[s] = run[s]
        /\ UNCHANGED <<file, nodeID>>
    BY DEF Start, AInv, TypeOK
  <1>2. run[r].next = 1
    BY <1>1 DEF AInv, InOrder
  <1>3. \A s \in Runs, f \in Credentials : Opened(s, f)' <=> Opened(s, f)
    <2>1. ASSUME NEW f \in Credentials PROVE ~Opened(r, f) /\ ~Opened(r, f)'
      BY SMTT(30), <1>1, <1>2 DEF Opened
    <2>2. ASSUME NEW s \in Runs \ {r}, NEW f \in Credentials PROVE Opened(s, f)' <=> Opened(s, f)
      BY <1>1 DEF Opened
    <2> QED
      BY <2>1, <2>2
  <1>4. Accounted'
    <2>1. \A s \in Runs : run[s].pc = "failed" => run'[s].pc = "failed"
      BY <1>1
    <2>2. \A s \in Runs : run'[s].pc = "done" => s # r
      BY <1>1
    <2>3. \A s \in Runs : run'[s].pc = "done" => run'[s].next = Len(Writes(run'[s].cmd))
      BY <1>1, <2>2 DEF AInv, Accounted
    <2> QED
      BY <1>1, <1>3, <2>1, <2>3 DEF AInv, Accounted
  <1>5. ASSUME NEW s \in Active' \ overlap'
        PROVE  Unshared(s)'
    <2>1. Active' = Active \cup {r}
      BY <1>1 DEF Active
    <2>2. Active = {} /\ s = r
      BY <1>5, <2>1 DEF Start
    <2> QED
      BY SMTT(30), <1>1, <2>1, <2>2 DEF Unshared
  <1> QED
    BY <1>4, <1>5

\* AInv holds in every reachable state of the directory.
THEOREM AloneInvariance == Spec => []AInv
  <1> USE DataDirAssumption
  <1>1. Init => AInv
    <2> SUFFICES ASSUME Init PROVE AInv
      OBVIOUS
    <2>1. TypeOK /\ InOrder
      BY InitIInv DEF IInv
    <2>2. \A r \in Runs : run[r].pc = "idle" /\ run[r].next = 1
      BY DEF Init, NotStarted
    <2>3. \A r \in Runs, f \in Credentials : ~Opened(r, f)
      BY SMTT(30), <2>2 DEF Opened
    <2>4. \A f \in Credentials : file[f] = Absent
      BY DEF Init
    <2>5. Accounted
      BY <2>2, <2>3, <2>4 DEF Accounted
    <2>6. Active = {}
      BY <2>2 DEF Active
    <2> QED
      BY <2>1, <2>5, <2>6 DEF AInv
  <1>2. AInv /\ [Next]_vars => AInv'
    <2> SUFFICES ASSUME AInv, [Next]_vars PROVE AInv'
      OBVIOUS
    <2>1. TypeOK /\ InOrder /\ Accounted /\ TypeOK' /\ InOrder'
      BY StepType DEF AInv
    <2>2. CASE UNCHANGED vars
      BY SMTT(30), <2>1, <2>2 DEF vars, AInv, Accounted, Opened, Active, Unshared
    <2>3. ASSUME NEW r \in Runs, Step(r) \/ Crash(r)
          PROVE  Accounted' /\ \A s \in Active' \ overlap' : Unshared(s)'
      <3>1. Moves(r)
        BY <2>1, <2>3, StepMoves
      <3>2. Accounted'
        BY <2>1, <3>1, MovesAccounted
      <3>3. ASSUME NEW s \in Active' \ overlap'
            PROVE  Unshared(s)'
        <4>1. s \in Runs /\ s \notin overlap /\ r \in Active
          BY <3>1, <3>3 DEF Moves, Active
        <4>2. s \in Active
          BY <3>1, <3>3, <4>1 DEF Moves, Active
        <4>3. Unshared(s)
          BY <4>1, <4>2 DEF AInv
        <4>4. s = r
          BY <4>1, <4>3 DEF Unshared
        <4> QED
          BY <2>1, <3>1, <3>3, <4>3, <4>4, MovesUnshared
      <3> QED
        BY <3>2, <3>3
    <2> QED
      BY <2>1, <2>2, <2>3, StartAlone DEF AInv, Next
  <1> QED
    BY <1>1, <1>2, PTL DEF Spec

\* cmdJoin stats node.key before it pairs and writes ca.crt first: in a directory of
\* its own it only finds a file in its way, with the code spent, where another run
\* failed, for any number of runs before it.
THEOREM CodesAreWastedOnlyAfterFailures == Spec => []CodeWastedOnlyAfterFailure
  <1>1. AInv => CodeWastedOnlyAfterFailure
    <2> SUFFICES ASSUME AInv, NEW r \in Runs, run[r].pc = "open", run[r].cmd = "join",
                        ~run[r].force, r \notin overlap, file[Target(r)] # Absent
                 PROVE  \E q \in Runs \ {r} : run[q].pc = "failed"
      BY DEF CodeWastedOnlyAfterFailure
    <2>1. TypeOK /\ InOrder /\ Accounted /\ Unshared(r)
      BY DEF AInv, Active
    <2>2. Target(r) \in Credentials
      BY <2>1, TargetFacts
    <2>3. PICK q \in Runs : run[q].pc = "failed" \/ Opened(q, Target(r))
      BY <2>1, <2>2 DEF Accounted
    <2>4. ~Opened(r, Target(r))
      <3>1. run[r].next \in 1 .. Len(Writes("join")) /\ run[r].next \in 1 .. 6
        BY <2>1 DEF InOrder, TypeOK, RunStates
      <3>2. \A i, j \in 1 .. Len(Writes("join")) :
                Writes("join")[i] = Writes("join")[j] => i = j
        BY WritesOnce
      <3>3. \A i \in 1 .. Len(Writes("join")) :
                Target(r) = Writes("join")[i] => i = run[r].next
        BY <3>1, <3>2 DEF Target
      <3>4. Len(Writes("join")) \in 1 .. 6
        BY WritesSome
      <3> QED
        BY SMTT(30), <3>1, <3>3, <3>4 DEF Opened
    <2>5. q # r
      BY <2>3, <2>4
    <2>6. run[q].pc \in {"idle", "failed"}
      BY <2>1, <2>5 DEF Unshared
    <2>7. ASSUME run[q].pc = "idle" PROVE ~Opened(q, Target(r))
      <3>1. run[q].next = 1
        BY <2>1, <2>7 DEF InOrder
      <3>2. run[q].cmd \in {"init", "join"}
        BY <2>1 DEF TypeOK, RunStates
      <3>3. Len(Writes(run[q].cmd)) \in 1 .. 6
        BY <3>2, WritesSome
      <3> QED
        BY SMTT(30), <2>7, <3>1, <3>3 DEF Opened
    <2> QED
      BY <2>3, <2>5, <2>6, <2>7
  <1> QED
    BY AloneInvariance, <1>1, PTL

\* cmdInit and cmdJoin with --force: a run that had the directory to itself ends with
\* files that are all its own and with the name that it read or wrote, so meshd loads
\* the identity (and the CA, after init) whatever was there before.
THEOREM ForcedRunsRepair == Spec => ForceRepairs
  <1> DEFINE Repaired(r) ==
                (run[r].pc # "done" /\ run'[r].pc = "done"
                                    /\ run[r].force /\ r \notin overlap)
                    => /\ Loadable'
                       /\ run[r].cmd = "init" => CALoadable'
                       /\ nodeID' = run'[r].name
                       /\ CertName' = run'[r].name
  <1>1. AInv /\ [Next]_vars => [\A r \in Runs : Repaired(r)]_vars
    <2> SUFFICES ASSUME AInv, Next, NEW r \in Runs, run[r].pc # "done",
                        run'[r].pc = "done", r \notin overlap
                 PROVE  /\ Loadable'
                        /\ run[r].cmd = "init" => CALoadable'
                        /\ nodeID' = run'[r].name
                        /\ CertName' = run'[r].name
      OBVIOUS
    <2>1. TypeOK /\ InOrder /\ run \in [Runs -> RunStates]
      BY DEF AInv, TypeOK
    <2>2. Moves(r)
      <3>1. PICK q \in Runs :
                \/ \E cmd \in {"init", "join"}, force \in BOOLEAN,
                      flag \in Names \cup {NoName} : Start(q, cmd, force, flag)
                \/ Step(q)
                \/ Crash(q)
        BY DEF Next
      <3>2. ASSUME NEW cmd, NEW force, NEW flag, Start(q, cmd, force, flag)
            PROVE  FALSE
        BY <2>1, <3>2 DEF Start
      <3>3. Moves(q)
        BY <2>1, <3>1, <3>2, StepMoves
      <3>4. q = r
        BY <3>3 DEF Moves
      <3> QED
        BY <3>3, <3>4
    <2>3. /\ run[r].pc = "fill" /\ nodeID' = nodeID /\ r \in Active
          /\ run'[r].name = run[r].name /\ run'[r].cmd = run[r].cmd
          /\ file' = [file EXCEPT ![Target(r)] = r]
          /\ run[r].next = Len(Writes(run[r].cmd))
      BY <2>2 DEF Moves
    <2>4. Unshared(r)
      BY <2>3 DEF AInv
    <2>5. run[r].cmd \in {"init", "join"}
      BY <2>1 DEF RunStates
    <2>6. ASSUME NEW i \in 1 .. Len(Writes(run[r].cmd))
          PROVE  file'[Writes(run[r].cmd)[i]] = r
      <3>1. Len(Writes(run[r].cmd)) \in 1 .. 6
        BY <2>5, WritesSome
      <3>2. Writes(run[r].cmd)[i] \in Credentials
        BY <2>5, WritesOrder
      <3>3. file \in [Credentials -> Runs \cup {Absent, Torn}]
        BY <2>1 DEF TypeOK
      <3>4. CASE i = run[r].next
        BY <2>3, <3>2, <3>3, <3>4 DEF Target
      <3>5. CASE i < run[r].next
        BY <2>3, <2>4, <3>2, <3>3, <3>5 DEF Unshared
      <3> QED
        BY SMTT(30), <2>3, <3>1, <3>4, <3>5
    <2>7. /\ file'["ca.crt"] = r /\ file'["node.crt"] = r /\ file'["node.key"] = r
          /\ run[r].cmd = "init" => file'["ca.key"] = r
      <3>1. PICK i \in 1 .. Len(Writes(run[r].cmd)) : Writes(run[r].cmd)[i] = "ca.crt"
        BY <2>5, WritesOnce
      <3>2. PICK j \in 1 .. Len(Writes(run[r].cmd)) : Writes(run[r].cmd)[j] = "node.crt"
        BY <2>5, WritesOnce
      <3>3. PICK k \in 1 .. Len(Writes(run[r].cmd)) : Writes(run[r].cmd)[k] = "node.key"
        BY <2>5, WritesOnce
      <3>4. ASSUME run[r].cmd = "init" PROVE file'["ca.key"] = r
        <4>1. PICK l \in 1 .. Len(Writes(run[r].cmd)) : Writes(run[r].cmd)[l] = "ca.key"
          BY <2>5, <3>4, WritesOnce
        <4> QED
          BY <2>6, <4>1
      <3>5. file'["ca.crt"] = r
        BY <2>6, <3>1
      <3>6. file'["node.crt"] = r
        BY <2>6, <3>2
      <3>7. file'["node.key"] = r
        BY <2>6, <3>3
      <3> QED
        BY <3>4, <3>5, <3>6, <3>7
    <2>8. nodeID = run[r].name
      BY <2>3, <2>4 DEF Unshared
    <2> QED
      BY <2>3, <2>7, <2>8 DEF Loadable, CALoadable, CertName, CAOf
  <1> QED
    BY AloneInvariance, <1>1, PTL DEF Spec, ForceRepairs

-----------------------------------------------------------------------------
(***************************************************************************)
(* meshd.                                                                  *)
(***************************************************************************)

\* Runs that were active together know it; what a run that was alone has open is
\* still empty; a file that parses is of a run that was started.
Alone ==
    /\ \A q, r \in Active : q # r => q \in overlap /\ r \in overlap
    /\ \A r \in Runs : (run[r].pc = "fill" /\ r \notin overlap) => file[Target(r)] = Torn
    /\ \A f \in Credentials : file[f] \in Runs => run[file[f]].pc # "idle"

\* What a step of run r of meshctl does to the credential files.
Shape(r) ==
    /\ \A s \in Runs \ {r} : run'[s] = run[s]
    /\ run'[r].pc # "idle"
    /\ run[r].pc # "idle" => run'[r].cmd = run[r].cmd
    /\ \/ /\ run[r].pc = "idle" /\ run'[r].pc = "guard" /\ file' = file
          /\ overlap' = IF Active = {} THEN overlap ELSE overlap \cup Active \cup {r}
       \/ /\ r \in Active /\ overlap' = overlap
          /\ \/ file' = file /\ run'[r].pc # "fill"
             \/ /\ run[r].pc = "open" /\ (file[Target(r)] = Absent \/ run[r].force)
                /\ file' = [file EXCEPT ![Target(r)] = Torn]
                /\ run'[r].pc = "fill" /\ run'[r].next = run[r].next
             \/ /\ run[r].pc = "fill" /\ run'[r].pc # "fill"
                /\ file' = [file EXCEPT ![Target(r)] = r]

LEMMA StepShape ==
    ASSUME TypeOK, Next
    PROVE  \E r \in Runs : Shape(r)
  <1>1. PICK r \in Runs :
            \/ \E cmd \in {"init", "join"}, force \in BOOLEAN,
                  flag \in Names \cup {NoName} : Start(r, cmd, force, flag)
            \/ Step(r)
            \/ Crash(r)
    BY DEF Next
  <1>2. run \in [Runs -> RunStates] /\ run[r] \in RunStates
    BY DEF TypeOK
  <1>3. ASSUME NEW state, run' = [run EXCEPT ![r] = state]
        PROVE  run'[r] = state /\ \A s \in Runs \ {r} : run'[s] = run[s]
    BY <1>2, <1>3
  <1>4. ASSUME Fail(r)
        PROVE  /\ run'[r].pc = "failed" /\ run'[r].cmd = run[r].cmd
               /\ \A s \in Runs \ {r} : run'[s] = run[s]
    BY <1>2, <1>4 DEF Fail
  <1>5. ASSUME NEW at, Goto(r, at)
        PROVE  /\ run'[r].pc = at /\ run'[r].cmd = run[r].cmd /\ run'[r].next = run[r].next
               /\ \A s \in Runs \ {r} : run'[s] = run[s]
    <2>1. run'[r] = [run[r] EXCEPT !.pc = at] /\ \A s \in Runs \ {r} : run'[s] = run[s]
      BY <1>2, <1>5 DEF Goto
    <2> QED
      BY <1>2, <2>1 DEF RunStates
  <1>6. ASSUME NEW cmd \in {"init", "join"}, NEW force \in BOOLEAN,
               NEW flag \in Names \cup {NoName}, Start(r, cmd, force, flag)
        PROVE  Shape(r)
    BY <1>2, <1>6 DEF Start, Shape
  <1>7. CASE Crash(r)
    BY <1>4, <1>7 DEF Crash, Shape, Active
  <1>8. CASE \/ Guard(r) \/ SetCheck(r) \/ NodeIDOpen(r) \/ SetFill(r) \/ MakeCredentials(r)
    <2>1. r \in Active /\ UNCHANGED <<file, overlap>>
      BY <1>8 DEF Guard, SetCheck, NodeIDOpen, SetFill, MakeCredentials, Active
    <2>2. \/ Fail(r)
          \/ \E at \in {"load", "setCheck", "setOpen", "setFill", "createFill", "open"} :
                Goto(r, at)
      BY <1>8 DEF Guard, SetCheck, NodeIDOpen, SetFill, MakeCredentials
    <2> QED
      BY <1>4, <1>5, <2>1, <2>2 DEF Shape
  <1>9. CASE CreateFill(r) \/ Load(r)
    <2>1. r \in Active /\ UNCHANGED <<file, overlap>>
      BY <1>9 DEF CreateFill, Load, Active
    <2>2. \/ Fail(r) \/ Goto(r, "createOpen")
          \/ \E name : run' = [run EXCEPT ![r].pc = "credentials", ![r].name = name]
      BY <1>9 DEF CreateFill, Load
    <2>3. ASSUME NEW name, run' = [run EXCEPT ![r].pc = "credentials", ![r].name = name]
          PROVE  /\ run'[r].pc = "credentials" /\ run'[r].cmd = run[r].cmd
                 /\ \A s \in Runs \ {r} : run'[s] = run[s]
      <3>1. /\ run'[r] = [run[r] EXCEPT !.pc = "credentials", !.name = name]
            /\ \A s \in Runs \ {r} : run'[s] = run[s]
        BY <1>2, <2>3
      <3> QED
        BY <1>2, <3>1 DEF RunStates
    <2> QED
      BY SMTT(30), <1>4, <1>5, <2>1, <2>2, <2>3 DEF Shape
  <1>10. CASE FileOpen(r)
    BY <1>4, <1>5, <1>10 DEF FileOpen, Shape, Active
  <1>11. CASE FileFill(r)
    <2>1. /\ r \in Active /\ run[r].pc = "fill" /\ overlap' = overlap
          /\ file' = [file EXCEPT ![Target(r)] = r]
      BY <1>11 DEF FileFill, Active
    <2>2. /\ run'[r].pc \in {"done", "open"} /\ run'[r].cmd = run[r].cmd
          /\ \A s \in Runs \ {r} : run'[s] = run[s]
      <3>1. CASE run' = [run EXCEPT ![r].pc = "done", ![r].flag = NoName]
        <4>1. /\ run'[r] = [run[r] EXCEPT !.pc = "done", !.flag = NoName]
              /\ \A s \in Runs \ {r} : run'[s] = run[s]
          BY <1>2, <3>1
        <4> QED
          BY <1>2, <4>1 DEF RunStates
      <3>2. CASE run' = [run EXCEPT ![r].pc = "open", ![r].next = @ + 1]
        <4>1. /\ run'[r] = [run[r] EXCEPT !.pc = "open", !.next = run[r].next + 1]
              /\ \A s \in Runs \ {r} : run'[s] = run[s]
          BY <1>2, <3>2 DEF RunStates
        <4> QED
          BY <1>2, <4>1 DEF RunStates
      <3> QED
        BY <1>11, <3>1, <3>2 DEF FileFill
    <2> QED
      BY <2>1, <2>2 DEF Shape
  <1> QED
    BY <1>1, <1>6, <1>7, <1>8, <1>9, <1>10, <1>11 DEF Step

LEMMA AloneStep ==
    ASSUME TypeOK, InOrder, Alone, Next
    PROVE  Alone'
  <1>1. PICK r \in Runs : Shape(r)
    BY StepShape
  <1>2. /\ Target(r) \in Credentials /\ file \in [Credentials -> Runs \cup {Absent, Torn}]
        /\ overlap \in SUBSET Runs
    BY TargetFacts DEF TypeOK
  <1>3. Active' \subseteq Active \cup {r}
    BY <1>1 DEF Shape, Active
  <1>4. \A q, s \in Active' : q # s => q \in overlap' /\ s \in overlap'
    <2>1. CASE run[r].pc = "idle" /\ file' = file
               /\ overlap' = IF Active = {} THEN overlap ELSE overlap \cup Active \cup {r}
      BY <1>3, <2>1 DEF Alone
    <2>2. CASE r \in Active /\ overlap' = overlap
      BY <1>3, <2>2 DEF Alone
    <2> QED
      BY <1>1, <2>1, <2>2 DEF Shape
  <1>5. overlap \subseteq overlap'
    BY <1>1 DEF Shape
  <1>6. ASSUME NEW s \in Runs, run'[s].pc = "fill", s \notin overlap'
        PROVE  file'[Target(s)'] = Torn
    <2>1. CASE s = r
      <3>1. /\ run[r].pc = "open" /\ file' = [file EXCEPT ![Target(r)] = Torn]
            /\ run'[r].next = run[r].next /\ run'[r].cmd = run[r].cmd
        BY <1>1, <1>6, <2>1 DEF Shape, Active
      <3>2. Target(r)' = Target(r)
        BY <3>1 DEF Target
      <3> QED
        BY <1>2, <2>1, <3>1, <3>2
    <2>2. CASE s # r
      <3>1. run'[s] = run[s] /\ Target(s)' = Target(s) /\ s \in Active /\ s \in Active'
        BY <1>1, <1>6, <2>2 DEF Shape, Target, Active
      <3>2. file[Target(s)] = Torn
        BY <1>5, <1>6, <3>1 DEF Alone
      <3>3. file' = file
        <4>1. r \notin Active
          BY <1>5, <1>6, <2>2, <3>1 DEF Alone
        <4> QED
          BY <1>1, <4>1 DEF Shape
      <3> QED
        BY <3>1, <3>2, <3>3
    <2> QED
      BY <2>1, <2>2
  <1>7. ASSUME NEW f \in Credentials, file'[f] \in Runs
        PROVE  run'[file'[f]].pc # "idle"
    <2>1. file'[f] = file[f] \/ file'[f] = r
      BY <1>1, <1>2, <1>7, DataDirAssumption DEF Shape
    <2>2. CASE file'[f] = r
      BY <1>1, <2>2 DEF Shape
    <2>3. CASE file'[f] = file[f] /\ file[f] # r
      BY <1>1, <1>7, <2>3 DEF Shape, Alone
    <2> QED
      BY <2>1, <2>2, <2>3
  <1> QED
    BY <1>4, <1>6, <1>7 DEF Alone

\* While no run is active that may overwrite, a file that parses stays as it is, and
\* it stays known which command wrote it.
LEMMA Undisturbed ==
    ASSUME IInv, Alone, Next, ~MayOverwrite
    PROVE  \A f \in Credentials : file[f] \in Runs =>
               file'[f] = file[f] /\ run'[file[f]].cmd = run[file[f]].cmd
  <1>1. PICK r \in Runs : Shape(r)
    BY StepShape DEF IInv
  <1>2. /\ Target(r) \in Credentials /\ file \in [Credentials -> Runs \cup {Absent, Torn}]
        /\ InOrder
    BY TargetFacts DEF IInv, TypeOK
  <1>3. SUFFICES ASSUME NEW f \in Credentials, file[f] \in Runs
                 PROVE  file'[f] = file[f] /\ run'[file[f]].cmd = run[file[f]].cmd
    OBVIOUS
  <1>4. run[file[f]].pc # "idle"
    BY <1>3 DEF Alone
  <1>5. run'[file[f]].cmd = run[file[f]].cmd
    BY <1>1, <1>3, <1>4 DEF Shape
  <1>6. file'[f] = file[f]
    <2>1. CASE file' = file
      BY <2>1
    <2>2. CASE /\ r \in Active /\ run[r].pc = "open"
               /\ file[Target(r)] = Absent \/ run[r].force
               /\ file' = [file EXCEPT ![Target(r)] = Torn]
      <3>1. file[Target(r)] = Absent
        BY <2>2 DEF MayOverwrite
      <3> QED
        BY <1>2, <1>3, <2>2, <3>1, DataDirAssumption
    <2>3. CASE r \in Active /\ run[r].pc = "fill" /\ file' = [file EXCEPT ![Target(r)] = r]
      <3>1. ~forced \/ r \notin overlap
        BY <2>3 DEF MayOverwrite
      <3>2. file[Target(r)] = Torn
        BY <2>3, <3>1 DEF IInv, Exclusive, Alone
      <3> QED
        BY <1>2, <1>3, <2>3, <3>2, DataDirAssumption
    <2> QED
      BY <1>1, <2>1, <2>2, <2>3 DEF Shape
  <1> QED
    BY <1>5, <1>6

-----------------------------------------------------------------------------
(***************************************************************************)
(* meshd.                                                                  *)
(***************************************************************************)

\* run has an identity; stopAdvert is only reached when it was running.
Loaded == {"listen", "signing.crt", "ca.key", "listenPair", "serve", "advertise", "running",
           "stopAdvert"}

Points == {"off", "ca.crt", "node.crt", "node.key", "identify", "stopServer", "stopPairing"}
          \cup Loaded

Files == {"ca.crt", "node.crt", "node.key", "signing.crt", "ca.key"}

MTypes ==
    /\ pc \in Points
    /\ read \in [Files -> Runs \cup {Absent, Torn}]
    /\ up \subseteq {"server", "pairing", "advert"} /\ dead \subseteq {"server", "pairing"}
    /\ pc = "off" => read = NothingRead /\ up = {} /\ dead = {}

\* Which servers have been started where run is.
Started ==
    /\ pc \in {"advertise", "running", "stopAdvert"} => "server" \in up \cup dead
    /\ (coordinator /\ pc \in {"serve", "advertise", "running", "stopAdvert"}) =>
           "pairing" \in up \cup dead
    /\ "advert" \in up => pc \in {"running", "stopAdvert"}
    /\ "pairing" \in up => pc \in {"serve", "advertise", "running", "stopAdvert",
                                   "stopServer", "stopPairing"}

\* What was read is what is there, as far as run has come.
Fresh ==
    /\ ~MayOverwrite
    /\ \A f \in {"ca.crt", "node.crt", "node.key"} : read[f] \in Runs => read[f] = file[f]
    /\ read["signing.crt"] \in Runs => read["signing.crt"] = file["ca.crt"]
    /\ pc \in {"node.crt", "node.key", "identify"} \cup Loaded => read["ca.crt"] \in Runs
    /\ pc \in {"node.key", "identify"} \cup Loaded => read["node.crt"] \in Runs
    /\ pc \in {"identify"} \cup Loaded => read["node.key"] \in Runs
    /\ pc \in Loaded => IdentityLoads
    /\ pc = "ca.key" => read["signing.crt"] \in Runs
    /\ (pc = "listenPair" \/ "pairing" \in up) =>
           /\ read["ca.key"] = read["signing.crt"] /\ read["signing.crt"] \in Runs
           /\ read["ca.crt"] \in Runs /\ read["node.crt"] \in Runs /\ IdentityLoads

Undisturbedly == (pc # "off" /\ ~disturbed) => Fresh

MInv == IInv /\ Alone /\ MTypes /\ Started /\ Undisturbedly

\* Where Return goes.
LEMMA ReturnTo ==
    ASSUME MTypes, Return
    PROVE  /\ pc' \in {"stopAdvert", "stopServer", "stopPairing"}
           /\ pc' = "stopAdvert" <=> "advert" \in up
  <1>1. CASE "advert" \in up
    BY <1>1 DEF Return
  <1>2. CASE "advert" \notin up /\ "server" \in up \cup dead
    BY <1>2 DEF Return
  <1>3. CASE "advert" \notin up /\ "server" \notin up \cup dead
    <2>1. {"advert", "server"} \cap (up \cup dead) = {}
      BY <1>3 DEF MTypes
    <2> QED
      BY <1>3, <2>1 DEF Return
  <1> QED
    BY <1>1, <1>2, <1>3

\* The process is gone.
LEMMA OffKeeps ==
    ASSUME MInv, Off, UNCHANGED vars
    PROVE  MInv'
  <1>1. IInv' /\ Alone'
    BY DEF MInv, vars, IInv, TypeOK, InOrder, Exclusive, Alone, Active, Target
  <1>2. /\ pc' = "off" /\ read' = NothingRead /\ up' = {} /\ dead' = {}
    BY DEF Off
  <1>3. NothingRead \in [Files -> Runs \cup {Absent, Torn}]
    BY DEF NothingRead, Files
  <1>4. MTypes'
    BY <1>2, <1>3 DEF MTypes, Points, Loaded
  <1>5. Started' /\ Undisturbedly'
    BY <1>2 DEF Started, Undisturbedly
  <1> QED
    BY <1>1, <1>4, <1>5 DEF MInv

\* A step of meshd that reads nothing and leaves the directory alone.
LEMMA QuietKeeps ==
    ASSUME MInv, UNCHANGED <<vars, read, disturbed>>, MTypes', Started', pc # "off",
           pc' \in Loaded => pc \in Loaded \/ (pc = "identify" /\ IdentityLoads),
           pc' \notin {"node.crt", "node.key", "identify", "ca.key"} \/ pc' = pc,
           pc' = "listenPair" => pc = "listenPair",
           "pairing" \in up' => "pairing" \in up \/ pc = "listenPair"
    PROVE  MInv'
  <1>1. IInv' /\ Alone'
    BY SMTT(30) DEF MInv, vars, IInv, TypeOK, InOrder, Exclusive, Alone, Active, Target
  <1>2. /\ file' = file /\ run' = run /\ forced' = forced /\ overlap' = overlap
        /\ read' = read /\ disturbed' = disturbed
    BY DEF vars
  <1>3. MayOverwrite' <=> MayOverwrite
    BY <1>2 DEF MayOverwrite, Active
  <1>4. IdentityLoads' <=> IdentityLoads
    BY <1>2 DEF IdentityLoads, CAOf
  <1>5. ASSUME Fresh
        PROVE  Fresh'
    BY <1>2, <1>3, <1>4, <1>5 DEF Fresh, MInv
  <1>6. Undisturbedly'
    BY SMTT(30), <1>2, <1>5 DEF MInv, Undisturbedly
  <1> QED
    BY <1>1, <1>6 DEF MInv

\* A step of meshd that reads a file.
LEMMA ReadKeeps ==
    ASSUME MInv,
           \/ \E i \in 1 .. 3 : ReadFile(Reads[i], Reads[i + 1])
           \/ ReadCACert \/ ReadCAKey
    PROVE  MInv'
  <1>0. /\ IInv /\ Alone /\ MTypes /\ Started /\ Undisturbedly
        /\ file \in [Credentials -> Runs \cup {Absent, Torn}]
        /\ Absent \notin Runs
    BY DataDirAssumption DEF MInv, IInv, TypeOK
  <1>1. PICK f \in {"ca.crt", "node.crt", "node.key", "signing.crt", "ca.key"},
             g \in Credentials, next \in {"node.crt", "node.key", "identify", "ca.key",
                                          "listenPair"} :
            /\ pc = f /\ pc' = next /\ file[g] \in Runs
            /\ read' = [read EXCEPT ![f] = file[g]]
            /\ UNCHANGED <<vars, coordinator, up, dead, disturbed>>
            /\ g = IF f = "signing.crt" THEN "ca.crt" ELSE f
            /\ f = "ca.crt" => next = "node.crt"
            /\ f = "node.crt" => next = "node.key"
            /\ f = "node.key" => next = "identify"
            /\ f = "signing.crt" => next = "ca.key"
            /\ f = "ca.key" => next = "listenPair" /\ file["ca.key"] = read["signing.crt"]
    <2>1. ASSUME NEW i \in 1 .. 3, ReadFile(Reads[i], Reads[i + 1])
          PROVE  \/ ReadFile("ca.crt", "node.crt") \/ ReadFile("node.crt", "node.key")
                 \/ ReadFile("node.key", "identify")
      <3>1. CASE i = 1
        BY SMTT(30), <2>1, <3>1 DEF Reads
      <3>2. CASE i = 2
        BY SMTT(30), <2>1, <3>2 DEF Reads
      <3>3. CASE i = 3
        BY SMTT(30), <2>1, <3>3 DEF Reads
      <3> QED
        BY SMTT(30), <2>1, <3>1, <3>2, <3>3
    <2>2. CASE ReadFile("ca.crt", "node.crt")
      BY <2>2 DEF ReadFile, Parses, Credentials
    <2>3. CASE ReadFile("node.crt", "node.key")
      BY <2>3 DEF ReadFile, Parses, Credentials
    <2>4. CASE ReadFile("node.key", "identify")
      BY <2>4 DEF ReadFile, Parses, Credentials
    <2>5. CASE ReadCACert
      BY <2>5 DEF ReadCACert, Parses, Credentials
    <2>6. CASE ReadCAKey
      BY <2>6 DEF ReadCAKey, Parses, Credentials
    <2> QED
      BY <2>1, <2>2, <2>3, <2>4, <2>5, <2>6
  <1>2. IInv' /\ Alone'
    BY <1>0, <1>1 DEF vars, IInv, TypeOK, InOrder, Exclusive, Alone, Active, Target
  <1>3. /\ file' = file /\ run' = run /\ forced' = forced /\ overlap' = overlap
        /\ disturbed' = disturbed /\ up' = up /\ dead' = dead /\ coordinator' = coordinator
    BY <1>1 DEF vars
  <1>4. /\ read' \in [Files -> Runs \cup {Absent, Torn}] /\ read'[f] = file[g]
        /\ \A h \in Files \ {f} : read'[h] = read[h]
    BY <1>0, <1>1 DEF MTypes, Files
  <1>5. MTypes'
    BY <1>0, <1>1, <1>3, <1>4 DEF MTypes, Points, Loaded
  <1>6. Started'
    BY <1>0, <1>1, <1>3 DEF Started
  <1>7. MayOverwrite' <=> MayOverwrite
    BY <1>3 DEF MayOverwrite, Active
  <1>8. ASSUME Fresh
        PROVE  Fresh'
    <2>1. ~MayOverwrite'
      BY <1>7, <1>8 DEF Fresh
    <2>2. ASSUME NEW h \in {"ca.crt", "node.crt", "node.key"}, read'[h] \in Runs
          PROVE  read'[h] = file'[h]
      BY <1>1, <1>3, <1>4, <1>8, <2>2 DEF Fresh, Files
    <2>3. read'["signing.crt"] \in Runs => read'["signing.crt"] = file'["ca.crt"]
      BY <1>1, <1>3, <1>4, <1>8 DEF Fresh, Files
    <2>4. /\ pc' \in {"node.crt", "node.key", "identify"} \cup Loaded => read'["ca.crt"] \in Runs
          /\ pc' \in {"node.key", "identify"} \cup Loaded => read'["node.crt"] \in Runs
          /\ pc' \in {"identify"} \cup Loaded => read'["node.key"] \in Runs
          /\ pc' = "ca.key" => read'["signing.crt"] \in Runs
      BY <1>1, <1>4, <1>8 DEF Fresh, Files, Loaded
    <2>5. IdentityLoads /\ f \in {"signing.crt", "ca.key"} => IdentityLoads'
      BY <1>3, <1>4 DEF IdentityLoads, CAOf, Files
    <2>6. pc' \in Loaded => IdentityLoads'
      BY <1>1, <1>8, <2>5 DEF Fresh, Loaded
    <2>7. "pairing" \in up => f \notin {"ca.crt", "node.crt", "node.key", "signing.crt", "ca.key"}
      BY <1>0, <1>1
      DEF Started
    <2> QED
      BY <1>1, <1>3, <1>4, <1>8, <2>1, <2>2, <2>3, <2>4, <2>5, <2>6, <2>7 DEF Fresh, Files, Loaded
  <1>9. Undisturbedly'
    BY SMTT(30), <1>0, <1>1, <1>3, <1>8 DEF Undisturbedly
  <1> QED
    BY <1>2, <1>5, <1>6, <1>9 DEF MInv

\* A step of meshctl.
LEMMA MeshctlKeeps ==
    ASSUME MInv, Meshctl
    PROVE  MInv'
  <1>1. /\ IInv /\ TypeOK /\ InOrder /\ Alone /\ MTypes /\ Started /\ Undisturbedly /\ Next
        /\ UNCHANGED <<pc, coordinator, read, up, dead>>
    BY DEF MInv, Meshctl, IInv
  <1>2. IInv'
    BY <1>1, StepType, StepExclusive DEF IInv
  <1>3. Alone'
    BY <1>1, AloneStep
  <1>4. MTypes' /\ Started'
    BY <1>1 DEF MTypes, Started
  <1>5. ASSUME pc # "off", ~disturbed'
        PROVE  Fresh'
    <2>1. ~MayOverwrite' /\ ~disturbed
      BY <1>5 DEF Meshctl
    <2>2. Fresh
      BY <1>1, <1>5, <2>1 DEF Undisturbedly
    <2>3. \A f \in Credentials : file[f] \in Runs =>
              file'[f] = file[f] /\ run'[file[f]].cmd = run[file[f]].cmd
      BY <1>1, <2>2, Undisturbed DEF Fresh
    <2>4. \A f \in {"ca.crt", "node.crt", "node.key"} : read[f] \in Runs =>
              read[f] = file'[f] /\ run'[read[f]].cmd = run[read[f]].cmd
      BY SMTT(30), <2>2, <2>3 DEF Fresh, Credentials
    <2>5. read["signing.crt"] \in Runs => read["signing.crt"] = file'["ca.crt"]
      BY <2>2, <2>3 DEF Fresh, Credentials
    <2>6. (read["ca.crt"] \in Runs /\ read["node.crt"] \in Runs /\ IdentityLoads)
              => IdentityLoads'
      BY <1>1, <2>4 DEF IdentityLoads, CAOf
    <2> QED
      BY <1>1, <2>1, <2>2, <2>4, <2>5, <2>6 DEF Fresh, Loaded
  <1>6. Undisturbedly'
    BY <1>1, <1>5 DEF Undisturbedly
  <1> QED
    BY <1>2, <1>3, <1>4, <1>6 DEF MInv

\* The other steps of meshd.
LEMMA ProcessKeeps ==
    ASSUME MInv,
           \/ Identify \/ Listen \/ ListenPair \/ Serve \/ Advertise \/ FailStart
           \/ ShutDown \/ StopNext \/ \E s \in up : ServeFails(s)
    PROVE  MInv'
  <1>1. /\ MTypes /\ Started /\ UNCHANGED <<vars, read, disturbed, coordinator>>
        /\ pc # "off"
    <2>1. MTypes /\ Started
      BY DEF MInv
    <2>2. CASE \E s \in up : ServeFails(s)
      BY <2>1, <2>2 DEF ServeFails, MTypes
    <2>3. CASE Identify \/ Listen \/ ListenPair \/ Serve
      BY SMTT(30), <2>1, <2>3 DEF Identify, Listen, ListenPair, Serve
    <2>4. CASE FailStart \/ ShutDown \/ StopNext
      BY SMTT(30), <2>1, <2>4 DEF FailStart, ShutDown, StopNext
    <2>5. CASE Advertise
      BY SMTT(30), <2>1, <2>5 DEF Advertise
    <2> QED
      BY <2>2, <2>3, <2>4, <2>5
  <1>2. CASE Identify
    <2>1. pc = "identify" /\ IdentityLoads /\ pc' = "listen" /\ UNCHANGED <<up, dead>>
      BY <1>2 DEF Identify
    <2>2. MTypes' /\ Started'
      BY <1>1, <2>1 DEF MTypes, Started, Points, Loaded
    <2> QED
      BY <1>1, <2>1, <2>2, QuietKeeps
  <1>3. CASE Listen
    <2>1. pc = "listen" /\ pc' \in {"signing.crt", "serve"} /\ UNCHANGED <<up, dead>>
      BY SMTT(30), <1>3 DEF Listen
    <2>2. coordinator' => pc' = "signing.crt"
      BY SMTT(30), <1>1, <1>3 DEF Listen
    <2>3. MTypes' /\ Started'
      BY <1>1, <2>1, <2>2 DEF MTypes, Started, Points, Loaded
    <2> QED
      BY SMTT(30), <1>1, <2>1, <2>3, QuietKeeps DEF Loaded
  <1>4. CASE ListenPair
    <2>1. pc = "listenPair" /\ pc' = "serve" /\ up' = up \cup {"pairing"} /\ dead' = dead
      BY SMTT(30), <1>4 DEF ListenPair
    <2>2. MTypes' /\ Started'
      BY <1>1, <2>1 DEF MTypes, Started, Points, Loaded
    <2> QED
      BY SMTT(30), <1>1, <2>1, <2>2, QuietKeeps DEF Loaded
  <1>5. CASE Serve
    <2>1. pc = "serve" /\ pc' = "advertise" /\ up' = up \cup {"server"} /\ dead' = dead
      BY <1>5 DEF Serve
    <2>2. MTypes' /\ Started'
      BY <1>1, <2>1 DEF MTypes, Started, Points, Loaded
    <2> QED
      BY <1>1, <2>1, <2>2, QuietKeeps DEF Loaded
  <1>6. CASE Advertise
    <2>1. pc = "advertise" /\ pc' = "running" /\ up' = up \cup {"advert"} /\ dead' = dead
      BY SMTT(30), <1>6 DEF Advertise
    <2>2. MTypes' /\ Started'
      BY <1>1, <2>1 DEF MTypes, Started, Points, Loaded
    <2> QED
      BY SMTT(30), <1>1, <2>1, <2>2, QuietKeeps DEF Loaded
  <1>7. CASE FailStart \/ ShutDown
    <2>1. /\ Return /\ UNCHANGED <<up, dead>>
          /\ pc \in {"ca.crt", "node.crt", "node.key", "identify", "listen", "signing.crt",
                     "ca.key", "listenPair", "advertise", "running"}
      BY <1>7 DEF FailStart, ShutDown
    <2>2. /\ pc' \in {"stopAdvert", "stopServer", "stopPairing"}
          /\ pc' = "stopAdvert" => pc = "running" /\ "advert" \in up
          /\ "advert" \in up => pc' = "stopAdvert"
      BY <1>1, <2>1, ReturnTo DEF Started
    <2>3. "pairing" \in up' => "pairing" \in up
      BY <2>1
    <2>4. MTypes' /\ Started'
      BY <1>1, <2>1, <2>2 DEF MTypes, Started, Points, Loaded
    <2> QED
      BY <1>1, <2>2, <2>3, <2>4, QuietKeeps DEF Loaded
  <1>8. CASE StopNext
    <2>1. CASE pc = "stopAdvert"
      <3>1. pc' = "stopServer" /\ up' = up \ {"advert"} /\ dead' = dead
        BY <1>8, <2>1 DEF StopNext, Deferred
      <3>2. MTypes' /\ Started'
        BY <1>1, <2>1, <3>1 DEF MTypes, Started, Points, Loaded
      <3> QED
        BY <1>1, <2>1, <3>1, <3>2, QuietKeeps DEF Loaded
    <2>2. CASE pc = "stopServer"
      <3>1. pc' = "stopPairing" /\ up' = up \ {"server"} /\ dead' = dead
        BY <1>8, <2>2 DEF StopNext, Deferred
      <3>2. MTypes' /\ Started'
        BY <1>1, <2>2, <3>1 DEF MTypes, Started, Points, Loaded
      <3> QED
        BY <1>1, <2>2, <3>1, <3>2, QuietKeeps DEF Loaded
    <2> QED
      BY <1>8, <2>1, <2>2 DEF StopNext
  <1>9. ASSUME NEW s \in up, ServeFails(s)
        PROVE  MInv'
    <2>1. /\ s \in up \ {"advert"} /\ up' = up \ {s} /\ dead' = dead \cup {s} /\ pc' = pc
      BY <1>9 DEF ServeFails
    <2>2. MTypes' /\ Started'
      BY <1>1, <2>1 DEF MTypes, Started
    <2> QED
      BY <1>1, <2>1, <2>2, QuietKeeps DEF Loaded
  <1> QED
    BY <1>2, <1>3, <1>4, <1>5, <1>6, <1>7, <1>8, <1>9

LEMMA LaunchKeeps ==
    ASSUME MInv, NEW c \in BOOLEAN, Launch(c)
    PROVE  MInv'
  <1>1. /\ MTypes /\ pc = "off" /\ pc' = "ca.crt" /\ UNCHANGED <<vars, read, up, dead>>
        /\ read = NothingRead /\ up = {} /\ dead = {}
    BY DEF MInv, MTypes, Launch
  <1>2. IInv' /\ Alone'
    BY <1>1 DEF MInv, vars, IInv, TypeOK, InOrder, Exclusive, Alone, Active, Target
  <1>3. MTypes' /\ Started'
    BY <1>1 DEF MTypes, Started, Points, Loaded
  <1>4. MayOverwrite' <=> MayOverwrite
    BY <1>1 DEF vars, MayOverwrite, Active
  <1>5. disturbed' <=> MayOverwrite
    BY DEF Launch
  <1>6. \A f \in Files : read'[f] \notin Runs
    BY <1>1, DataDirAssumption DEF NothingRead, Files
  <1>7. Undisturbedly'
    BY <1>1, <1>4, <1>5, <1>6 DEF Undisturbedly, Fresh, Files, Loaded
  <1> QED
    BY <1>2, <1>3, <1>7 DEF MInv

LEMMA SignalKeeps ==
    ASSUME MInv, Signal
    PROVE  MInv'
  <1>1. UNCHANGED vars
    BY DEF Signal
  <1>2. CASE Off
    BY <1>1, <1>2, OffKeeps
  <1>3. CASE pc # "off" /\ UNCHANGED <<pc, coordinator, read, ports, up, dead, disturbed>>
    <2>1. MTypes' /\ Started'
      BY <1>3 DEF MInv, MTypes, Started
    <2> QED
      BY <1>1, <1>3, <2>1, QuietKeeps
  <1> QED
    BY <1>2, <1>3 DEF Signal

-----------------------------------------------------------------------------
(***************************************************************************)
(* Theorems.                                                               *)
(***************************************************************************)

\* MInv is inductive, for any number of runs of meshctl that start, fail, crash and
\* overlap while meshd starts, runs, stops and is killed.
THEOREM MeshdInvariance == MeshdSpec => []MInv
  <1>1. MeshdInit => MInv
    <2> SUFFICES ASSUME MeshdInit PROVE MInv
      OBVIOUS
    <2>1. IInv
      BY InitIInv DEF MeshdInit
    <2>2. \A r \in Runs : run[r].pc = "idle"
      BY DEF MeshdInit, Init, NotStarted
    <2>3. Alone
      BY <2>2, DataDirAssumption DEF MeshdInit, Init, Alone, Active
    <2>4. NothingRead \in [Files -> Runs \cup {Absent, Torn}]
      BY DEF NothingRead, Files
    <2>5. MTypes /\ Started /\ Undisturbedly
      BY <2>4 DEF MeshdInit, MTypes, Started, Undisturbedly, Points, Loaded
    <2> QED
      BY <2>1, <2>3, <2>5 DEF MInv
  <1>2. MInv /\ [MeshdNext]_allVars => MInv'
    <2> SUFFICES ASSUME MInv, [MeshdNext]_allVars PROVE MInv'
      OBVIOUS
    <2>1. CASE UNCHANGED allVars
      <3>1. UNCHANGED vars /\ UNCHANGED meshdVars
        BY <2>1 DEF allVars
      <3>2. IInv' /\ Alone'
        BY <3>1 DEF MInv, vars, IInv, TypeOK, InOrder, Exclusive, Alone, Active, Target
      <3>3. MTypes' /\ Started'
        BY <3>1 DEF MInv, meshdVars, MTypes, Started
      <3>4. Undisturbedly'
        BY <3>1 DEF MInv, vars, meshdVars, Undisturbedly, Fresh, MayOverwrite, Active,
                    IdentityLoads, CAOf
      <3> QED
        BY <3>2, <3>3, <3>4 DEF MInv
    <2>2. CASE MeshdNext
      BY <2>2, LaunchKeeps, ReadKeeps, ProcessKeeps, SignalKeeps, OffKeeps, MeshctlKeeps
      DEF MeshdNext, Startup, Shutdown, Exit, Kill
    <2> QED
      BY <2>1, <2>2
  <1> QED
    BY <1>1, <1>2, PTL DEF MeshdSpec

\* What meshd advertises is served, from Start to the deferred Stop: run starts the
\* servers before the advertisement and its deferred calls end them after it.
THEOREM NothingUnservedIsAdvertised == MeshdSpec => []AdvertisedIsServed
  <1>1. MInv => AdvertisedIsServed
    BY DEF MInv, Started, AdvertisedIsServed
  <1> QED
    BY <1>1, MeshdInvariance, PTL

\* LoadIdentity reads three files one after the other while others may write them:
\* the identity it accepts is nevertheless the one on the disk, and stays there.
THEOREM IdentityStaysOnDisk == MeshdSpec => []RunsWithWhatIsThere
  <1>1. MInv => RunsWithWhatIsThere
    <2> SUFFICES ASSUME MInv, ~disturbed, pc \in {"running", "stopAdvert"}
                 PROVE  /\ Loadable
                        /\ \A f \in {"ca.crt", "node.crt", "node.key"} : read[f] = file[f]
      BY DEF RunsWithWhatIsThere
    <2>1. Fresh /\ pc \in Loaded
      BY DEF MInv, Undisturbedly, Loaded
    <2>2. /\ read["ca.crt"] \in Runs /\ read["node.crt"] \in Runs
          /\ read["node.key"] \in Runs /\ IdentityLoads
      BY <2>1 DEF Fresh
    <2>3. \A f \in {"ca.crt", "node.crt", "node.key"} : read[f] = file[f]
      BY <2>1, <2>2 DEF Fresh
    <2> QED
      BY <2>2, <2>3 DEF Loadable, IdentityLoads
  <1> QED
    BY <1>1, MeshdInvariance, PTL

\* The CA of pairing.NewServer is the one behind the node's own certificate, although
\* ReadCA reads ca.crt again after LoadIdentity did.
THEOREM SigningCAIsOwn == MeshdSpec => []SignsWithItsOwnCA
  <1>1. MInv => SignsWithItsOwnCA
    <2> SUFFICES ASSUME MInv, ~disturbed, "pairing" \in up
                 PROVE  CAOf(read["ca.key"]) = CAOf(read["node.crt"])
      BY DEF SignsWithItsOwnCA
    <2>1. Fresh
      BY DEF MInv, Undisturbedly, MTypes
    <2>2. read["ca.key"] = read["ca.crt"] /\ IdentityLoads
      BY <2>1 DEF Fresh
    <2> QED
      BY <2>2 DEF IdentityLoads
  <1> QED
    BY <1>1, MeshdInvariance, PTL
=============================================================================
