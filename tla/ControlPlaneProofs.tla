------------------------- MODULE ControlPlaneProofs -------------------------
(***************************************************************************)
(* Proofs about ControlPlane, for any number of clients and inits and any  *)
(* lifetimes: every identity in use was issued by one of the inits, a call *)
(* that reached the handler passed a handshake, and a code was granted to  *)
(* an administrator only.                                                  *)
(***************************************************************************)
EXTENDS ControlPlane, TLAPS

\* Leaves are for Zenon; one that needs arithmetic, or is too large, names SMT.
USE Zenon

Generations == {Generation(k, t) : k \in Nat, t \in Nat}

MemberID(ca, k, t) ==
    Identity(ca, Sign(ca, Principal(Mesh, "node", MemberName), <<"member", k>>, NodeTTL, t),
             <<"member", k>>)

IDs ==      {g.node : g \in Generations} \cup {g.admin : g \in Generations}
       \cup {MemberID(g.ca, k, t) : g \in Generations, k \in Nat, t \in Nat}

Calls ==
    [pc : {"idle", "dialling", "connected", "answered", "done", "failed"},
     id : IDs \cup {0}, method : {"none", "CreatePairingCode", "Check"},
     ttl : Durations \cup {0}, seconds : Nat, at : Nat, gen : Nat,
     reply : {"none", "Unimplemented", "Unauthenticated", "PermissionDenied", "SERVING",
              "InvalidArgument", "OK"},
     granted : Nat]

\* An identity of the k-th init: its certificate is signed by that init's CA.
Signed(id, k) ==
    id.ca = inits[k].ca /\ id.cert.issuer = <<"ca", k>> /\ id.cert.isCA = FALSE

Known(id) == id \in IDs /\ \E k \in 1 .. Len(inits) : Signed(id, k)

CTypes ==
    /\ now \in Nat
    /\ inits \in Seq(Generations) /\ Len(inits) \in Nat \ {0}
    /\ \A k \in 1 .. Len(inits) : \E t \in Nat : inits[k] = Generation(k, t)
    /\ server \in [up : BOOLEAN, gen : 1 .. Len(inits), coordinator : BOOLEAN]
    /\ \A id \in member : Known(id)
    /\ call \in [Clients -> Calls]

\* The server that c talked to accepted its certificate then.
Admitted(c) ==
    /\ call[c].gen \in 1 .. Len(inits)
    /\ ChainsTo(inits[call[c].gen].ca, call[c].id.cert, call[c].at)
    /\ call[c].id.cert.principal # NoPrincipal

\* What the role guard denies.
Guarded(method, principal) ==
    Service(method) = "lcm.v1.AdminService" /\ principal.role # "admin"

CallAt(c) ==
    /\ call[c].pc # "idle" => Known(call[c].id)
    /\ call[c].pc = "connected" => Admitted(c)
    /\ call[c].pc \in {"idle", "dialling", "connected"} =>
           call[c].granted = 0 /\ call[c].reply = "none"
    /\ call[c].granted # 0 => /\ call[c].pc # "idle" /\ Admitted(c)
                              /\ call[c].id.cert.principal.role = "admin"
    /\ call[c].reply \notin {"none", "Unimplemented"} =>
           (call[c].reply = "PermissionDenied" <=>
               Guarded(call[c].method, call[c].id.cert.principal))
    /\ call[c].reply = "OK" => call[c].granted \in 1 .. MaxCodeTTL

CInv == CTypes /\ \A c \in Clients : CallAt(c)

-----------------------------------------------------------------------------
(***************************************************************************)
(* Credentials.                                                            *)
(***************************************************************************)

LEMMA GenerationFacts ==
    ASSUME NEW k, NEW t
    PROVE  LET g == Generation(k, t)
           IN  /\ g.ca.key = <<"ca", k>> /\ g.ca.isCA = TRUE
               /\ g.node.ca = g.ca /\ g.node.cert.issuer = <<"ca", k>>
               /\ g.node.cert.isCA = FALSE
               /\ g.admin.ca = g.ca /\ g.admin.cert.issuer = <<"ca", k>>
               /\ g.admin.cert.isCA = FALSE
  BY DEF Generation, Identity, Sign, NewCA

LEMMA NodeCA ==
    ASSUME CTypes, NEW n \in 1 .. Len(inits)
    PROVE  inits[n].node.ca = inits[n].ca
  <1>1. PICK t \in Nat : inits[n] = Generation(n, t)
    BY DEF CTypes
  <1>2. Generation(n, t).node.ca = Generation(n, t).ca
    BY GenerationFacts
  <1> QED
    BY <1>1, <1>2

\* An identity is accepted by no other generation than its own.
LEMMA AdmittedByOwn ==
    ASSUME CTypes, NEW id, NEW k \in 1 .. Len(inits), Signed(id, k),
           NEW j \in 1 .. Len(inits), NEW t, ChainsTo(inits[j].ca, id.cert, t)
    PROVE  id.ca = inits[j].ca
  <1>1. inits[j].ca.key = <<"ca", j>> /\ inits[j].ca.isCA = TRUE
    <2>1. PICK t0 \in Nat : inits[j] = Generation(j, t0)
      BY DEF CTypes
    <2> QED
      BY <2>1, GenerationFacts
  <1>2. id.cert # inits[j].ca
    BY <1>1 DEF Signed
  <1>3. <<"ca", k>> = <<"ca", j>>
    BY <1>1, <1>2 DEF ChainsTo, Signed
  <1> QED
    BY <1>3 DEF Signed

\* What is in the directory, and what the running coordinator issues.
LEMMA DirKnown ==
    ASSUME CTypes
    PROVE  Known(Dir.node) /\ Known(Dir.admin)
  <1>1. Len(inits) \in 1 .. Len(inits) /\ Dir \in Generations
    BY SMTT(30) DEF CTypes, Dir
  <1>2. PICK t \in Nat : Dir = Generation(Len(inits), t)
    BY <1>1 DEF CTypes, Dir
  <1>3. Signed(Dir.node, Len(inits)) /\ Signed(Dir.admin, Len(inits))
    <2>1. /\ Dir.node.ca = Dir.ca /\ Dir.node.cert.issuer = <<"ca", Len(inits)>>
          /\ Dir.node.cert.isCA = FALSE
          /\ Dir.admin.ca = Dir.ca /\ Dir.admin.cert.issuer = <<"ca", Len(inits)>>
          /\ Dir.admin.cert.isCA = FALSE
      BY <1>2, GenerationFacts
    <2>2. Dir = inits[Len(inits)]
      BY DEF Dir
    <2> QED
      BY <2>1, <2>2 DEF Signed
  <1>4. Dir.node \in IDs /\ Dir.admin \in IDs
    BY SMTT(30), <1>1 DEF IDs
  <1> QED
    BY <1>1, <1>3, <1>4 DEF Known

LEMMA SecondsSent ==
    ASSUME NEW ttl \in Durations, NEW s \in ToUint32(Seconds(ttl))
    PROVE  s \in Nat
  <1>1. ttl \in Int /\ Width \in Nat \ {0}
    BY ControlPlaneAssumption
  <1>2. Seconds(ttl) \in Int
    BY SMTT(30), <1>1 DEF Seconds
  <1>3. \A x \in Int : x % Width \in Nat
    BY SMTT(30), <1>1
  <1> QED
    BY SMTT(30), <1>1, <1>2, <1>3 DEF ToUint32

LEMMA GrantBounds ==
    ASSUME NEW s \in Nat
    PROVE  Grant(s) \in Nat /\ (Grant(s) # 0 => Grant(s) \in 1 .. MaxCodeTTL)
  BY SMTT(30), ControlPlaneAssumption DEF Grant

-----------------------------------------------------------------------------
(***************************************************************************)
(* The steps.                                                              *)
(***************************************************************************)

\* Inits only add to what there is.
Grows == /\ Len(inits') \in Nat /\ Len(inits) <= Len(inits')
         /\ \A k \in 1 .. Len(inits) : inits'[k] = inits[k]

LEMMA KnownStays ==
    ASSUME CTypes, Grows, NEW id, Known(id)
    PROVE  Known(id)'
  <1>1. PICK k \in 1 .. Len(inits) : Signed(id, k)
    BY DEF Known
  <1>2. k \in 1 .. Len(inits') /\ inits'[k] = inits[k]
    BY SMTT(30), <1>1 DEF Grows, CTypes
  <1>3. Signed(id, k)'
    BY <1>1, <1>2 DEF Signed
  <1> QED
    BY <1>2, <1>3 DEF Known

\* A call that a step does not touch keeps what holds of it.
LEMMA CallStays ==
    ASSUME CTypes, Grows, NEW c \in Clients, CallAt(c), call'[c] = call[c]
    PROVE  CallAt(c)'
  <1>1. PICK id, g, t : id = call[c].id /\ g = call[c].gen /\ t = call[c].at
    OBVIOUS
  <1>2. Known(id) => Known(id)'
    BY KnownStays
  <1>3. Known(call[c].id) => Known(call[c].id)'
    BY <1>1, <1>2 DEF Known, Signed
  <1>4. Admitted(c) => Admitted(c)'
    <2>1. g \in 1 .. Len(inits) => g \in 1 .. Len(inits') /\ inits'[g] = inits[g]
      BY SMTT(30) DEF Grows, CTypes
    <2> QED
      BY <1>1, <2>1 DEF Admitted, ChainsTo, ValidAt
  <1> QED
    BY <1>3, <1>4 DEF CallAt

LEMMA ReinitKeeps ==
    ASSUME CInv, Reinit
    PROVE  CInv'
  <1>1. PICK n : n = Len(inits)
    OBVIOUS
  <1>2. /\ CTypes /\ now \in Nat /\ n \in Nat \ {0} /\ n = Len(inits)
        /\ inits \in Seq(Generations)
        /\ inits' = Append(inits, Generation(n + 1, now))
        /\ UNCHANGED <<now, member, server, call>>
    BY <1>1 DEF CInv, CTypes, Reinit
  <1>3. Generation(n + 1, now) \in Generations
    BY SMTT(30), <1>2 DEF Generations
  <1> DEFINE new == Generation(n + 1, now)
  <1> HIDE DEF new
  <1>4. /\ inits' \in Seq(Generations) /\ Len(inits') = n + 1 /\ inits'[n + 1] = new
        /\ \A k \in 1 .. n : inits'[k] = inits[k]
    BY SMTT(30), <1>2, <1>3 DEF new
  <1>5. Grows
    BY SMTT(30), <1>2, <1>4 DEF Grows
  <1>6. \A k \in 1 .. Len(inits') : \E t \in Nat : inits'[k] = Generation(k, t)
    <2>1. ASSUME NEW k \in 1 .. (n + 1)
          PROVE  \E t \in Nat : inits'[k] = Generation(k, t)
      <3>1. CASE k = n + 1
        BY <1>2, <1>4, <3>1 DEF new
      <3>2. CASE k # n + 1
        BY SMTT(30), <1>2, <1>4, <3>2 DEF CTypes
      <3> QED
        BY <3>1, <3>2
    <2> QED
      BY <1>4, <2>1
  <1>7. \A id \in member' : Known(id)'
    BY <1>2, <1>5, KnownStays DEF CTypes
  <1>8. server' \in [up : BOOLEAN, gen : 1 .. Len(inits'), coordinator : BOOLEAN]
    BY SMTT(30), <1>2, <1>4 DEF CTypes
  <1>9. CTypes'
    BY SMTT(30), <1>2, <1>4, <1>6, <1>7, <1>8 DEF CTypes
  <1>10. \A c \in Clients : CallAt(c)'
    BY <1>2, <1>5, CallStays DEF CInv
  <1> QED
    BY <1>9, <1>10 DEF CInv

\* The steps of the surroundings that leave the directory alone.
LEMMA OutsideKeeps ==
    ASSUME CInv, Enrol \/ Tick \/ \E coordinator \in BOOLEAN : Start(coordinator)
    PROVE  CInv'
  <1>1. CTypes /\ UNCHANGED <<inits, call>>
    BY DEF CInv, Enrol, Tick, Start
  <1>2. Grows
    BY SMTT(30), <1>1 DEF Grows, CTypes
  <1>3. \A c \in Clients : CallAt(c)'
    BY <1>1, <1>2, CallStays DEF CInv
  <1>4. \A id \in member : Known(id)'
    BY <1>1, <1>2, KnownStays DEF CTypes
  <1>5. CASE Enrol
    <2>1. PICK k : k = server.gen
      OBVIOUS
    <2>2. k \in 1 .. Len(inits) /\ inits[k] \in Generations
      BY SMTT(30), <1>1, <2>1 DEF CTypes
    <2>3. PICK t \in Nat : inits[k] = Generation(k, t)
      BY <1>1, <2>2 DEF CTypes
    <2>4. /\ member' = {MemberID(inits[k].ca, k, now)} /\ UNCHANGED <<now, server>>
          /\ now \in Nat
      BY <1>1, <1>5, <2>1 DEF Enrol, MemberID, CTypes
    <2>5. PICK id : id = MemberID(inits[k].ca, k, now)
      OBVIOUS
    <2>6. id \in IDs
      <3>1. k \in Nat
        BY SMTT(30), <1>1, <2>2 DEF CTypes
      <3> QED
        BY SMTT(30), <2>2, <2>4, <2>5, <3>1 DEF IDs
    <2>7. inits[k].ca.key = <<"ca", k>>
      BY <2>3, GenerationFacts
    <2>8. id.ca = inits[k].ca /\ id.cert.issuer = <<"ca", k>> /\ id.cert.isCA = FALSE
      BY <2>5, <2>7 DEF MemberID, Identity, Sign
    <2>9. Known(id)'
      BY <1>1, <2>2, <2>6, <2>8 DEF Known, Signed
    <2>10. \A i \in member' : Known(i)'
      BY <2>4, <2>5, <2>9
    <2>11. CTypes'
      BY <1>1, <2>4, <2>10 DEF CTypes
    <2> QED
      BY <1>3, <2>11 DEF CInv
  <1>6. CASE Tick
    <2>1. now' \in Nat /\ UNCHANGED <<member, server>>
      BY SMTT(30), <1>1, <1>6 DEF Tick, CTypes
    <2>2. CTypes'
      BY <1>1, <1>4, <2>1 DEF CTypes
    <2> QED
      BY <1>3, <2>2 DEF CInv
  <1>7. ASSUME NEW coordinator \in BOOLEAN, Start(coordinator)
        PROVE  CInv'
    <2>1. /\ server' = [up |-> TRUE, gen |-> Len(inits), coordinator |-> coordinator]
          /\ UNCHANGED <<now, member>>
      BY <1>7 DEF Start
    <2>2. server' \in [up : BOOLEAN, gen : 1 .. Len(inits), coordinator : BOOLEAN]
      BY SMTT(30), <1>1, <2>1 DEF CTypes
    <2>3. CTypes'
      BY <1>1, <1>4, <2>1, <2>2 DEF CTypes
    <2> QED
      BY <1>3, <2>3 DEF CInv
  <1> QED
    BY <1>5, <1>6, <1>7

LEMMA StopKeeps ==
    ASSUME CInv, Stop
    PROVE  CInv'
  <1>1. /\ CTypes /\ UNCHANGED <<now, inits, member>> /\ server' = Down
        /\ call \in [Clients -> Calls]
    BY DEF CInv, CTypes, Stop
  <1>2. Grows
    BY SMTT(30), <1>1 DEF Grows, CTypes
  <1>3. ASSUME NEW c \in Clients
        PROVE  call'[c] \in Calls /\ CallAt(c)'
    <2>1. CallAt(c) /\ call[c] \in Calls
      BY <1>1, <1>3 DEF CInv
    <2>2. CASE call[c].pc = "connected"
      <3>1. call'[c] = [call[c] EXCEPT !.pc = "dialling"]
        BY <1>3, <2>2 DEF Stop
      <3>2. /\ call'[c].pc = "dialling" /\ call'[c].id = call[c].id /\ call'[c] \in Calls
            /\ call'[c].granted = call[c].granted /\ call'[c].reply = call[c].reply
        BY <2>1, <3>1 DEF Calls
      <3>3. PICK id : id = call[c].id
        OBVIOUS
      <3>4. Known(id)'
        BY <1>1, <1>2, <2>1, <2>2, <3>3, KnownStays DEF CallAt
      <3>5. Known(call[c].id)'
        BY <3>2, <3>3, <3>4 DEF Known, Signed
      <3> QED
        BY <2>1, <2>2, <3>2, <3>5 DEF CallAt
    <2>3. CASE call[c].pc # "connected"
      <3>1. call'[c] = call[c]
        BY <1>3, <2>3 DEF Stop
      <3> QED
        BY <1>1, <1>2, <2>1, <3>1, CallStays
    <2> QED
      BY <2>2, <2>3
  <1>4. call' \in [Clients -> Calls]
    BY <1>3 DEF Stop
  <1>5. server' \in [up : BOOLEAN, gen : 1 .. Len(inits), coordinator : BOOLEAN]
    BY SMTT(30), <1>1 DEF Down, CTypes
  <1>6. \A id \in member' : Known(id)'
    BY <1>1, <1>2, KnownStays DEF CTypes
  <1>7. CTypes'
    BY <1>1, <1>4, <1>5, <1>6 DEF CTypes
  <1> QED
    BY <1>3, <1>7 DEF CInv

\* A step of one client: it is enough to look at its call.
LEMMA ClientStep ==
    ASSUME CInv, NEW c \in Clients, NEW r \in Calls, call' = [call EXCEPT ![c] = r],
           UNCHANGED <<now, inits, member, server>>, CallAt(c)'
    PROVE  CInv'
  <1>1. CTypes /\ call \in [Clients -> Calls]
    BY DEF CInv, CTypes
  <1>2. Grows
    BY SMTT(30), <1>1 DEF Grows, CTypes
  <1>3. ASSUME NEW d \in Clients
        PROVE  CallAt(d)'
    <2>1. CASE d = c
      BY <2>1
    <2>2. CASE d # c
      BY <1>1, <1>2, <1>3, <2>2, CallStays DEF CInv
    <2> QED
      BY <2>1, <2>2
  <1>4. call' \in [Clients -> Calls]
    BY <1>1
  <1>5. \A id \in member' : Known(id)'
    BY <1>1, <1>2, KnownStays DEF CTypes
  <1>6. CTypes'
    BY <1>1, <1>4, <1>5 DEF CTypes
  <1> QED
    BY <1>3, <1>6 DEF CInv

\* A client begins a call with an identity that it has loaded.
LEMMA DialKeeps ==
    ASSUME CInv, NEW c \in Clients, NEW id, Known(id), NEW s \in Nat,
           NEW method \in {"CreatePairingCode", "Check"}, NEW ttl \in Durations \cup {0},
           call' = [call EXCEPT ![c] = [Dial(id, method, s) EXCEPT !.ttl = ttl]],
           UNCHANGED <<now, inits, member, server>>
    PROVE  CInv'
  <1>1. PICK r : r = [Dial(id, method, s) EXCEPT !.ttl = ttl]
    OBVIOUS
  <1>2. r = [pc |-> "dialling", id |-> id, method |-> method, ttl |-> ttl, seconds |-> s,
             at |-> 0, gen |-> 0, reply |-> "none", granted |-> 0]
    BY <1>1 DEF Dial, NoCall
  <1>3. r \in Calls
    BY <1>2 DEF Calls, Known
  <1>4. call'[c] = r
    BY <1>1 DEF CInv, CTypes
  <1>5. Known(call[c].id)'
    BY SMTT(30), <1>2, <1>4 DEF Known, Signed
  <1>6. CallAt(c)'
    BY SMTT(30), <1>2, <1>4, <1>5 DEF CallAt
  <1> QED
    BY <1>1, <1>3, <1>6, ClientStep

LEMMA BeginKeeps ==
    ASSUME CInv, NEW c \in Clients,
           \/ \E ttl \in Durations : Pair(c, ttl)
           \/ \E id \in member \cup {Dir.node}, method \in {"CreatePairingCode", "Check"} :
                 Call(c, id, method)
    PROVE  CInv'
  <1>1. CTypes /\ Known(Dir.node) /\ Known(Dir.admin)
    BY DirKnown DEF CInv
  <1>2. ASSUME NEW ttl \in Durations, Pair(c, ttl)
        PROVE  CInv'
    <2>0. PICK id : id = Dir.admin
      OBVIOUS
    <2>1. PICK s \in ToUint32(Seconds(ttl)) :
              call' = [call EXCEPT ![c] =
                          [Dial(id, "CreatePairingCode", s) EXCEPT !.ttl = ttl]]
      BY <1>2, <2>0 DEF Pair
    <2>2. s \in Nat /\ Known(id)
      BY <1>1, <2>0, <2>1, SecondsSent
    <2>3. UNCHANGED <<now, inits, member, server>>
      BY <1>2 DEF Pair
    <2> QED
      BY <2>1, <2>2, <2>3, DialKeeps
  <1>3. ASSUME NEW id \in member \cup {Dir.node},
               NEW method \in {"CreatePairingCode", "Check"}, Call(c, id, method)
        PROVE  CInv'
    <2>1. PICK i : i = id
      OBVIOUS
    <2>2. Known(i)
      BY <1>1, <1>3, <2>1 DEF CTypes
    <2>3. /\ call' = [call EXCEPT ![c] = Dial(i, method, 0)]
          /\ UNCHANGED <<now, inits, member, server>>
      BY <1>3, <2>1 DEF Call
    <2>4. Dial(i, method, 0) = [Dial(i, method, 0) EXCEPT !.ttl = 0]
      <3> DEFINE r == [pc |-> "dialling", id |-> i, method |-> method, ttl |-> 0,
                       seconds |-> 0, at |-> 0, gen |-> 0, reply |-> "none", granted |-> 0]
      <3>1. PICK d : d = Dial(i, method, 0)
        OBVIOUS
      <3>2. d = r
        BY <3>1 DEF Dial, NoCall
      <3>3. [r EXCEPT !.ttl = 0] = r
        BY SMTT(30)
      <3> QED
        BY <3>1, <3>2, <3>3
    <2> QED
      BY <2>2, <2>3, <2>4, DialKeeps
  <1> QED
    BY <1>2, <1>3

LEMMA HandshakeKeeps ==
    ASSUME CInv, NEW c \in Clients, Handshake(c)
    PROVE  CInv'
  <1>1. /\ CTypes /\ CallAt(c) /\ call \in [Clients -> Calls] /\ call[c] \in Calls
        /\ call[c].pc = "dialling" /\ UNCHANGED <<now, inits, member, server>>
        /\ now \in Nat
    BY DEF CInv, CTypes, Handshake
  <1> DEFINE k   == server.gen
             own == inits[k].node
             ok  == /\ ClientAccepts(call[c].id, NodeName, own.cert, now)
                    /\ ServerAccepts(own, call[c].id.cert, now)
             pc  == IF ok THEN "connected" ELSE "failed"
  <1>2. /\ call' = [call EXCEPT ![c].pc = pc, ![c].at = now, ![c].gen = k]
        /\ pc \in {"connected", "failed"}
        /\ pc = "connected" => ServerAccepts(own, call[c].id.cert, now)
    BY DEF Handshake
  <1>3. k \in 1 .. Len(inits) /\ k \in Nat
    BY SMTT(30), <1>1 DEF CTypes
  <1>4. own.ca = inits[k].ca
    BY <1>1, <1>3, NodeCA
  <1> HIDE DEF k, own, ok, pc
  <1>5. PICK r : r = [call[c] EXCEPT !.pc = pc, !.at = now, !.gen = k]
    OBVIOUS
  <1>6. /\ r.pc = pc /\ r.at = now /\ r.gen = k /\ r.id = call[c].id
        /\ r.granted = call[c].granted /\ r.reply = call[c].reply /\ r \in Calls
    BY <1>1, <1>2, <1>3, <1>5 DEF Calls
  <1>7. call' = [call EXCEPT ![c] = r]
    BY <1>1, <1>2, <1>5
  <1>8. call'[c] = r
    BY <1>1, <1>7
  <1>9. Known(call[c].id)'
    BY <1>1, <1>6, <1>8 DEF CallAt, Known, Signed
  <1>10. pc = "connected" => Admitted(c)'
    BY SMTT(30), <1>1, <1>2, <1>3, <1>4, <1>6, <1>8 DEF Admitted, ServerAccepts, verifyPeer, ChainsTo, ValidAt
  <1>11. r.granted = 0 /\ r.reply = "none"
    BY <1>1, <1>6 DEF CallAt
  <1>12. CallAt(c)'
    BY <1>2, <1>6, <1>8, <1>9, <1>10, <1>11 DEF CallAt
  <1> QED
    BY <1>1, <1>6, <1>7, <1>12, ClientStep

\* The prefix is that of the admin service's methods, and of no other service's.
LEMMA PrefixSelects ==
    ASSUME NEW method
    PROVE  IsPrefix(AdminServicePrefix, FullMethod(method)) <=>
               Service(method) = "lcm.v1.AdminService"
  <1>1. PICK svc, own : svc = Service(method) /\ own = "lcm.v1.AdminService"
    OBVIOUS
  <1>2. PICK S : S = {"/", own, svc, method}
    OBVIOUS
  <1>3. PICK p, m : p = AdminServicePrefix /\ m = FullMethod(method)
    OBVIOUS
  <1>4. p = <<"/", own, "/">> /\ m = <<"/", svc, "/", method>>
    BY <1>1, <1>3 DEF AdminServicePrefix, FullMethod
  <1>5. p \in Seq(S) /\ Len(p) = 3 /\ p[1] = "/" /\ p[2] = own /\ p[3] = "/"
    BY SMTT(30), <1>2, <1>4
  <1>6. m \in Seq(S) /\ Len(m) = 4 /\ m[1] = "/" /\ m[2] = svc /\ m[3] = "/"
    BY SMTT(30), <1>2, <1>4
  <1>7. SubSeq(p, 1, 3) = SubSeq(m, 1, 3) <=> own = svc
    BY SMTT(30), <1>5, <1>6
  <1>8. IsPrefix(p, m) <=> own = svc
    BY SMTT(30), <1>5, <1>6, <1>7 DEF IsPrefix
  <1> QED
    BY <1>1, <1>3, <1>8

\* What the guard of a coordinator answers to a caller that has a principal.
LEMMA GuardAnswers ==
    ASSUME server.coordinator = TRUE, NEW p, p # NoPrincipal, NEW method
    PROVE  AdminInterceptors(p, method) =
               IF Guarded(method, p) THEN "PermissionDenied" ELSE "none"
  BY PrefixSelects DEF AdminInterceptors, RequireRole, Guarded

LEMMA ServeKeeps ==
    ASSUME CInv, NEW c \in Clients, Serve(c)
    PROVE  CInv'
  <1>1. /\ CTypes /\ CallAt(c) /\ call \in [Clients -> Calls] /\ call[c] \in Calls
        /\ call[c].pc = "connected" /\ call[c].seconds \in Nat
        /\ server.coordinator \in BOOLEAN
    BY DEF CInv, CTypes, Serve, Calls
  <1>2. UNCHANGED <<now, inits, member, server>>
    BY DEF Serve, Answer
  <1>3. PICK p, method : /\ p = call[c].id.cert.principal /\ method = call[c].method
                         /\ p # NoPrincipal
    BY <1>1 DEF CallAt, Admitted
  <1> DEFINE Fits(reply, granted) ==
                 /\ granted # 0 => p.role = "admin"
                 /\ reply # "Unimplemented" =>
                       (reply = "PermissionDenied" <=> Guarded(method, p))
                 /\ reply = "OK" => granted \in 1 .. MaxCodeTTL
  <1>4. PICK reply \in {"Unimplemented", "PermissionDenied", "SERVING", "InvalidArgument",
                        "OK"},
             granted \in Nat : Answer(c, reply, granted) /\ Fits(reply, granted)
    <2>1. CASE Answer(c, "Unimplemented", 0)
      BY <2>1
    <2>2. CASE /\ Registered(method) /\ AdminInterceptors(p, method) # "none"
               /\ Answer(c, AdminInterceptors(p, method), 0)
      <3>1. server.coordinator = TRUE
        BY <1>1, <2>2 DEF AdminInterceptors
      <3>2. AdminInterceptors(p, method) = "PermissionDenied" /\ Guarded(method, p)
        BY <1>3, <2>2, <3>1, GuardAnswers
      <3> QED
        BY <2>2, <3>2
    <2>3. CASE method = "Check" /\ Answer(c, "SERVING", 0)
      <3>1. ~Guarded(method, p)
        BY <2>3 DEF Guarded, Service
      <3> QED
        BY <2>3, <3>1
    <2>4. CASE /\ Registered(method) /\ method = "CreatePairingCode"
               /\ AdminInterceptors(p, method) = "none"
               /\ Answer(c, IF Grant(call[c].seconds) = 0 THEN "InvalidArgument" ELSE "OK",
                         Grant(call[c].seconds))
      <3>1. PICK s : s = call[c].seconds
        OBVIOUS
      <3>2. Grant(s) \in Nat /\ (Grant(s) # 0 => Grant(s) \in 1 .. MaxCodeTTL)
        BY <1>1, <3>1, GrantBounds
      <3>3. Service(method) = "lcm.v1.AdminService" /\ server.coordinator = TRUE
        BY <1>1, <2>4 DEF Registered, Service
      <3>4. ~Guarded(method, p) /\ p.role = "admin"
        BY <1>3, <2>4, <3>3, GuardAnswers DEF Guarded
      <3>5. CASE Grant(s) = 0
        BY <2>4, <3>1, <3>2, <3>4, <3>5
      <3>6. CASE Grant(s) # 0
        BY <2>4, <3>1, <3>2, <3>4, <3>6
      <3> QED
        BY <3>5, <3>6
    <2> QED
      BY <1>3, <2>1, <2>2, <2>3, <2>4 DEF Serve
  <1>5. PICK r : r = [call[c] EXCEPT !.pc = "answered", !.reply = reply, !.granted = granted]
    OBVIOUS
  <1>6. /\ r.pc = "answered" /\ r.reply = reply /\ r.granted = granted /\ r \in Calls
        /\ r.id = call[c].id /\ r.method = call[c].method /\ r.at = call[c].at
        /\ r.gen = call[c].gen
    BY <1>1, <1>4, <1>5 DEF Calls
  <1>7. call' = [call EXCEPT ![c] = r]
    BY <1>1, <1>4, <1>5 DEF Answer
  <1>8. call'[c] = r
    BY <1>1, <1>7
  <1>9. Known(call[c].id)' /\ Admitted(c)'
    BY ZenonT(30), <1>1, <1>2, <1>6, <1>8
    DEF CallAt, Known, Signed, Admitted, ChainsTo, ValidAt
  <1>10. CallAt(c)'
    BY <1>1, <1>3, <1>4, <1>6, <1>8, <1>9 DEF CallAt
  <1> QED
    BY <1>2, <1>6, <1>7, <1>10, ClientStep

LEMMA EndKeeps ==
    ASSUME CInv, NEW c \in Clients, Return(c) \/ GiveUp(c)
    PROVE  CInv'
  <1>1. /\ CTypes /\ CallAt(c) /\ call \in [Clients -> Calls] /\ call[c] \in Calls
        /\ call[c].pc # "idle" /\ UNCHANGED <<now, inits, member, server>>
    BY DEF CInv, CTypes, Return, GiveUp
  <1>2. PICK pc \in {"done", "failed"} : call' = [call EXCEPT ![c].pc = pc]
    BY DEF Return, GiveUp
  <1>3. PICK r : r = [call[c] EXCEPT !.pc = pc]
    OBVIOUS
  <1>4. /\ r.pc = pc /\ r \in Calls /\ r.reply = call[c].reply /\ r.granted = call[c].granted
        /\ r.id = call[c].id /\ r.method = call[c].method /\ r.at = call[c].at
        /\ r.gen = call[c].gen
    BY <1>1, <1>2, <1>3 DEF Calls
  <1>5. call' = [call EXCEPT ![c] = r]
    BY <1>1, <1>2, <1>3
  <1>6. call'[c] = r
    BY <1>1, <1>5
  <1>7. Known(call[c].id)'
    BY <1>1, <1>4, <1>6 DEF CallAt, Known, Signed
  <1>8. Admitted(c) => Admitted(c)'
    BY <1>1, <1>4, <1>6 DEF Admitted, ChainsTo, ValidAt
  <1>9. CallAt(c)'
    BY SMTT(30), <1>1, <1>2, <1>4, <1>6, <1>7, <1>8 DEF CallAt
  <1> QED
    BY <1>1, <1>4, <1>5, <1>9, ClientStep

-----------------------------------------------------------------------------
(***************************************************************************)
(* The theorems.                                                           *)
(***************************************************************************)

\* The inductive invariant: identities come from the inits, and what was granted or
\* denied was decided after a handshake, by role and method.
THEOREM ControlPlaneInvariance == Spec => []CInv
  <1>1. Init => CInv
    <2> SUFFICES ASSUME Init PROVE CInv
      OBVIOUS
    <2>1. PICK g : g = Generation(1, 0)
      OBVIOUS
    <2>2. g \in Generations
      BY SMTT(30), <2>1 DEF Generations
    <2>3. inits = <<g>>
      BY <2>1 DEF Init
    <2>4. inits \in Seq(Generations) /\ Len(inits) = 1 /\ inits[1] = g
      BY SMTT(30), <2>2, <2>3
    <2>5. \A k \in 1 .. Len(inits) : \E t \in Nat : inits[k] = Generation(k, t)
      BY SMTT(30), <2>1, <2>4
    <2>6. NoCall \in Calls
      BY DEF NoCall, Calls
    <2>7. /\ now \in Nat /\ member = {} /\ call \in [Clients -> Calls]
          /\ server \in [up : BOOLEAN, gen : 1 .. Len(inits), coordinator : BOOLEAN]
      BY SMTT(30), <2>4, <2>6 DEF Init, Down
    <2>8. CTypes
      BY SMTT(30), <2>4, <2>5, <2>7 DEF CTypes
    <2>9. \A c \in Clients : CallAt(c)
      BY DEF Init, NoCall, CallAt
    <2> QED
      BY <2>8, <2>9 DEF CInv
  <1>2. CInv /\ [Next]_vars => CInv'
    <2> SUFFICES ASSUME CInv, [Next]_vars PROVE CInv'
      BY SMTT(30)
    <2>1. CASE UNCHANGED vars
      BY ZenonT(30), <2>1 DEF vars, CInv, CTypes, CallAt, Admitted, Known, Signed
    <2> QED
      BY <2>1, ReinitKeeps, OutsideKeeps, StopKeeps, BeginKeeps, HandshakeKeeps,
         ServeKeeps, EndKeeps DEF Next
  <1> QED
    BY <1>1, <1>2, PTL DEF Spec

\* Codes are minted for administrators of the coordinator's own init only, with a
\* certificate that was valid at the handshake.
THEOREM MintingIsGuarded == Spec => []MintedForOwnAdmin
  <1>1. CInv => MintedForOwnAdmin
    <2> SUFFICES ASSUME CInv, NEW c \in Clients, call[c].granted # 0
                 PROVE  /\ call[c].id.cert.principal.role = "admin"
                        /\ call[c].id.ca = inits[call[c].gen].ca
                        /\ ValidAt(call[c].id.cert, call[c].at)
      BY DEF MintedForOwnAdmin
    <2>1. CTypes /\ Admitted(c) /\ Known(call[c].id) /\ call[c].id.cert.principal.role = "admin"
      BY DEF CInv, CallAt
    <2>2. PICK k \in 1 .. Len(inits) : Signed(call[c].id, k)
      BY <2>1 DEF Known
    <2> QED
      BY <2>1, <2>2, AdmittedByOwn DEF Admitted, ChainsTo
  <1> QED
    BY <1>1, ControlPlaneInvariance, PTL

\* Of the calls to registered services the role guard denies those to the admin service
\* by callers that are not administrators, and no other.
THEOREM GuardIsTight == Spec => []GuardIsExact
  <1>1. CInv => GuardIsExact
    BY DEF CInv, CallAt, Guarded, GuardIsExact
  <1> QED
    BY <1>1, ControlPlaneInvariance, PTL

\* Whatever duration a client asks for and however it is cut to a uint32, a code
\* that is granted lives between one second and the maximum.
THEOREM GrantsAreBounded == Spec => []GrantedWithinBounds
  <1>1. CInv => GrantedWithinBounds
    BY DEF CInv, CallAt, GrantedWithinBounds
  <1> QED
    BY <1>1, ControlPlaneInvariance, PTL
=============================================================================
