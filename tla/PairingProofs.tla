--------------------------- MODULE PairingProofs ---------------------------
(***************************************************************************)
(* Proofs about Pairing, for any number of joiners, codes and generations. *)
(*                                                                         *)
(* The coordinator's steps are steps of the Pairer, so what PairerProofs   *)
(* shows of it holds in the protocol.  The rest follows the one exchange   *)
(* that a joiner has: where its request, the goroutine that serves it and  *)
(* the answer can be at the same time (Flow), and that they speak of the   *)
(* code and of the certificate that the joiner has in mind (Honest).       *)
(***************************************************************************)
EXTENDS Pairing, PairerProofs

\* Leaves are for Zenon; one that needs arithmetic, or is too large, names SMT.
USE Zenon

-----------------------------------------------------------------------------
(***************************************************************************)
(* Certificates (PKI), for every lifetime, name and instant.               *)
(***************************************************************************)

\* What Sign issues under a CA verifies against it, as the principal that was asked
\* for, exactly while leaf and CA are both in their lifetimes (Sign, VerifyAgainst):
\* a leaf may outlive its CA on paper, never in effect.
THEOREM IssuedVerifies ==
    ASSUME NEW mesh, NEW k, NEW t0 \in Int, NEW p, NEW key, NEW ttl \in Int,
           NEW t \in Int, NEW now \in Int, p # NoPrincipal,
           SignError(NewCA(mesh, k, t0), p, ttl) = "none"
    PROVE  LET ca   == NewCA(mesh, k, t0)
               leaf == Sign(ca, p, key, ttl, t)
           IN  /\ leaf.principal = p
               /\ VerifyError(ca, leaf, now) = "none"
                    <=> /\ t - Backdate <= now /\ now <= t + ttl
                        /\ t0 - Backdate <= now /\ now <= t0 + CACertTTL
  <1>1. p.mesh = mesh
    BY DEF SignError, NewCA
  <1> QED
    BY <1>1, PKIAssumption DEF VerifyError, ChainsTo, ValidAt, Sign, NewCA

\* The certificate of an administrator is no server's: no client accepts it under
\* any name, as Sign gives it no DNS name (ClientTLS sets ServerName).
THEOREM AdminsNeverServe ==
    ASSUME NEW id, NEW name, NEW ca, NEW p, NEW key, NEW ttl, NEW t, NEW now,
           p.role # "node"
    PROVE  ~ClientAccepts(id, name, Sign(ca, p, key, ttl, t), now)
  BY DEF ClientAccepts, Sign

\* What chains to a CA that NewCA made was signed with its key: another CA of the
\* same mesh name does not do (x509 Verify under VerifyAgainst, ServerTLS, ClientTLS).
THEOREM ChainNamesIssuer ==
    ASSUME NEW mesh, NEW k, NEW t0, NEW ca, NEW p, NEW key, NEW ttl, NEW t, NEW now,
           ChainsTo(NewCA(mesh, k, t0), Sign(ca, p, key, ttl, t), now)
    PROVE  ca.key = k
  <1>1. Sign(ca, p, key, ttl, t) # NewCA(mesh, k, t0)
    <2>1. Sign(ca, p, key, ttl, t).isCA = FALSE /\ NewCA(mesh, k, t0).isCA = TRUE
      BY DEF Sign, NewCA
    <2> QED BY <2>1
  <1>2. Sign(ca, p, key, ttl, t).issuer = ca.key /\ NewCA(mesh, k, t0).key = k
    BY DEF Sign, NewCA
  <1> QED BY <1>1, <1>2 DEF ChainsTo

-----------------------------------------------------------------------------
(***************************************************************************)
(* The protocol.                                                           *)
(***************************************************************************)

JoinErrors ==
    {"none", "ErrRPC", "ErrInput", "ErrServerCertChanged", "ErrBadMAC", "ErrVerify",
     "ErrNoMeshURI", "ErrMeshMismatch", "ErrWrongNode", "ErrKeyMismatch",
     "ErrNotCoordinator", "ErrBadAddr", "ErrBadCoordinatorAddr"}

JoinerStates ==
    [pc : {"new", "begin", "complete", "joined", "failed"},
     code : Codes \cup {NoCode}, seen : Generations, from : Incarnations,
     addr : Addrs \cup {<<>>}, err : JoinErrors]

JTypes ==
    /\ inc \in Incarnations
    /\ joiner \in [Joiners -> JoinerStates]
    /\ DOMAIN req = Joiners
    /\ DOMAIN wire = Joiners
    /\ \A j \in Joiners :
          /\ req[j].kind = "complete" => req[j].code \in Codes \cup {NoCode}
          /\ wire[j].kind = "session" => wire[j].ident \in Generations
          /\ wire[j].kind = "bundle" => [ident |-> wire[j].ident, signs |-> wire[j].signs]
                                           \in Incarnations

InService(j) == call[j].pc \in {"deriving", "signing"}

FlowAt(j) ==
    /\ req[j].kind = "begin" => joiner[j].pc \in {"begin", "failed"}
    /\ req[j].kind = "complete" =>
           joiner[j].pc \in {"complete", "failed"} /\ wire[j].kind # "bundle"
                                                   /\ ~InService(j)
    /\ InService(j) =>
           joiner[j].pc \in {"complete", "failed"} /\ wire[j].kind # "bundle"
    /\ wire[j].kind = "bundle" => joiner[j].pc = "complete"

Flow == \A j \in Joiners : FlowAt(j)

HonestAt(j) ==
    /\ (joiner[j].pc = "complete" /\ req[j].kind = "complete") =>
           req[j].code = joiner[j].code /\ req[j].seen = joiner[j].seen
    /\ (joiner[j].pc = "complete" /\ call[j].pc = "deriving" /\ call[j].matched # NoCode) =>
           call[j].matched = joiner[j].code /\ inc.ident = joiner[j].seen
    /\ (joiner[j].pc = "complete" /\ call[j].pc = "signing") =>
           call[j].code = joiner[j].code /\ inc.ident = joiner[j].seen
    /\ wire[j].kind = "bundle" =>
           wire[j].code = joiner[j].code /\ wire[j].ident = joiner[j].seen
    /\ joiner[j].pc = "joined" => joiner[j].from.ident = joiner[j].from.signs
    /\ joiner[j].err \notin {"none", "ErrRPC", "ErrInput"} =>
           \/ joiner[j].from.ident # joiner[j].from.signs
           \/ ~SplitsHostPort(joiner[j].addr)
    /\ joiner[j].pc \in {"new", "begin", "complete"} => joiner[j].err = "none"

Honest == \A j \in Joiners : HonestAt(j)

PInv == IInv /\ JTypes /\ Flow /\ Honest

-----------------------------------------------------------------------------
(***************************************************************************)
(* Certificates and checks.                                                *)
(***************************************************************************)

\* The coordinator's certificate tells its generation.
LEMMA CoordinatorCert ==
    ASSUME NEW g, NEW h, CoordinatorID(g).cert = CoordinatorID(h).cert
    PROVE  g = h
  <1>1. CoordinatorID(g).cert.key = <<"coordinator", g>>
    BY DEF CoordinatorID, Identity, Sign
  <1>2. CoordinatorID(h).cert.key = <<"coordinator", h>>
    BY DEF CoordinatorID, Identity, Sign
  <1>3. <<"coordinator", g>> = <<"coordinator", h>>
    BY <1>1, <1>2
  <1> QED
    BY <1>3

\* A request's MAC verifies at a coordinator only if the joiner saw its certificate.
LEMMA MatchingSeen ==
    ASSUME NEW j, NEW r, Matching(j, r) # NoCode
    PROVE  Matching(j, r) = r.code /\ r.seen = inc.ident
  <1> DEFINE MAC(g) ==
        ClientMAC(DeriveKey(r.code, j), j, CertHash(CoordinatorID(g).cert), CSR(j))
  <1>1. MAC(r.seen) = MAC(inc.ident) /\ Matching(j, r) = r.code
    BY DEF Matching
  <1>2. CoordinatorID(r.seen).cert = CoordinatorID(inc.ident).cert
    BY <1>1 DEF ClientMAC, CertHash
  <1> QED
    BY <1>1, <1>2, CoordinatorCert

LEMMA JoinErrorType ==
    ASSUME NEW j, NEW a
    PROVE  JoinError(j, a) \in JoinErrors \ {"ErrRPC", "ErrInput"}
  BY DEF JoinError, JoinErrors, VerifyBundleError, VerifyError

\* A join that passes every check of Join ran into one generation only.
LEMMA AcceptedAgrees ==
    ASSUME NEW j, NEW a, JoinError(j, a) = "none"
    PROVE  a.ident = a.signs
  <1> DEFINE seen == CoordinatorID(joiner[j].seen).cert
  <1>1. CoordinatorID(a.ident).cert = seen
    BY DEF JoinError
  <1>2. VerifyError(CAOf(a.signs), seen, 0) = "none"
    BY DEF JoinError, Bundle
  <1>3. ChainsTo(CAOf(a.signs), CoordinatorID(a.ident).cert, 0)
    BY <1>1, <1>2 DEF VerifyError
  <1>4. CAOf(a.ident).key = <<"ca", a.signs>>
    BY <1>3, ChainNamesIssuer DEF CAOf, CoordinatorID, Identity
  <1>5. <<"ca", a.ident>> = <<"ca", a.signs>>
    BY <1>4 DEF CAOf, NewCA
  <1> QED
    BY <1>5

\* What a generation signs for a node verifies against its CA.
LEMMA NodeVerifies ==
    ASSUME NEW g, NEW name, NEW key,
           name \in {NodeID[j] : j \in Joiners} \cup {Coordinator}
    PROVE  VerifyError(CAOf(g), Sign(CAOf(g), Principal(Mesh, "node", name), key,
                                     NodeTTL, 0), 0) = "none"
  <1> DEFINE p == Principal(Mesh, "node", name)
             leaf == Sign(CAOf(g), p, key, NodeTTL, 0)
  <1>1. p # NoPrincipal
    BY SMTT(30), PairingAssumption DEF Principal, Roles
  <1>2. ChainsTo(CAOf(g), leaf, 0)
    BY SMTT(30), PairingAssumption, PKIAssumption DEF ChainsTo, ValidAt, Sign, CAOf, NewCA
  <1>3. leaf.principal = p /\ p.mesh = CAOf(g).mesh
    BY DEF Sign, CAOf, NewCA, Principal
  <1> QED
    BY <1>1, <1>2, <1>3 DEF VerifyError

\* An answer of a coordinator with one generation, to the request that the joiner
\* has in mind, passes every check of Join, if Join was given a host and a port.
LEMMA AgreeingAccepted ==
    ASSUME NEW j \in Joiners, NEW a, a.ident = a.signs,
           a.code = joiner[j].code, a.ident = joiner[j].seen,
           SplitsHostPort(joiner[j].addr)
    PROVE  JoinError(j, a) = "none"
  <1> DEFINE b == Bundle(j, a)
             seen == CoordinatorID(joiner[j].seen).cert
             checked == VerifyBundleError(DeriveKey(joiner[j].code, j), j, b, NodeID[j], 0)
  <1>1. CAOf(a.signs).mesh = Mesh
    BY DEF CAOf, NewCA
  <1>2. /\ b.ca = CAOf(a.signs)
        /\ b.cert = Sign(CAOf(a.signs), Principal(Mesh, "node", NodeID[j]),
                         <<"node", j>>, NodeTTL, 0)
        /\ b.mesh = Mesh
        /\ b.mac = ServerMAC(DeriveKey(joiner[j].code, j), j, b.ca, b.cert)
    BY <1>1 DEF Bundle, NodeCert, CSR
  <1>3. b.cert.principal = Principal(Mesh, "node", NodeID[j]) /\ b.cert.key = <<"node", j>>
    BY SMTT(30), <1>2 DEF Sign
  <1>4. checked = "none"
    BY SMTT(30), <1>2, <1>3, NodeVerifies DEF VerifyBundleError, Principal
  <1>5. seen = Sign(CAOf(a.signs), Principal(Mesh, "node", Coordinator),
                    <<"coordinator", a.signs>>, NodeTTL, 0)
    BY DEF CoordinatorID, Identity
  <1>6. VerifyError(b.ca, seen, 0) = "none"
    BY SMTT(30), <1>2, <1>5, NodeVerifies
  <1>7. seen.principal.role = "node" /\ seen.principal.name = Coordinator
    BY DEF CoordinatorID, Identity, Sign, Principal
  <1>8. SplitsHostPort(b.addr)
    <2>1. b.addr = GrpcAddr
      BY DEF Bundle
    <2>2. Len(GrpcAddr) = 2
      BY SMTT(30) DEF GrpcAddr
    <2> QED
      BY <2>1, <2>2 DEF SplitsHostPort
  <1> HIDE DEF b, seen, checked
  <1>9. CoordinatorID(a.ident).cert = seen
    BY DEF seen
  <1> QED
    BY <1>3, <1>4, <1>6, <1>7, <1>8, <1>9 DEF JoinError, b, seen, checked

-----------------------------------------------------------------------------
(***************************************************************************)
(* The coordinator's side is a Pairer.                                     *)
(***************************************************************************)

LEMMA StepsOfThePairer ==
    ASSUME JTypes, PairingNext
    PROVE  [Next]_vars
  <1>0. Admin \in Callers /\ Joiners \subseteq Callers /\ SessionIDs = Joiners
    BY PairingAssumption
  <1>1. ASSUME NEW j \in Joiners,
               \/ \E addr \in Addrs, code \in Codes \cup {NoCode} : JoinStart(j, addr, code)
               \/ BeginReturns(j) \/ CompleteReturns(j) \/ GiveUp(j)
        PROVE  UNCHANGED vars
    BY <1>1 DEF JoinStart, BeginReturns, CompleteReturns, GiveUp
  <1>2. ASSUME NEW j \in Joiners, ServeBegin(j)
        PROVE  Request(j)
    BY <1>0, <1>2 DEF ServeBegin, Request
  <1>3. ASSUME NEW j \in Joiners, ServeComplete(j)
        PROVE  Request(j)
    <2>1. Matching(j, req[j]) \in Codes \cup {NoCode}
      BY <1>3 DEF ServeComplete, Take, Matching, JTypes
    <2> QED
      BY <1>0, <1>3, <2>1 DEF ServeComplete, Request
  <1>4. ASSUME NEW j \in Joiners, FinishComplete(j)
        PROVE  Advance(j)
    BY <1>4 DEF FinishComplete, Advance, CSRKinds
  <1>5. ServeAdmin => Request(Admin) \/ Advance(Admin)
    BY DEF ServeAdmin, Request, Advance
  <1>6. ASSUME NEW i \in Incarnations, RestartAs(i)
        PROVE  Restart
    BY <1>6 DEF RestartAs
  <1> QED
    BY <1>0, <1>1, <1>2, <1>3, <1>4, <1>5, <1>6 DEF PairingNext, Next

\* What a step leaves alone at k keeps what holds at k.
LEMMA OthersKeep ==
    ASSUME NEW k, FlowAt(k), HonestAt(k), inc' = inc, call'[k] = call[k],
           joiner'[k] = joiner[k], req'[k] = req[k], wire'[k] = wire[k]
    PROVE  FlowAt(k)' /\ HonestAt(k)'
  BY DEF FlowAt, HonestAt, InService

-----------------------------------------------------------------------------
(***************************************************************************)
(* The joiner's steps.                                                     *)
(***************************************************************************)

At(j) == JTypes /\ FlowAt(j) /\ HonestAt(j)

LEMMA JoinStartKeeps ==
    ASSUME NEW j \in Joiners, At(j), NEW addr \in Addrs, NEW code \in Codes \cup {NoCode},
           JoinStart(j, addr, code)
    PROVE  /\ At(j)' /\ joiner'[j].pc \in {"begin", "failed"}
           /\ \A k \in Joiners \ {j} : joiner'[k] = joiner[k] /\ req'[k] = req[k]
  <1> USE DEF At, JoinErrors
  <1>1. /\ joiner \in [Joiners -> JoinerStates] /\ joiner[j].pc = "new"
        /\ UNCHANGED <<call, inc, wire>> /\ DOMAIN req = Joiners
    BY DEF JoinStart, JTypes, vars
  <1>2. CASE code = NoCode
    <2>1. joiner' = [joiner EXCEPT ![j].pc = "failed", ![j].err = "ErrInput"]
      BY <1>2 DEF JoinStart
    <2>2. joiner'[j] = [joiner[j] EXCEPT !.pc = "failed", !.err = "ErrInput"]
      BY <1>1, <2>1
    <2>3. joiner' \in [Joiners -> JoinerStates]
      <3>1. joiner'[j] \in JoinerStates
        BY <1>1, <2>2 DEF JoinerStates
      <3> QED
        BY <1>1, <2>1, <3>1
    <2>4. req' = req
      BY <1>2 DEF JoinStart
    <2>5. joiner'[j].pc = "failed" /\ joiner'[j].err = "ErrInput"
      BY <1>1, <2>2 DEF JoinerStates
    <2>6. JTypes'
      BY <1>1, <2>3, <2>4 DEF JTypes
    <2> QED
      BY SMTT(30), <1>1, <2>1, <2>4, <2>5, <2>6 DEF FlowAt, HonestAt, InService
  <1>3. CASE code # NoCode
    <2>1. joiner' = [joiner EXCEPT ![j].pc = "begin", ![j].code = code, ![j].addr = addr]
      BY <1>3 DEF JoinStart
    <2>2. joiner'[j] = [joiner[j] EXCEPT !.pc = "begin", !.code = code, !.addr = addr]
      BY <1>1, <2>1
    <2>3. joiner' \in [Joiners -> JoinerStates]
      <3>1. joiner'[j] \in JoinerStates
        BY <1>1, <2>2 DEF JoinerStates
      <3> QED
        BY <1>1, <2>1, <3>1
    <2>4. req' = [req EXCEPT ![j] = BeginPairingRequest]
      BY <1>3 DEF JoinStart, Invoke
    <2>5. joiner'[j].pc = "begin" /\ UNCHANGED <<joiner[j].err, joiner[j].from>>
      BY <1>1, <2>2 DEF JoinerStates
    <2>6. req'[j].kind = "begin" /\ DOMAIN req' = Joiners
      BY <1>1, <2>4 DEF BeginPairingRequest
    <2>7. JTypes'
      BY <1>1, <2>3, <2>4, <2>6 DEF JTypes
    <2> QED
      BY SMTT(30), <1>1, <2>1, <2>4, <2>5, <2>6, <2>7 DEF FlowAt, HonestAt, InService
  <1> QED
    BY <1>2, <1>3

LEMMA BeginReturnsKeeps ==
    ASSUME NEW j \in Joiners, At(j), BeginReturns(j)
    PROVE  At(j)' /\ \A k \in Joiners \ {j} :
                        joiner'[k] = joiner[k] /\ req'[k] = req[k] /\ wire'[k] = wire[k]
  <1> USE DEF At
  <1>1. /\ joiner \in [Joiners -> JoinerStates] /\ joiner[j].pc = "begin"
        /\ UNCHANGED <<call, inc>> /\ DOMAIN req = Joiners /\ DOMAIN wire = Joiners
        /\ wire[j].ident \in Generations
    BY DEF BeginReturns, JTypes, vars
  <1>2. joiner' = [joiner EXCEPT ![j].pc = "complete", ![j].seen = wire[j].ident]
    BY DEF BeginReturns
  <1>3. joiner'[j] = [joiner[j] EXCEPT !.pc = "complete", !.seen = wire[j].ident]
    BY <1>1, <1>2
  <1>4. joiner' \in [Joiners -> JoinerStates]
    <2>1. joiner'[j] \in JoinerStates
      BY <1>1, <1>3 DEF JoinerStates
    <2> QED
      BY SMTT(30), <1>1, <1>2, <2>1
  <1>5. /\ joiner'[j].pc = "complete" /\ joiner'[j].seen = wire[j].ident
        /\ joiner'[j].code = joiner[j].code /\ joiner'[j].err = joiner[j].err
        /\ joiner'[j].from = joiner[j].from /\ joiner[j].code \in Codes \cup {NoCode}
    BY SMTT(30), <1>1, <1>3 DEF JoinerStates
  <1>6. /\ req' = [req EXCEPT ![j] = CompletePairingRequest(joiner[j].code, wire[j].ident)]
        /\ wire' = [wire EXCEPT ![j] = NoAnswer]
    BY DEF BeginReturns, Invoke
  <1>7. /\ req'[j].kind = "complete" /\ req'[j].code = joiner[j].code
        /\ req'[j].seen = wire[j].ident /\ DOMAIN req' = Joiners
    BY <1>1, <1>6 DEF CompletePairingRequest
  <1>8. wire'[j].kind = "none" /\ DOMAIN wire' = Joiners
    BY <1>1, <1>6 DEF NoAnswer
  <1>9. ~InService(j) /\ ~InService(j)'
    BY <1>1 DEF FlowAt, InService
  <1>10. JTypes'
    BY SMTT(30), <1>1, <1>4, <1>5, <1>6, <1>7, <1>8 DEF JTypes
  <1> QED
    BY SMTT(30), <1>1, <1>2, <1>5, <1>6, <1>7, <1>8, <1>9, <1>10 DEF FlowAt, HonestAt, InService

LEMMA CompleteReturnsKeeps ==
    ASSUME NEW j \in Joiners, At(j), CompleteReturns(j)
    PROVE  At(j)' /\ \A k \in Joiners \ {j} :
                        joiner'[k] = joiner[k] /\ req'[k] = req[k] /\ wire'[k] = wire[k]
  <1> USE DEF At
  <1> DEFINE err  == JoinError(j, wire[j])
             pc   == IF err = "none" THEN "joined" ELSE "failed"
             from == [ident |-> wire[j].ident, signs |-> wire[j].signs]
  <1>1. /\ joiner \in [Joiners -> JoinerStates] /\ joiner[j].pc = "complete"
        /\ UNCHANGED <<call, inc, req>> /\ DOMAIN wire = Joiners
        /\ wire[j].kind = "bundle" /\ from \in Incarnations
    BY DEF CompleteReturns, JTypes, vars
  <1>2. err \in JoinErrors \ {"ErrRPC", "ErrInput"}
    BY JoinErrorType
  <1>3. /\ joiner' = [joiner EXCEPT ![j].pc = pc, ![j].err = err, ![j].from = from]
        /\ wire' = [wire EXCEPT ![j] = NoAnswer]
    BY DEF CompleteReturns
  <1>4. err = "none" => wire[j].ident = wire[j].signs
    BY AcceptedAgrees
  <1>5. err # "none" => wire[j].ident # wire[j].signs \/ ~SplitsHostPort(joiner[j].addr)
    <2>1. wire[j].code = joiner[j].code /\ wire[j].ident = joiner[j].seen
      BY <1>1 DEF HonestAt
    <2> QED
      BY <2>1, AgreeingAccepted
  <1>6. from.ident = wire[j].ident /\ from.signs = wire[j].signs
    OBVIOUS
  <1> HIDE DEF err, from
  <1>7. joiner'[j] = [joiner[j] EXCEPT !.pc = pc, !.err = err, !.from = from]
    BY <1>1, <1>3
  <1>8. joiner' \in [Joiners -> JoinerStates]
    <2>1. joiner'[j] \in JoinerStates
      BY <1>1, <1>2, <1>7 DEF JoinerStates
    <2> QED
      BY SMTT(30), <1>1, <1>3, <2>1
  <1>9. /\ joiner'[j].pc = pc /\ joiner'[j].err = err /\ joiner'[j].from = from
        /\ joiner'[j].addr = joiner[j].addr
    BY <1>1, <1>7 DEF JoinerStates
  <1>10. wire'[j].kind = "none" /\ DOMAIN wire' = Joiners
    BY <1>1, <1>3 DEF NoAnswer
  <1>11. JTypes'
    BY <1>1, <1>3, <1>8, <1>10 DEF JTypes
  <1>12. ~InService(j)' /\ req'[j].kind \notin {"begin", "complete"}
    BY <1>1 DEF FlowAt, InService
  <1>13. FlowAt(j)' /\ HonestAt(j)'
    BY SMTT(30), <1>1, <1>2, <1>4, <1>5, <1>6, <1>9, <1>10, <1>12 DEF FlowAt, HonestAt, InService
  <1> QED
    BY SMTT(30), <1>1, <1>3, <1>11, <1>13

LEMMA GiveUpKeeps ==
    ASSUME NEW j \in Joiners, At(j), GiveUp(j)
    PROVE  At(j)' /\ \A k \in Joiners \ {j} :
                        joiner'[k] = joiner[k] /\ req'[k] = req[k] /\ wire'[k] = wire[k]
  <1> USE DEF At
  <1>1. /\ joiner \in [Joiners -> JoinerStates] /\ Waiting(j)
        /\ UNCHANGED <<call, inc, req>> /\ DOMAIN wire = Joiners
        /\ joiner' = [joiner EXCEPT ![j].pc = "failed", ![j].err = "ErrRPC"]
        /\ wire' = [wire EXCEPT ![j] = NoAnswer]
    BY DEF GiveUp, JTypes, vars
  <1>2. joiner'[j] = [joiner[j] EXCEPT !.pc = "failed", !.err = "ErrRPC"]
    BY <1>1
  <1>3. joiner' \in [Joiners -> JoinerStates]
    <2>1. joiner'[j] \in JoinerStates
      BY ZenonT(30), <1>1, <1>2 DEF JoinerStates, JoinErrors
    <2> QED
      BY <1>1, <2>1
  <1>4. joiner'[j].pc = "failed" /\ joiner'[j].err = "ErrRPC"
    BY SMTT(30), <1>1, <1>2 DEF JoinerStates
  <1>5. wire'[j].kind = "none" /\ DOMAIN wire' = Joiners
    BY <1>1 DEF NoAnswer
  <1>6. JTypes'
    BY <1>1, <1>3, <1>5 DEF JTypes
  <1> QED
    BY <1>1, <1>4, <1>5, <1>6 DEF FlowAt, HonestAt, InService

-----------------------------------------------------------------------------
(***************************************************************************)
(* The coordinator's steps.                                                *)
(***************************************************************************)

\* An answer that is a status, or got lost, brings neither a session nor a bundle.
LEMMA StatusPut ==
    ASSUME NEW w, NEW j \in DOMAIN w, NEW a \in {Status, NoAnswer}
    PROVE  /\ [w EXCEPT ![j] = a][j].kind \notin {"session", "bundle"}
           /\ DOMAIN [w EXCEPT ![j] = a] = DOMAIN w
  BY SMTT(30) DEF Status, NoAnswer

LEMMA ServeBeginKeeps ==
    ASSUME NEW j \in Joiners, At(j), ServeBegin(j)
    PROVE  At(j)' /\ \A k \in Joiners \ {j} : req'[k] = req[k] /\ wire'[k] = wire[k]
  <1> USE DEF At
  <1>1. /\ req[j].kind = "begin" /\ req' = [req EXCEPT ![j] = NoRequest]
        /\ UNCHANGED <<call, inc, joiner>>
        /\ DOMAIN req = Joiners /\ DOMAIN wire = Joiners /\ inc.ident \in Generations
    BY DEF ServeBegin, Take, Begin, BeginRefused, JTypes, Incarnations
  <1>2. PICK a \in {BeginPairingResponse(inc), Status, NoAnswer} :
            wire' = [wire EXCEPT ![j] = a]
    BY DEF ServeBegin, Respond
  <1>3. /\ wire'[j].kind # "bundle" /\ DOMAIN wire' = Joiners
        /\ wire'[j].kind = "session" => wire'[j].ident = inc.ident
    BY SMTT(30), <1>1, <1>2 DEF BeginPairingResponse, Status, NoAnswer
  <1>4. req'[j].kind = "none" /\ DOMAIN req' = Joiners
    BY <1>1 DEF NoRequest
  <1>5. JTypes'
    BY <1>1, <1>2, <1>3, <1>4 DEF JTypes
  <1> QED
    BY <1>1, <1>2, <1>3, <1>4, <1>5 DEF FlowAt, HonestAt, InService

LEMMA ServeCompleteKeeps ==
    ASSUME TypeOK, NEW j \in Joiners, At(j), ServeComplete(j)
    PROVE  /\ At(j)'
           /\ \A k \in Joiners \ {j} :
                 req'[k] = req[k] /\ wire'[k] = wire[k] /\ call'[k] = call[k]
  <1> USE DEF At
  <1>1. /\ req[j].kind = "complete" /\ req' = [req EXCEPT ![j] = NoRequest]
        /\ UNCHANGED <<inc, joiner>>
        /\ DOMAIN req = Joiners /\ DOMAIN wire = Joiners
        /\ ~InService(j) /\ wire[j].kind # "bundle"
        /\ joiner[j].pc \in {"complete", "failed"}
    BY DEF ServeComplete, Take, JTypes, FlowAt
  <1>2. req'[j].kind = "none" /\ DOMAIN req' = Joiners
    BY <1>1 DEF NoRequest
  <1>3. CASE CompleteRefused(j, j) /\ Respond(j, Status)
    <2>1. PICK a \in {Status, NoAnswer} : wire' = [wire EXCEPT ![j] = a]
      BY <1>3 DEF Respond
    <2>2. wire'[j].kind \notin {"session", "bundle"} /\ DOMAIN wire' = Joiners
      BY <1>1, <2>1, StatusPut
    <2>3. call' = call
      BY <1>3 DEF CompleteRefused
    <2>4. JTypes'
      BY <1>1, <1>2, <2>1, <2>2 DEF JTypes
    <2> QED
      BY SMTT(30), <1>1, <1>2, <2>1, <2>2, <2>3, <2>4 DEF FlowAt, HonestAt, InService
  <1>4. CASE CompleteLookup(j, j, Matching(j, req[j])) /\ UNCHANGED wire
    <2> DEFINE guess   == Matching(j, req[j])
               matched == IF guess \in DOMAIN gcCodes THEN guess ELSE NoCode
    <2>1. call' = [call EXCEPT ![j] = [pc |-> "deriving", sid |-> j, matched |-> matched]]
      BY <1>4 DEF CompleteLookup
    <2>2. DOMAIN call = Callers /\ j \in Callers
      BY PairingAssumption DEF TypeOK
    <2>3. matched # NoCode => matched = req[j].code /\ req[j].seen = inc.ident
      BY MatchingSeen
    <2> HIDE DEF matched
    <2>4. call'[j].pc = "deriving" /\ call'[j].matched = matched
      BY <2>1, <2>2
    <2>5. JTypes'
      BY <1>1, <1>2, <1>4 DEF JTypes
    <2>6. HonestAt(j)'
      BY <1>1, <1>2, <1>4, <2>3, <2>4 DEF HonestAt
    <2>7. FlowAt(j)'
      BY <1>1, <1>2, <1>4, <2>4 DEF FlowAt, InService
    <2> QED
      BY SMTT(30), <1>1, <1>4, <2>1, <2>2, <2>5, <2>6, <2>7
  <1> QED
    BY <1>3, <1>4 DEF ServeComplete

LEMMA FinishCompleteKeeps ==
    ASSUME TypeOK, NEW j \in Joiners, At(j), FinishComplete(j)
    PROVE  /\ At(j)'
           /\ \A k \in Joiners \ {j} : wire'[k] = wire[k] /\ call'[k] = call[k]
  <1> USE DEF At
  <1>1. /\ UNCHANGED <<inc, joiner, req>> /\ DOMAIN wire = Joiners /\ inc \in Incarnations
        /\ DOMAIN call = Callers /\ j \in Callers
        /\ call[j].pc \in {"deriving", "signing"}
        /\ joiner[j].pc \in {"complete", "failed"} /\ wire[j].kind # "bundle"
        /\ req[j].kind # "complete"
    BY PairingAssumption
    DEF FinishComplete, CompleteMismatch, CompleteRaced, CompleteConsume, CompleteSign,
        JTypes, TypeOK, FlowAt, InService
  <1>2. CASE (CompleteMismatch(j) \/ CompleteRaced(j)) /\ Respond(j, Status)
    <2>1. PICK a \in {Status, NoAnswer} : wire' = [wire EXCEPT ![j] = a]
      BY <1>2 DEF Respond
    <2>2. wire'[j].kind \notin {"session", "bundle"} /\ DOMAIN wire' = Joiners
      BY <1>1, <2>1, StatusPut
    <2>3. call' = [call EXCEPT ![j] = IdleCall]
      BY <1>2 DEF CompleteMismatch, CompleteRaced
    <2>4. call'[j].pc = "idle"
      BY <1>1, <2>3 DEF IdleCall
    <2>5. JTypes'
      BY <1>1, <2>1, <2>2 DEF JTypes
    <2>6. FlowAt(j)'
      BY <1>1, <2>2, <2>4 DEF FlowAt, InService
    <2>7. HonestAt(j)'
      BY <1>1, <2>2, <2>4 DEF HonestAt
    <2> QED
      BY SMTT(30), <1>1, <2>1, <2>3, <2>5, <2>6, <2>7
  <1>3. CASE CompleteConsume(j) /\ UNCHANGED wire
    <2>1. /\ call[j].pc = "deriving" /\ call[j].matched \in DOMAIN codes
          /\ call' = [call EXCEPT ![j] = [pc |-> "signing", sid |-> call[j].sid,
                                          code |-> call[j].matched]]
      BY <1>3 DEF CompleteConsume
    <2>2. call[j].matched # NoCode
      BY <2>1, SetsAssumption DEF TypeOK, PartialFunctions
    <2>3. call'[j].pc = "signing" /\ call'[j].code = call[j].matched
      BY <1>1, <2>1
    <2>4. JTypes'
      BY <1>1, <1>3 DEF JTypes
    <2>5. HonestAt(j)'
      BY <1>1, <1>3, <2>1, <2>2, <2>3 DEF HonestAt
    <2>6. FlowAt(j)'
      BY <1>1, <1>3, <2>3 DEF FlowAt, InService
    <2> QED
      BY SMTT(30), <1>1, <1>3, <2>1, <2>4, <2>5, <2>6
  <1>4. CASE /\ CompleteSign(j, "wellFormed")
             /\ Respond(j, CompletePairingResponse(call[j].code, inc))
    <2>1. call[j].pc = "signing" /\ call' = [call EXCEPT ![j] = IdleCall]
      BY <1>4 DEF CompleteSign
    <2>2. call'[j].pc = "idle"
      BY <1>1, <2>1 DEF IdleCall
    <2>3. CASE ~Waiting(j)
      <3>1. wire' = [wire EXCEPT ![j] = NoAnswer]
        BY <1>4, <2>3 DEF Respond
      <3>2. wire'[j].kind = "none" /\ DOMAIN wire' = Joiners
        BY <1>1, <3>1 DEF NoAnswer
      <3>3. JTypes'
        BY <1>1, <3>1, <3>2 DEF JTypes
      <3>4. FlowAt(j)'
        BY <1>1, <2>2, <3>2 DEF FlowAt, InService
      <3>5. HonestAt(j)'
        BY <1>1, <2>2, <3>2 DEF HonestAt
      <3> QED
        BY SMTT(30), <2>1, <3>1, <3>3, <3>4, <3>5
    <2>4. CASE Waiting(j)
      <3>1. wire' = [wire EXCEPT ![j] = CompletePairingResponse(call[j].code, inc)]
        BY <1>4, <2>4 DEF Respond
      <3>2. /\ wire'[j].kind = "bundle" /\ wire'[j].code = call[j].code
            /\ wire'[j].ident = inc.ident /\ wire'[j].signs = inc.signs
            /\ DOMAIN wire' = Joiners
        BY <1>1, <3>1 DEF CompletePairingResponse
      <3>3. [ident |-> wire'[j].ident, signs |-> wire'[j].signs] \in Incarnations
        BY <1>1, <3>2 DEF Incarnations
      <3>4. JTypes'
        BY <1>1, <3>1, <3>2, <3>3 DEF JTypes
      <3>5. joiner[j].pc = "complete"
        BY <1>1, <2>4 DEF Waiting
      <3>6. FlowAt(j)'
        BY <1>1, <2>2, <3>2, <3>5 DEF FlowAt, InService
      <3>7. HonestAt(j)'
        BY <1>1, <2>1, <2>2, <3>2, <3>5 DEF HonestAt
      <3> QED
        BY SMTT(30), <2>1, <3>1, <3>4, <3>6, <3>7
    <2> QED
      BY <2>3, <2>4
  <1> QED
    BY <1>2, <1>3, <1>4 DEF FinishComplete

\* The steps that take no joiner's message: the calls of the joiners are as before,
\* or gone.
LEMMA QuietStepKeeps ==
    ASSUME JTypes, Flow, Honest, UNCHANGED <<joiner, req, wire>>, inc' \in Incarnations,
           \A j \in Joiners : \/ call'[j].pc \notin {"deriving", "signing"}
                              \/ call'[j] = call[j] /\ inc' = inc
    PROVE  JTypes' /\ Flow' /\ Honest'
  <1>1. JTypes'
    BY DEF JTypes
  <1>2. ASSUME NEW j \in Joiners
        PROVE  FlowAt(j)' /\ HonestAt(j)'
    BY ZenonT(30), <1>2 DEF Flow, Honest, FlowAt, HonestAt, InService
  <1> QED
    BY <1>1, <1>2 DEF Flow, Honest

LEMMA StepKeeps ==
    ASSUME TypeOK, JTypes, Flow, Honest, [PairingNext]_pairingVars
    PROVE  JTypes' /\ Flow' /\ Honest'
  <1> DEFINE Rest(j) == \A k \in Joiners \ {j} :
                            /\ call'[k] = call[k] /\ joiner'[k] = joiner[k]
                            /\ req'[k] = req[k] /\ wire'[k] = wire[k]
  <1>0. /\ inc \in Incarnations
        /\ \A j \in Joiners : j \in Callers /\ j # Admin
        /\ Admin \in Callers /\ DOMAIN call = Callers
    BY PairingAssumption DEF JTypes, TypeOK
  <1>1. CASE UNCHANGED pairingVars
    BY <1>0, <1>1, QuietStepKeeps DEF pairingVars, vars
  <1>2. ASSUME NEW j \in Joiners, inc' = inc, At(j)', Rest(j)
        PROVE  JTypes' /\ Flow' /\ Honest'
    <2>1. ASSUME NEW k \in Joiners \ {j}
          PROVE  FlowAt(k)' /\ HonestAt(k)'
      BY <1>2, OthersKeep DEF Flow, Honest
    <2> QED
      BY <1>2, <2>1 DEF At, Flow, Honest
  <1>3. ASSUME NEW j \in Joiners
        PROVE  At(j)
    BY <1>3 DEF At, Flow, Honest
  <1>4. ASSUME NEW j \in Joiners, NEW addr \in Addrs, NEW code \in Codes \cup {NoCode},
               JoinStart(j, addr, code)
        PROVE  JTypes' /\ Flow' /\ Honest'
    <2>1. UNCHANGED <<call, inc, wire>>
      BY <1>4 DEF JoinStart, vars
    <2> QED
      BY <1>2, <1>3, <1>4, <2>1, JoinStartKeeps
  <1>5. ASSUME NEW j \in Joiners, BeginReturns(j) \/ CompleteReturns(j) \/ GiveUp(j)
        PROVE  JTypes' /\ Flow' /\ Honest'
    <2>1. UNCHANGED <<call, inc>>
      BY <1>5 DEF BeginReturns, CompleteReturns, GiveUp, vars
    <2>2. At(j)' /\ \A k \in Joiners \ {j} :
                       joiner'[k] = joiner[k] /\ req'[k] = req[k] /\ wire'[k] = wire[k]
      BY <1>3, <1>5, BeginReturnsKeeps, CompleteReturnsKeeps, GiveUpKeeps
    <2> QED
      BY <1>2, <2>1, <2>2
  <1>6. ASSUME NEW j \in Joiners, ServeBegin(j)
        PROVE  JTypes' /\ Flow' /\ Honest'
    <2>1. UNCHANGED <<call, inc, joiner>>
      BY <1>6 DEF ServeBegin, Begin, BeginRefused
    <2> QED
      BY <1>2, <1>3, <1>6, <2>1, ServeBeginKeeps
  <1>7. ASSUME NEW j \in Joiners, ServeComplete(j)
        PROVE  JTypes' /\ Flow' /\ Honest'
    <2>1. UNCHANGED <<inc, joiner>>
      BY <1>7 DEF ServeComplete
    <2> QED
      BY <1>2, <1>3, <1>7, <2>1, ServeCompleteKeeps
  <1>8. ASSUME NEW j \in Joiners, FinishComplete(j)
        PROVE  JTypes' /\ Flow' /\ Honest'
    <2>1. UNCHANGED <<inc, joiner, req>>
      BY <1>8 DEF FinishComplete
    <2> QED
      BY <1>2, <1>3, <1>8, <2>1, FinishCompleteKeeps
  <1>9. CASE ServeAdmin
    <2>1. UNCHANGED <<inc, joiner, req, wire>>
      BY <1>9 DEF ServeAdmin
    <2>2. \A j \in Joiners : call'[j] = call[j]
      BY <1>0, <1>9 DEF ServeAdmin, IssueStore, IssueDraw
    <2> QED
      BY <1>0, <2>1, <2>2, QuietStepKeeps
  <1>10. ASSUME NEW i \in Incarnations, RestartAs(i)
         PROVE  JTypes' /\ Flow' /\ Honest'
    <2>1. inc' = i /\ UNCHANGED <<joiner, req, wire>>
      BY <1>10 DEF RestartAs
    <2>2. \A j \in Joiners : call'[j].pc = "idle"
      BY <1>0, <1>10 DEF RestartAs, Restart, IdleCall
    <2> QED
      BY <2>1, <2>2, QuietStepKeeps
  <1>11. CASE Tick /\ UNCHANGED <<inc, joiner, req, wire>>
    <2>1. ASSUME NEW j \in Joiners
          PROVE  call'[j].pc \notin {"deriving", "signing"} \/ call'[j] = call[j]
      <3>1. CASE call[j].pc = "issuing"
        <4>1. call[j] \in [pc : {"issuing"}, code : Codes, left : CodeTimeLeft]
          BY <1>0, <2>1, <3>1, CallShape
        <4>2. call'[j] = [call[j] EXCEPT !.left = Elapse(@)]
          BY <1>0, <1>11, <2>1, <3>1 DEF Tick
        <4>3. call'[j].pc = "issuing"
          BY <4>1, <4>2
        <4> QED
          BY <4>3
      <3>2. CASE call[j].pc # "issuing"
        BY <1>0, <1>11, <2>1, <3>2 DEF Tick
      <3> QED
        BY <3>1, <3>2
    <2> QED
      BY <1>0, <1>11, <2>1, QuietStepKeeps
  <1> QED
    BY <1>1, <1>4, <1>5, <1>6, <1>7, <1>8, <1>9, <1>10, <1>11 DEF PairingNext

-----------------------------------------------------------------------------
(***************************************************************************)
(* The theorems.                                                           *)
(***************************************************************************)

LEMMA ProtocolInit == PairingInit => PInv
  <1> SUFFICES ASSUME PairingInit PROVE PInv
    OBVIOUS
  <1>1. Init
    BY DEF PairingInit
  <1>2. IInv
    BY <1>1, InitIInv
  <1>4. inc \in Incarnations /\ inc.ident \in Generations
    BY DEF PairingInit, Incarnations
  <1>5. ASSUME NEW j \in Joiners
        PROVE  joiner[j] \in JoinerStates /\ FlowAt(j) /\ HonestAt(j)
    <2>1. /\ joiner[j] = [pc |-> "new", code |-> NoCode, seen |-> inc.ident,
                          from |-> inc, addr |-> <<>>, err |-> "none"]
          /\ req[j].kind = "none" /\ wire[j].kind = "none"
      BY <1>5 DEF PairingInit, NoRequest, NoAnswer
    <2>2. call[j].pc = "idle"
      BY <1>1, <1>5, PairingAssumption DEF Init, IdleCall
    <2> QED
      BY SMTT(30), <1>4, <2>1, <2>2 DEF JoinerStates, JoinErrors, FlowAt, HonestAt, InService
  <1>6. JTypes
    BY <1>4, <1>5 DEF JTypes, PairingInit, NoRequest, NoAnswer
  <1> QED
    BY <1>2, <1>5, <1>6 DEF PInv, Flow, Honest

LEMMA ProtocolStep == PInv /\ [PairingNext]_pairingVars => PInv'
  <1> SUFFICES ASSUME PInv, [PairingNext]_pairingVars
               PROVE  PInv'
    OBVIOUS
  <1>1. IInv /\ TypeOK /\ JTypes /\ Flow /\ Honest
    BY DEF PInv, IInv
  <1>2. [Next]_vars
    BY <1>1, StepsOfThePairer DEF pairingVars
  <1>3. IInv'
    BY <1>1, <1>2, StepIInv
  <1>4. JTypes' /\ Flow' /\ Honest'
    BY <1>1, StepKeeps
  <1> QED
    BY <1>3, <1>4 DEF PInv

\* The protocol's inductive invariant: what PairerProofs shows of the Pairer holds in
\* the protocol too, and every message, call and answer of a joiner is about the code
\* and the certificate that the joiner has in mind.
THEOREM ProtocolInvariance == PairingSpec => []PInv
  BY ProtocolInit, ProtocolStep, PTL DEF PairingSpec

\* Join's checks refuse an answer only when the coordinator serves and signs with
\* different generations, or when Join was given an address that is not host:port, for
\* any number of joiners, restarts and generations.
THEOREM HonestAnswers == PairingSpec => []HonestAnswerAccepted
  <1>1. PInv => HonestAnswerAccepted
    BY DEF PInv, Honest, HonestAt, HonestAnswerAccepted
  <1> QED
    BY <1>1, ProtocolInvariance, PTL

\* The fields of a node's certificate.
LEMMA SignedFields ==
    ASSUME NEW ca, NEW name, NEW key, NEW cert,
           cert = Sign(ca, Principal(Mesh, "node", name), key, NodeTTL, 0)
    PROVE  cert.key = key /\ cert.dns = {name} /\ cert.principal.mesh = Mesh
  BY DEF Sign, Principal

\* A node that Join reports as joined shares a CA with the coordinator it joined
\* at: its identity loads, and either can dial the other.
THEOREM JoinedTalk == PairingSpec => []JoinedCanTalk
  <1>1. ASSUME PInv, NEW j \in Joiners, joiner[j].pc = "joined"
        PROVE  LET me    == Joined(j)
                   coord == CoordinatorID(joiner[j].from.ident)
               IN  /\ IdentityError(me.ca, me.cert, me.key, 0) = "none"
                   /\ ClientAccepts(me, Coordinator, coord.cert, 0)
                   /\ ServerAccepts(coord, me.cert, 0)
                   /\ ClientAccepts(coord, NodeID[j], me.cert, 0)
    <2> DEFINE g     == joiner[j].from.signs
               me    == Joined(j)
               coord == CoordinatorID(joiner[j].from.ident)
    <2>1. joiner[j].from.ident = g
      BY <1>1 DEF PInv, Honest, HonestAt
    <2>2. /\ me.ca = CAOf(g) /\ me.key = <<"node", j>>
          /\ me.cert = Sign(CAOf(g), Principal(Mesh, "node", NodeID[j]), <<"node", j>>,
                            NodeTTL, 0)
      BY DEF Joined, Identity, NodeCert, CSR, CAOf, NewCA
    <2>3. /\ coord.ca = CAOf(g)
          /\ coord.cert = Sign(CAOf(g), Principal(Mesh, "node", Coordinator),
                               <<"coordinator", g>>, NodeTTL, 0)
      BY <2>1 DEF CoordinatorID, Identity
    <2>4. /\ VerifyError(CAOf(g), me.cert, 0) = "none"
          /\ VerifyError(CAOf(g), coord.cert, 0) = "none"
      BY SMTT(30), <1>1, <2>2, <2>3, NodeVerifies
    <2> HIDE DEF g, me, coord
    <2>5. /\ me.cert.key = <<"node", j>> /\ me.cert.dns = {NodeID[j]}
          /\ coord.cert.dns = {Coordinator}
          /\ me.cert.principal.mesh = Mesh /\ coord.cert.principal.mesh = Mesh
      BY SMTT(30), <2>2, <2>3, SignedFields
    <2>6. /\ ChainsTo(CAOf(g), me.cert, 0) /\ me.cert.principal # NoPrincipal
          /\ ChainsTo(CAOf(g), coord.cert, 0) /\ coord.cert.principal # NoPrincipal
      BY <2>4 DEF VerifyError
    <2>7. /\ IdentityError(me.ca, me.cert, me.key, 0) = "none"
          /\ ClientAccepts(me, Coordinator, coord.cert, 0)
          /\ ServerAccepts(coord, me.cert, 0)
          /\ ClientAccepts(coord, NodeID[j], me.cert, 0)
      BY <2>2, <2>3, <2>4, <2>5, <2>6
      DEF IdentityError, ClientAccepts, ServerAccepts, verifyPeer
    <2> QED
      BY <2>7 DEF me, coord
  <1>2. PInv => JoinedCanTalk
    BY <1>1 DEF JoinedCanTalk
  <1> QED
    BY <1>2, ProtocolInvariance, PTL

-----------------------------------------------------------------------------
(***************************************************************************)
(* The protocol keeps the promise of Enrolment.                            *)
(***************************************************************************)

\* The coordinator has spent a code for j, and j has not got its answer yet.
Owed(j) == Waiting(j) /\ (call[j].pc = "signing" \/ wire[j].kind = "bundle")

In(j) == joiner[j].pc = "joined"

\* Nobody pays, gets in or is let down.
LEMMA NobodyPays ==
    ASSUME DOMAIN codes' \subseteq DOMAIN codes,
           \A j \in Joiners : (Owed(j)' <=> Owed(j)) /\ (In(j)' <=> In(j))
    PROVE  Promise!Lapse
  <1>1. {j \in Joiners : Owed(j)}' = {j \in Joiners : Owed(j)}
    OBVIOUS
  <1>2. {j \in Joiners : In(j)}' = {j \in Joiners : In(j)}
    OBVIOUS
  <1> QED
    BY <1>1, <1>2 DEF Promise!Lapse, Owed, In

\* What a step that concerns j only leaves alone at the others.
Aside(j) == \A k \in Joiners \ {j} : /\ call'[k] = call[k] /\ wire'[k] = wire[k]
                                     /\ joiner'[k] = joiner[k]

LEMMA AsideSame ==
    ASSUME NEW j, Aside(j), NEW k \in Joiners \ {j}
    PROVE  (Owed(k)' <=> Owed(k)) /\ (In(k)' <=> In(k))
  BY DEF Aside, Owed, In, Waiting

LEMMA LetDown ==
    ASSUME NEW j \in Joiners, Aside(j), Owed(j), ~Owed(j)', ~In(j), ~In(j)',
           DOMAIN codes' = DOMAIN codes
    PROVE  Promise!Lose(j)
  <1>1. \A k \in Joiners : /\ Owed(k)' <=> Owed(k) /\ k # j
                           /\ In(k)' <=> In(k)
    BY AsideSame
  <1> QED
    BY <1>1 DEF Promise!Lose, Owed, In

LEMMA JoinerStepPromise ==
    ASSUME PInv, NEW j \in Joiners,
           \/ \E addr \in Addrs, code \in Codes \cup {NoCode} : JoinStart(j, addr, code)
           \/ BeginReturns(j) \/ CompleteReturns(j) \/ GiveUp(j)
    PROVE  Promise!Lapse \/ Promise!Lose(j) \/ Promise!Admit(j)
  <1>1. JTypes /\ At(j)
    BY DEF PInv, At, Flow, Honest
  <1>2. /\ UNCHANGED <<call, codes>> /\ joiner \in [Joiners -> JoinerStates]
        /\ DOMAIN codes' = DOMAIN codes /\ DOMAIN codes' \subseteq DOMAIN codes
    BY <1>1 DEF JoinStart, BeginReturns, CompleteReturns, GiveUp, vars, JTypes
  <1>3. Aside(j)
    <2>1. ASSUME NEW addr \in Addrs, NEW code \in Codes \cup {NoCode},
                 JoinStart(j, addr, code)
          PROVE  Aside(j)
      <3>1. wire' = wire
        BY <2>1 DEF JoinStart
      <3>2. \A k \in Joiners \ {j} : joiner'[k] = joiner[k]
        BY <1>1, <2>1, JoinStartKeeps
      <3> QED
        BY <1>2, <3>1, <3>2 DEF Aside
    <2>2. ASSUME BeginReturns(j) \/ CompleteReturns(j) \/ GiveUp(j)
          PROVE  Aside(j)
      <3>1. \A k \in Joiners \ {j} : joiner'[k] = joiner[k] /\ wire'[k] = wire[k]
        BY <1>1, <2>2, BeginReturnsKeeps, CompleteReturnsKeeps, GiveUpKeeps
      <3> QED
        BY <1>2, <3>1 DEF Aside
    <2> QED
      BY <2>1, <2>2
  <1>4. CASE \/ \E addr \in Addrs, code \in Codes \cup {NoCode} : JoinStart(j, addr, code)
             \/ BeginReturns(j)
    <2>1. joiner[j].pc \in {"new", "begin"}
      BY <1>4 DEF JoinStart, BeginReturns
    <2>2. ~Owed(j) /\ ~In(j)
      BY <1>1, <2>1 DEF At, FlowAt, InService, Owed, Waiting, In
    <2>3. joiner'[j].pc \in {"begin", "complete", "failed"}
      <3>1. ASSUME NEW addr \in Addrs, NEW code \in Codes \cup {NoCode},
                   JoinStart(j, addr, code)
            PROVE  joiner'[j].pc \in {"begin", "failed"}
        BY <1>1, <3>1, JoinStartKeeps
      <3>2. ASSUME BeginReturns(j)
            PROVE  joiner'[j].pc = "complete"
        BY SMTT(30), <1>2, <3>2 DEF BeginReturns, JoinerStates
      <3> QED
        BY <1>4, <3>1, <3>2
    <2>4. wire'[j].kind # "bundle"
      <3>1. CASE \E addr \in Addrs, code \in Codes \cup {NoCode} : JoinStart(j, addr, code)
        BY <1>1, <2>1, <3>1 DEF JoinStart, At, FlowAt
      <3>2. CASE BeginReturns(j)
        BY <1>1, <3>2 DEF BeginReturns, NoAnswer, JTypes
      <3> QED
        BY <1>4, <3>1, <3>2
    <2>5. call'[j].pc # "signing"
      BY <1>1, <1>2, <2>1 DEF At, FlowAt, InService
    <2>6. ~Owed(j)' /\ ~In(j)'
      BY <2>3, <2>4, <2>5 DEF Owed, In
    <2>7. \A k \in Joiners : (Owed(k)' <=> Owed(k)) /\ (In(k)' <=> In(k))
      BY <1>3, <2>2, <2>6, AsideSame
    <2> QED
      BY <1>2, <2>7, NobodyPays
  <1>5. CASE CompleteReturns(j)
    <2>1. Owed(j) /\ ~In(j)
      BY <1>5 DEF CompleteReturns, Owed, Waiting, In
    <2>2. joiner'[j].pc = IF JoinError(j, wire[j]) = "none" THEN "joined" ELSE "failed"
      BY <1>2, <1>5 DEF CompleteReturns, JoinerStates
    <2>3. ~Owed(j)'
      BY <2>2 DEF Owed, Waiting
    <2>4. CASE In(j)'
      <3>1. \A k \in Joiners : /\ Owed(k)' <=> Owed(k) /\ k # j
                               /\ In(k)' <=> In(k) \/ k = j
        BY <1>3, <2>1, <2>3, <2>4, AsideSame
      <3>2. Promise!Admit(j)
        BY <1>2, <2>1, <3>1 DEF Promise!Admit, Owed, In
      <3> QED
        BY <3>2
    <2>5. CASE ~In(j)'
      BY <1>2, <1>3, <2>1, <2>3, <2>5, LetDown
    <2> QED
      BY <2>4, <2>5
  <1>6. CASE GiveUp(j)
    <2>1. ~In(j)
      BY <1>6 DEF GiveUp, Waiting, In
    <2>2. joiner'[j].pc = "failed"
      BY <1>2, <1>6 DEF GiveUp, JoinerStates
    <2>3. ~Owed(j)' /\ ~In(j)'
      BY <2>2 DEF Owed, Waiting, In
    <2>4. CASE Owed(j)
      BY SMTT(30), <1>2, <1>3, <2>1, <2>3, <2>4, LetDown
    <2>5. CASE ~Owed(j)
      <3>1. \A k \in Joiners : (Owed(k)' <=> Owed(k)) /\ (In(k)' <=> In(k))
        BY <1>3, <2>1, <2>3, <2>5, AsideSame
      <3> QED
        BY <1>2, <3>1, NobodyPays
    <2> QED
      BY <2>4, <2>5
  <1> QED
    BY <1>4, <1>5, <1>6

LEMMA ServeStepPromise ==
    ASSUME PInv, NEW j \in Joiners, ServeBegin(j) \/ ServeComplete(j)
    PROVE  Promise!Lapse
  <1>1. TypeOK /\ JTypes /\ At(j) /\ j \in Callers /\ DOMAIN call = Callers
    BY PairingAssumption DEF PInv, IInv, At, Flow, Honest, TypeOK
  <1>2. joiner' = joiner
    BY DEF ServeBegin, ServeComplete
  <1>3. DOMAIN codes' \subseteq DOMAIN codes
    <2>1. codes' = gcCodes
      BY DEF ServeBegin, ServeComplete, Begin, BeginRefused, CompleteRefused,
             CompleteLookup, gcLocked
    <2> QED
      BY <1>1, <2>1, GcTypes
  <1>4. Aside(j)
    <2>1. ServeBegin(j) => call' = call
      BY DEF ServeBegin, Begin, BeginRefused
    <2> QED
      BY <1>1, <1>2, <2>1, ServeBeginKeeps, ServeCompleteKeeps DEF Aside
  <1>5. ~Owed(j)
    <2>1. req[j].kind \in {"begin", "complete"}
      BY DEF ServeBegin, ServeComplete, Take
    <2> QED
      BY <1>1, <2>1 DEF At, FlowAt, InService, Owed, Waiting
  <1>6. ~Owed(j)'
    <2>1. wire'[j].kind # "bundle" \/ ~Waiting(j)
      <3>1. CASE wire' = wire
        BY <1>5, <3>1 DEF Owed
      <3>2. ASSUME NEW a \in {BeginPairingResponse(inc), Status}, Respond(j, a)
            PROVE  wire'[j].kind # "bundle"
        BY SMTT(30), <1>1, <3>2
        DEF Respond, BeginPairingResponse, Status, NoAnswer, JTypes
      <3> QED
        BY <3>1, <3>2 DEF ServeBegin, ServeComplete
    <2>2. call'[j].pc # "signing" \/ ~Waiting(j)
      <3>1. CASE call' = call
        BY <1>5, <3>1 DEF Owed
      <3>2. CASE CompleteLookup(j, j, Matching(j, req[j]))
        BY <1>1, <3>2 DEF CompleteLookup
      <3> QED
        BY <3>1, <3>2 DEF ServeBegin, ServeComplete, Begin, BeginRefused, CompleteRefused
    <2> QED
      BY <1>2, <2>1, <2>2 DEF Owed, Waiting
  <1>7. \A k \in Joiners : (Owed(k)' <=> Owed(k)) /\ (In(k)' <=> In(k))
    BY <1>2, <1>4, <1>5, <1>6, AsideSame DEF In
  <1> QED
    BY <1>3, <1>7, NobodyPays

LEMMA FinishStepPromise ==
    ASSUME PInv, NEW j \in Joiners, FinishComplete(j)
    PROVE  Promise!Next
  <1>1. /\ TypeOK /\ JTypes /\ At(j) /\ j \in Callers /\ DOMAIN call = Callers
        /\ DOMAIN wire = Joiners
    BY PairingAssumption DEF PInv, IInv, At, Flow, Honest, TypeOK, JTypes
  <1>2. joiner' = joiner /\ Aside(j)
    <2>1. joiner' = joiner
      BY DEF FinishComplete
    <2>2. \A k \in Joiners \ {j} : wire'[k] = wire[k] /\ call'[k] = call[k]
      BY <1>1, FinishCompleteKeeps
    <2> QED
      BY <2>1, <2>2 DEF Aside
  <1>3. \A k \in Joiners : In(k)' <=> In(k)
    BY <1>2 DEF In
  <1>4. Waiting(j)' <=> Waiting(j)
    BY <1>2 DEF Waiting
  <1>5. CASE (CompleteMismatch(j) \/ CompleteRaced(j)) /\ Respond(j, Status)
    <2>1. call[j].pc = "deriving" /\ call' = [call EXCEPT ![j] = IdleCall] /\ codes' = codes
      BY <1>5 DEF CompleteMismatch, CompleteRaced
    <2>2. call'[j].pc = "idle" /\ wire'[j].kind # "bundle" /\ wire[j].kind # "bundle"
      BY <1>1, <1>5, <2>1
      DEF IdleCall, Respond, Status, NoAnswer, At, FlowAt, InService
    <2>3. ~Owed(j) /\ ~Owed(j)'
      BY <2>1, <2>2 DEF Owed
    <2>4. \A k \in Joiners : Owed(k)' <=> Owed(k)
      BY <1>2, <2>3, AsideSame
    <2>5. DOMAIN codes' \subseteq DOMAIN codes
      BY <2>1
    <2>6. Promise!Lapse
      BY <1>3, <2>4, <2>5, NobodyPays
    <2> QED
      BY <2>6 DEF Promise!Next
  <1>6. CASE /\ CompleteSign(j, "wellFormed")
             /\ Respond(j, CompletePairingResponse(call[j].code, inc))
    <2>1. call[j].pc = "signing" /\ codes' = codes
      BY <1>6 DEF CompleteSign
    <2>2. Waiting(j) => wire'[j].kind = "bundle"
      BY <1>1, <1>6 DEF Respond, CompletePairingResponse
    <2>3. Owed(j)' <=> Owed(j)
      BY <1>4, <2>1, <2>2 DEF Owed
    <2>4. \A k \in Joiners : Owed(k)' <=> Owed(k)
      BY <1>2, <2>3, AsideSame
    <2>5. DOMAIN codes' \subseteq DOMAIN codes
      BY SMTT(30), <2>1
    <2>6. Promise!Lapse
      BY <1>3, <2>4, <2>5, NobodyPays
    <2> QED
      BY <2>6 DEF Promise!Next
  <1>7. CASE CompleteConsume(j) /\ UNCHANGED wire
    <2>1. PICK c : c = call[j].matched
      OBVIOUS
    <2>2. /\ call[j].pc = "deriving" /\ c \in DOMAIN codes
          /\ codes' = Delete(codes, c)
          /\ call' = [call EXCEPT ![j] = [pc |-> "signing", sid |-> call[j].sid,
                                          code |-> c]]
      BY <1>7, <2>1 DEF CompleteConsume
    <2>3. DOMAIN codes' = DOMAIN codes \ {c} /\ c \in Codes
      BY <1>1, <2>2 DEF Delete, Restrict, TypeOK, PartialFunctions
    <2>4. call'[j].pc = "signing"
      BY <1>1, <2>2
    <2>5. wire[j].kind # "bundle" /\ ~Owed(j)
      BY <1>1, <2>2 DEF At, FlowAt, InService, Owed
    <2>6. CASE ~Waiting(j)
      <3>1. ~Owed(j)'
        BY <1>4, <2>6 DEF Owed
      <3>2. \A k \in Joiners : Owed(k)' <=> Owed(k)
        BY <1>2, <2>5, <3>1, AsideSame
      <3>3. DOMAIN codes' \subseteq DOMAIN codes
        BY <2>3
      <3> QED
        BY <1>3, <3>2, <3>3, NobodyPays DEF Promise!Next
    <2>7. CASE Waiting(j)
      <3>1. Owed(j)' /\ ~In(j)
        BY <1>4, <2>4, <2>7 DEF Owed, In, Waiting
      <3>2. \A k \in Joiners : /\ Owed(k)' <=> Owed(k) \/ k = j
                               /\ In(k)' <=> In(k)
        BY <1>2, <1>3, <2>5, <3>1, AsideSame
      <3>3. Promise!Pay(j, c)
        BY <2>2, <2>3, <2>5, <3>1, <3>2 DEF Promise!Pay, Owed, In
      <3> QED
        BY <2>3, <3>3 DEF Promise!Next
    <2> QED
      BY <2>6, <2>7
  <1> QED
    BY <1>5, <1>6, <1>7 DEF FinishComplete

LEMMA CoordinatorStepPromise ==
    ASSUME PInv,
           \/ ServeAdmin
           \/ \E i \in Incarnations : RestartAs(i)
           \/ Tick /\ UNCHANGED <<inc, joiner, req, wire>>
    PROVE  Promise!Next
  <1>1. /\ TypeOK /\ Admin \in Callers /\ DOMAIN call = Callers
        /\ \A j \in Joiners : j \in Callers /\ j # Admin
    BY PairingAssumption DEF PInv, IInv, TypeOK
  <1>2. joiner' = joiner /\ wire' = wire
    BY DEF ServeAdmin, RestartAs
  <1>3. \A j \in Joiners : In(j)' <=> In(j)
    BY <1>2 DEF In
  <1>4. ASSUME \A j \in Joiners : call'[j].pc = call[j].pc
        PROVE  \A j \in Joiners : Owed(j)' <=> Owed(j)
    BY <1>2, <1>4 DEF Owed, Waiting
  <1>5. CASE IssueStore(Admin)
    <2>1. PICK c, left : c = call[Admin].code /\ left = call[Admin].left
      OBVIOUS
    <2>2. c \in Codes
      <3>1. call[Admin] \in [pc : {"issuing"}, code : Codes, left : CodeTimeLeft]
        BY <1>1, <1>5, CallShape DEF IssueStore
      <3> QED
        BY <2>1, <3>1
    <2>3. codes' = Put(gcCodes, c, left)
      BY <1>5, <2>1 DEF IssueStore
    <2>4. DOMAIN codes' = DOMAIN gcCodes \cup {c}
      BY <2>3 DEF Put
    <2>5. DOMAIN gcCodes \subseteq DOMAIN codes
      BY <1>1, GcTypes
    <2>6. \E lapsed \in SUBSET DOMAIN codes :
              DOMAIN codes' = (DOMAIN codes \ lapsed) \cup {c}
      <3>1. DOMAIN codes' = (DOMAIN codes \ (DOMAIN codes \ DOMAIN gcCodes)) \cup {c}
        BY <2>4, <2>5
      <3> QED
        BY <3>1
    <2>7. \A j \in Joiners : call'[j].pc = call[j].pc
      BY <1>1, <1>5 DEF IssueStore
    <2>8. \A j \in Joiners : (Owed(j)' <=> Owed(j)) /\ (In(j)' <=> In(j))
      BY <1>3, <1>4, <2>7
    <2>9. Promise!Mint(c)
      BY <2>6, <2>8 DEF Promise!Mint, Owed, In
    <2> QED
      BY <2>2, <2>9 DEF Promise!Next
  <1>6. CASE \E ttl \in TTLRequests, c \in Codes : IssueDraw(Admin, ttl, c)
    <2>1. \A j \in Joiners : call'[j].pc = call[j].pc
      BY <1>1, <1>6 DEF IssueDraw
    <2>2. DOMAIN codes' \subseteq DOMAIN codes
      BY <1>6 DEF IssueDraw
    <2> QED
      BY <1>3, <1>4, <2>1, <2>2, NobodyPays DEF Promise!Next
  <1>7. CASE \E i \in Incarnations : RestartAs(i)
    <2>1. Restart
      BY <1>7 DEF RestartAs
    <2>2. \A j \in Joiners : call'[j].pc = "idle"
      BY <1>1, <2>1 DEF Restart, IdleCall
    <2>3. \A j \in Joiners : (Owed(j)' => Owed(j)) /\ (In(j)' <=> In(j))
      BY <1>2, <1>3, <2>2 DEF Owed, Waiting
    <2>4. DOMAIN codes' = {}
      BY <1>1, <2>1, RestartType
    <2>5. Promise!Forget
      BY <2>3, <2>4 DEF Promise!Forget, Owed, In
    <2> QED
      BY <2>5 DEF Promise!Next
  <1>8. CASE Tick
    <2>1. ASSUME NEW j \in Joiners
          PROVE  call'[j].pc = call[j].pc
      <3>1. CASE call[j].pc = "issuing"
        <4>1. call[j] \in [pc : {"issuing"}, code : Codes, left : CodeTimeLeft]
          BY <1>1, <2>1, <3>1, CallShape
        <4>2. call'[j] = [call[j] EXCEPT !.left = Elapse(@)]
          BY <1>1, <1>8, <2>1, <3>1 DEF Tick
        <4> QED
          BY <4>1, <4>2
      <3>2. CASE call[j].pc # "issuing"
        BY <1>1, <1>8, <2>1, <3>2 DEF Tick
      <3> QED
        BY <3>1, <3>2
    <2>2. DOMAIN codes' \subseteq DOMAIN codes
      BY <1>1, <1>8, TickType
    <2> QED
      BY <1>3, <1>4, <2>1, <2>2, NobodyPays DEF Promise!Next
  <1> QED
    BY <1>5, <1>6, <1>7, <1>8 DEF ServeAdmin

LEMMA PromiseStep ==
    ASSUME PInv, [PairingNext]_pairingVars
    PROVE  [Promise!Next]_(Promise!enrolmentVars)
  <1>1. CASE UNCHANGED pairingVars
    <2>1. UNCHANGED <<codes, call, joiner, wire>>
      BY <1>1 DEF pairingVars, vars
    <2>2. \A j \in Joiners : (Owed(j)' <=> Owed(j)) /\ (In(j)' <=> In(j))
      BY <2>1 DEF Owed, In, Waiting
    <2>3. DOMAIN codes' \subseteq DOMAIN codes
      BY <2>1
    <2> QED
      BY <2>2, <2>3, NobodyPays DEF Promise!Next
  <1>2. ASSUME NEW j \in Joiners,
               \/ \E addr \in Addrs, code \in Codes \cup {NoCode} : JoinStart(j, addr, code)
               \/ BeginReturns(j) \/ CompleteReturns(j) \/ GiveUp(j)
        PROVE  Promise!Next
    BY <1>2, JoinerStepPromise DEF Promise!Next
  <1>3. ASSUME NEW j \in Joiners, ServeBegin(j) \/ ServeComplete(j)
        PROVE  Promise!Next
    BY <1>3, ServeStepPromise DEF Promise!Next
  <1> QED
    BY <1>1, <1>2, <1>3, FinishStepPromise, CoordinatorStepPromise DEF PairingNext

\* Joiners and coordinator implement Enrolment, whatever is lost, delayed, refused
\* or restarted: every member has spent a live code that nobody else spent.
THEOREM PairingImplementsEnrolment == PairingSpec => ImplementsEnrolment
  <1>1. PairingInit => Promise!Init
    BY SMTT(30), EmptyType DEF PairingInit, Init, Promise!Init, Waiting
  <1>2. PInv /\ [PairingNext]_pairingVars => [Promise!Next]_(Promise!enrolmentVars)
    BY PromiseStep
  <1> QED
    BY <1>1, <1>2, ProtocolInvariance, PTL DEF PairingSpec, ImplementsEnrolment, Promise!Spec
=============================================================================
