------------------------------ MODULE Pairing ------------------------------
(***************************************************************************)
(* The pairing protocol between joiners (internal/pairing/client.go) and   *)
(* the coordinator: the Pairer behind the PairingService, as in the module *)
(* Pairer, with the certificates of the module PKI.                        *)
(*                                                                         *)
(* Requests and answers take any time or get lost, a joiner gives up when  *)
(* its 30 seconds are over, and the coordinator restarts, possibly after   *)
(* `meshctl init --force` made another CA of the same mesh name.  As meshd *)
(* reads the directory twice, it may serve with a certificate of one       *)
(* generation and sign with the CA of another.                             *)
(*                                                                         *)
(* A joiner makes one attempt, so it also names the goroutine that serves  *)
(* its RPCs and the session that Begin draws for it.  Nothing expires      *)
(* here but codes and sessions: the instant is 0 for certificates.         *)
(***************************************************************************)
EXTENDS Pairer, PKI, Sequences

CONSTANTS Joiners,      \* attempts to join
          Admin,        \* the goroutine that serves CreatePairingCode
          NodeID,       \* NodeID[j]: the node_id that j joins as
          Addrs,        \* addresses, cut at their colons; all reach the coordinator
          Generations,  \* executions of meshctl init, numbered in their order
          Mesh,         \* the mesh id, the same in every generation
          Coordinator,  \* the coordinator's node_id
          NodeTTL       \* DefaultNodeCertTTL

ASSUME PairingAssumption ==
    /\ Callers = Joiners \cup {Admin} /\ Admin \notin Joiners
    /\ SessionIDs = Joiners
    /\ {NodeID[j] : j \in Joiners} \cup {Coordinator} \subseteq ValidNames
    /\ NoPrincipal \notin [mesh : {Mesh}, role : Roles,
                            name : {NodeID[j] : j \in Joiners} \cup {Coordinator}]
    /\ NodeTTL \in Nat \ {0} /\ Generations \subseteq Nat

VARIABLES inc,     \* the coordinator: generation it serves and signs with
          joiner,  \* joiner[j]: where Join is
          req,     \* req[j]: the request of j under way
          wire     \* wire[j]: the answer to j under way

pairingVars == <<vars, inc, joiner, req, wire>>

\* meshd reads its identity before the CA, and init writes the CA first.
Incarnations == {i \in [ident : Generations, signs : Generations] : i.ident <= i.signs}

\* The CA and the coordinator's identity that a generation made.
CAOf(g) == NewCA(Mesh, <<"ca", g>>, 0)

CoordinatorID(g) ==
    Identity(CAOf(g), Sign(CAOf(g), Principal(Mesh, "node", Coordinator),
                           <<"coordinator", g>>, NodeTTL, 0), <<"coordinator", g>>)

\* The messages of lcm.v1.PairingService.  A session id, its salt and the joiner are
\* one; a MAC is what it was made from, and an answer carries the certificate that
\* the connection showed.
BeginPairingRequest == [kind |-> "begin"]

BeginPairingResponse(i) == [kind |-> "session", ident |-> i.ident]

CompletePairingRequest(code, seen) == [kind |-> "complete", code |-> code, seen |-> seen]

CompletePairingResponse(code, i) ==
    [kind |-> "bundle", code |-> code, ident |-> i.ident, signs |-> i.signs]

Status == [kind |-> "error"]

NoRequest == [kind |-> "none"]

NoAnswer == [kind |-> "none"]

\* Join waits for the answer to an RPC.
Waiting(j) == joiner[j].pc \in {"begin", "complete"}

PairingInit ==
    /\ Init
    /\ inc \in Incarnations
    /\ joiner = [j \in Joiners |-> [pc |-> "new", code |-> NoCode, seen |-> inc.ident,
                                    from |-> inc, addr |-> <<>>, err |-> "none"]]
    /\ req = [j \in Joiners |-> NoRequest]
    /\ wire = [j \in Joiners |-> NoAnswer]

-----------------------------------------------------------------------------
(***************************************************************************)
(* The joiner.                                                             *)
(***************************************************************************)

\* The generated client sends a request.
Invoke(j, request) == req' = [req EXCEPT ![j] = request]

CSR(j) == <<NodeID[j], <<"node", j>>>>

\* Join up to the first RPC.  NoCode stands for an input that is refused: a code that
\* has not the shape of one, or an address that grpc.NewClient does not take.
JoinStart(j, addr, code) ==
    /\ joiner[j].pc = "new"
    /\ IF code = NoCode
       THEN /\ joiner' = [joiner EXCEPT ![j].pc = "failed", ![j].err = "ErrInput"]
            /\ UNCHANGED req
       ELSE /\ joiner' = [joiner EXCEPT ![j].pc = "begin", ![j].code = code,
                                          ![j].addr = addr]
            /\ Invoke(j, BeginPairingRequest)
    /\ UNCHANGED <<vars, inc, wire>>

\* The answer to Begin: the MAC is made for the certificate of this connection.
BeginReturns(j) ==
    /\ joiner[j].pc = "begin"
    /\ wire[j].kind = "session"
    /\ joiner' = [joiner EXCEPT ![j].pc = "complete", ![j].seen = wire[j].ident]
    /\ Invoke(j, CompletePairingRequest(joiner[j].code, wire[j].ident))
    /\ wire' = [wire EXCEPT ![j] = NoAnswer]
    /\ UNCHANGED <<vars, inc>>

\* The bundle that the coordinator sends: what Complete signed, under the key
\* derived from the code that matched.
NodeCert(j, g) ==
    Sign(CAOf(g), Principal(CAOf(g).mesh, "node", CSR(j)[1]), CSR(j)[2], NodeTTL, 0)

\* CoordinatorGrpcAddr, ":" and a port; the joiner knows the host.
GrpcAddr == <<"", "grpc">>

Bundle(j, a) ==
    [ca |-> CAOf(a.signs), cert |-> NodeCert(j, a.signs), mesh |-> CAOf(a.signs).mesh,
     mac |-> ServerMAC(DeriveKey(a.code, j), j, CAOf(a.signs), NodeCert(j, a.signs)),
     addr |-> GrpcAddr]

\* Mutant: Join does not look at the certificate of the pairing listener again.
JoinErrorTrusting(j, a) ==
    LET b == Bundle(j, a)
    IN  VerifyBundleError(DeriveKey(joiner[j].code, j), j, b, NodeID[j], 0)

\* Mutant: the name in the certificate is compared with the coordinator's.
JoinErrorMisnamed(j, a) ==
    LET b == Bundle(j, a)
    IN  VerifyBundleError(DeriveKey(joiner[j].code, j), j, b, Coordinator, 0)

\* net.SplitHostPort: one colon, or one outside the brackets, whose content is a part.
SplitsHostPort(addr) == Len(addr) = 2

\* Join's checks of the answer a to Complete, in order.  The address that Join was
\* given is parsed last, when the code is spent and the certificate signed.
JoinError(j, a) ==
    LET b       == Bundle(j, a)
        seen    == CoordinatorID(joiner[j].seen).cert
        checked == VerifyBundleError(DeriveKey(joiner[j].code, j), j, b, NodeID[j], 0)
    IN  IF CoordinatorID(a.ident).cert # seen THEN "ErrServerCertChanged"
        ELSE IF checked # "none" THEN checked
        ELSE IF b.cert.key # <<"node", j>> THEN "ErrKeyMismatch"
        ELSE IF VerifyError(b.ca, seen, 0) # "none" THEN VerifyError(b.ca, seen, 0)
        ELSE IF seen.principal.role # "node" \/ seen.principal.name # Coordinator
             THEN "ErrNotCoordinator"
        ELSE IF ~SplitsHostPort(joiner[j].addr) THEN "ErrBadAddr"
        ELSE IF ~SplitsHostPort(b.addr) THEN "ErrBadCoordinatorAddr"
        ELSE "none"

\* The answer to Complete.
CompleteReturns(j) ==
    /\ joiner[j].pc = "complete"
    /\ wire[j].kind = "bundle"
    /\ joiner' = [joiner EXCEPT
                     ![j].pc = IF JoinError(j, wire[j]) = "none" THEN "joined" ELSE "failed",
                     ![j].err = JoinError(j, wire[j]),
                     ![j].from = [ident |-> wire[j].ident, signs |-> wire[j].signs]]
    /\ wire' = [wire EXCEPT ![j] = NoAnswer]
    /\ UNCHANGED <<vars, inc, req>>

\* Mutant: the answer to Complete is waited for without end.
GiveUpBeginning(j) ==
    /\ joiner[j].pc = "begin"
    /\ joiner' = [joiner EXCEPT ![j].pc = "failed", ![j].err = "ErrRPC"]
    /\ wire' = [wire EXCEPT ![j] = NoAnswer]
    /\ UNCHANGED <<vars, inc, req>>

\* An RPC fails: with a status, by the deadline, or with the connection.
GiveUp(j) ==
    /\ Waiting(j)
    /\ joiner' = [joiner EXCEPT ![j].pc = "failed", ![j].err = "ErrRPC"]
    /\ wire' = [wire EXCEPT ![j] = NoAnswer]
    /\ UNCHANGED <<vars, inc, req>>

-----------------------------------------------------------------------------
(***************************************************************************)
(* The coordinator.  An answer to a joiner that has gone is dropped; a     *)
(* status other than OK makes the joiner give up.                          *)
(***************************************************************************)

Respond(j, a) == wire' = [wire EXCEPT ![j] = IF Waiting(j) THEN a ELSE NoAnswer]

\* The generated handler of a method takes the request up.
Take(j, kind) == req[j].kind = kind /\ req' = [req EXCEPT ![j] = NoRequest]

ServeBegin(j) ==
    /\ Take(j, "begin")
    /\ \/ Begin(j, j) /\ Respond(j, BeginPairingResponse(inc))
       \/ BeginRefused(j) /\ Respond(j, Status)
    /\ UNCHANGED <<inc, joiner>>

\* The code under which the request's MAC verifies at this coordinator.
Matching(j, r) ==
    LET MAC(g) == ClientMAC(DeriveKey(r.code, j), j, CertHash(CoordinatorID(g).cert), CSR(j))
    IN  IF MAC(r.seen) = MAC(inc.ident) THEN r.code ELSE NoCode

ServeComplete(j) ==
    /\ Take(j, "complete")
    /\ \/ CompleteRefused(j, j) /\ Respond(j, Status)
       \/ CompleteLookup(j, j, Matching(j, req[j])) /\ UNCHANGED wire
    /\ UNCHANGED <<inc, joiner>>

\* The rest of Complete: it fails, consumes the code, or signs and answers.
FinishComplete(j) ==
    /\ \/ (CompleteMismatch(j) \/ CompleteRaced(j)) /\ Respond(j, Status)
       \/ CompleteConsume(j) /\ UNCHANGED wire
       \/ /\ CompleteSign(j, "wellFormed")
          /\ Respond(j, CompletePairingResponse(call[j].code, inc))
    /\ UNCHANGED <<inc, joiner, req>>

\* CreatePairingCode for an administrator.
ServeAdmin ==
    /\ \/ IssueStore(Admin)
       \/ \E ttl \in TTLRequests, c \in Codes : IssueDraw(Admin, ttl, c)
    /\ UNCHANGED <<inc, joiner, req, wire>>

\* meshd restarts, from the directory as it was or as a later init left it.  Requests
\* that it has not seen may reach its successor.
RestartAs(i) ==
    /\ Restart
    /\ inc.signs <= i.ident
    /\ inc' = i
    /\ UNCHANGED <<joiner, req, wire>>

PairingNext ==
    \/ \E j \in Joiners :
          \/ \E addr \in Addrs, code \in Codes \cup {NoCode} : JoinStart(j, addr, code)
          \/ BeginReturns(j) \/ CompleteReturns(j) \/ GiveUp(j)
          \/ ServeBegin(j) \/ ServeComplete(j) \/ FinishComplete(j)
    \/ ServeAdmin
    \/ \E i \in Incarnations : RestartAs(i)
    \/ Tick /\ UNCHANGED <<inc, joiner, req, wire>>

\* The context of cmdJoin ends after 30 seconds; nothing else is certain.
PairingSpec ==
    /\ PairingInit /\ [][PairingNext]_pairingVars
    /\ \A j \in Joiners : WF_pairingVars(GiveUp(j))

-----------------------------------------------------------------------------
(***************************************************************************)
(* Properties.                                                             *)
(***************************************************************************)

\* The identity that a joiner takes away.
Joined(j) == Identity(CAOf(joiner[j].from.signs), NodeCert(j, joiner[j].from.signs),
                      <<"node", j>>)

\* A node that joined can talk to the coordinator that it joined at, and the
\* coordinator to it: the identity loads and both handshakes succeed, also when
\* init --force, restarts and a coordinator that signs with another CA than it
\* serves with came in between.
JoinedCanTalk ==
    \A j \in Joiners :
        joiner[j].pc = "joined" =>
            LET me    == Joined(j)
                coord == CoordinatorID(joiner[j].from.ident)
            IN  /\ IdentityError(me.ca, me.cert, me.key, 0) = "none"
                /\ ClientAccepts(me, Coordinator, coord.cert, 0)
                /\ ServerAccepts(coord, me.cert, 0)
                /\ ClientAccepts(coord, NodeID[j], me.cert, 0)

\* Join's checks refuse no honest answer: an answer that arrives, for which a code was
\* spent, is only refused if the coordinator serves and signs with different
\* generations, or if Join was given an address that is not host:port.
HonestAnswerAccepted ==
    \A j \in Joiners :
        joiner[j].err \notin {"none", "ErrRPC", "ErrInput"} =>
            \/ joiner[j].from.ident # joiner[j].from.signs
            \/ ~SplitsHostPort(joiner[j].addr)

\* Join returns, whatever happens to its messages and to the coordinator.
JoinReturns ==
    \A j \in Joiners : Waiting(j) ~> (joiner[j].pc \in {"joined", "failed"})

Promise == INSTANCE Enrolment WITH
    live    <- DOMAIN codes,
    paid    <- {j \in Joiners : /\ Waiting(j)
                                /\ call[j].pc = "signing" \/ wire[j].kind = "bundle"},
    members <- {j \in Joiners : joiner[j].pc = "joined"}

\* Joiners and coordinator together keep the promise of pairing: whoever is in has
\* spent a live code, nobody else spent the same one, and an answer that is lost or
\* refused makes no member.
ImplementsEnrolment == Promise!Spec
=============================================================================
