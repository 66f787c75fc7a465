-------------------------------- MODULE PKI --------------------------------
(***************************************************************************)
(* Certificates as the code uses them: what internal/pki/ca.go issues and  *)
(* verifies, the MACs and the joiner's check of internal/pki/pairing.go,   *)
(* and the two ends of a TLS handshake of internal/transport/grpc_mtls.go. *)
(*                                                                         *)
(* A signature is who made it and over what, a hash is its argument, a key *)
(* pair is its name; what the code compares is kept.  An operator named    *)
(* ...Error is the error a function returns, "none" when there is none.    *)
(***************************************************************************)
EXTENDS Integers

CONSTANTS ValidNames,  \* the strings validateLabel accepts
          NoPrincipal, \* a certificate without an lcm:// URI
          CACertTTL,   \* lifetime of a CA
          Backdate     \* how long before its issue a certificate is valid

ASSUME PKIAssumption == CACertTTL \in Nat \ {0} /\ Backdate \in Nat

Roles == {"node", "admin"}

Principal(mesh, role, name) == [mesh |-> mesh, role |-> role, name |-> name]

-----------------------------------------------------------------------------
(***************************************************************************)
(* Issuing.                                                                *)
(***************************************************************************)

\* NewCA.  The mesh is the certificate's organization; there is no lcm:// URI.
NewCA(mesh, key, now) ==
    [issuer |-> key, key |-> key, isCA |-> TRUE, mesh |-> mesh,
     principal |-> NoPrincipal, dns |-> {},
     from |-> now - Backdate, until |-> now + CACertTTL]

\* LoadCA: the certificate is a CA's and the key is its key.
LoadCAError(cert, key) ==
    IF ~cert.isCA THEN "ErrNotCA"
    ELSE IF cert.key # key THEN "ErrKeyMismatch" ELSE "none"

SignError(ca, p, ttl) ==
    IF p.mesh # ca.mesh THEN "ErrMeshMismatch"
    ELSE IF p.name \notin ValidNames THEN "ErrInvalidNodeID"
    ELSE IF p.role \notin Roles THEN "ErrBadPrincipal"
    ELSE IF ttl <= 0 THEN "ErrTTL" ELSE "none"

\* Sign, once SignError is "none".  Only a node's certificate carries a DNS name;
\* the lifetime is the one asked for, also when the CA does not live that long.
Sign(ca, p, key, ttl, now) ==
    [issuer |-> ca.key, key |-> key, isCA |-> FALSE, mesh |-> p.mesh,
     principal |-> p, dns |-> IF p.role = "node" THEN {p.name} ELSE {},
     from |-> now - Backdate, until |-> now + ttl]

-----------------------------------------------------------------------------
(***************************************************************************)
(* Verifying.                                                              *)
(***************************************************************************)

ValidAt(cert, now) == cert.from <= now /\ now <= cert.until

\* x509.Certificate.Verify with one root: the root vouches for itself and for what
\* it signed, and every certificate of the chain is in its lifetime.
ChainsTo(ca, leaf, now) ==
    /\ leaf = ca \/ (ca.isCA /\ leaf.issuer = ca.key)
    /\ ValidAt(leaf, now) /\ ValidAt(ca, now)

\* VerifyAgainst; the principal it returns is leaf.principal.
VerifyError(ca, leaf, now) ==
    IF ~ChainsTo(ca, leaf, now) THEN "ErrVerify"
    ELSE IF leaf.principal = NoPrincipal THEN "ErrNoMeshURI"
    ELSE IF leaf.principal.mesh # ca.mesh THEN "ErrMeshMismatch" ELSE "none"

\* transport.NewIdentity.
IdentityError(ca, cert, key, now) ==
    IF cert.key # key THEN "ErrKeyMismatch" ELSE VerifyError(ca, cert, now)

Identity(ca, cert, key) == [ca |-> ca, cert |-> cert, key |-> key]

\* Identity.verifyPeer, the hook that pins the mesh.
verifyPeer(id, cert) ==
    cert.principal # NoPrincipal /\ cert.principal.mesh = id.cert.principal.mesh

\* The server's half of the handshake under ServerTLS: a client certificate that
\* chains to the mesh CA.
ServerAccepts(id, cert, now) == ChainsTo(id.ca, cert, now) /\ verifyPeer(id, cert)

\* The client's half under ClientTLS: the same, and the name it dialled.
ClientAccepts(id, serverNodeID, cert, now) ==
    /\ ChainsTo(id.ca, cert, now)
    /\ serverNodeID \in cert.dns
    /\ verifyPeer(id, cert)

-----------------------------------------------------------------------------
(***************************************************************************)
(* The pairing MACs.  Their inputs have fixed lengths or delimit           *)
(* themselves, so equal MACs have equal inputs.                            *)
(***************************************************************************)

DeriveKey(code, salt) == <<"argon2id", code, salt>>

CertHash(cert) == cert

ClientMAC(key, sid, serverHash, csr) == <<"client", key, sid, serverHash, csr>>

ServerMAC(key, sid, ca, leaf) == <<"server", key, sid, ca, leaf>>

\* VerifyBundle, the joiner's check of what Complete returned.
VerifyBundleError(key, sid, b, nodeID, now) ==
    IF ServerMAC(key, sid, b.ca, b.cert) # b.mac THEN "ErrBadMAC"
    ELSE IF VerifyError(b.ca, b.cert, now) # "none" THEN VerifyError(b.ca, b.cert, now)
    ELSE IF b.cert.principal.role # "node" \/ b.cert.principal.name # nodeID
         THEN "ErrWrongNode"
    ELSE IF b.mesh # b.cert.principal.mesh THEN "ErrMeshMismatch" ELSE "none"
=============================================================================
