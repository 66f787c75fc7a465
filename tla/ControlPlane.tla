---------------------------- MODULE ControlPlane ----------------------------
(***************************************************************************)
(* The mutual-TLS control plane: meshd's gRPC server with its role guard   *)
(* (internal/transport/grpc_mtls.go), the admin service behind it          *)
(* (internal/coordinator/admin.go and the generated handler), and its      *)
(* callers, `meshctl pair` first among them (cmd/meshctl/main.go).         *)
(*                                                                         *)
(* `meshctl init` makes a generation of credentials; with --force it makes *)
(* another one while a meshd started from the last is still running.       *)
(* Certificates age, daemons restart, answers get lost.  What Issue does   *)
(* with the lifetime it is given is modelled in Pairer.                    *)
(***************************************************************************)
EXTENDS PKI, Sequences, SequencesExt

CONSTANTS Clients,      \* processes that call the server
          Mesh,         \* --mesh-id, the same at every init
          NodeName, AdminName, MemberName,
          NodeTTL, AdminTTL, \* lifetimes of the certificates
          Durations,    \* --ttl of meshctl pair, in half seconds
          Width,        \* 2^32: what a uint32 holds
          CodeTTL,      \* pki.DefaultCodeTTL, in seconds
          MaxCodeTTL,   \* coordinator.MaxPairingCodeTTL
          MaxInits,     \* bound: executions of meshctl init
          Horizon       \* bound: how long the clock runs

ASSUME ControlPlaneAssumption ==
    /\ {NodeName, AdminName, MemberName} \subseteq ValidNames
    /\ NoPrincipal \notin [mesh : {Mesh}, role : Roles,
                            name : {NodeName, AdminName, MemberName}]
    /\ NodeTTL \in Nat \ {0} /\ AdminTTL \in Nat \ {0}
    /\ Durations \subseteq Int /\ Width \in Nat \ {0}
    /\ CodeTTL \in Nat \ {0} /\ MaxCodeTTL \in Nat /\ CodeTTL <= MaxCodeTTL
    /\ MaxInits \in Nat \ {0} /\ Horizon \in Nat

VARIABLES now,
          inits,    \* inits[k]: what the k-th init left in the data directory
          member,   \* the identity of the node that joined last, if any
          server,   \* the running meshd: its generation and role
          call      \* call[c]: the RPC that client c is making

vars == <<now, inits, member, server, call>>

Down == [up |-> FALSE, gen |-> 1, coordinator |-> FALSE]

\* The state of a call: who calls what with which lifetime, what was sent, the
\* handshake's time and server, and the outcome.
NoCall == [pc |-> "idle", id |-> 0, method |-> "none", ttl |-> 0, seconds |-> 0,
           at |-> 0, gen |-> 0, reply |-> "none", granted |-> 0]

-----------------------------------------------------------------------------
(***************************************************************************)
(* Credentials.                                                            *)
(***************************************************************************)

\* What cmdInit signs: the CA, the coordinator's node and the administrator.
Generation(k, t) ==
    LET ca == NewCA(Mesh, <<"ca", k>>, t)
    IN  [ca    |-> ca,
         node  |-> Identity(ca, Sign(ca, Principal(Mesh, "node", NodeName),
                                     <<"node", k>>, NodeTTL, t), <<"node", k>>),
         admin |-> Identity(ca, Sign(ca, Principal(Mesh, "admin", AdminName),
                                     <<"admin", k>>, AdminTTL, t), <<"admin", k>>)]

Dir == inits[Len(inits)]

Init ==
    /\ now = 0
    /\ inits = <<Generation(1, 0)>>
    /\ member = {}
    /\ server = Down
    /\ call = [c \in Clients |-> NoCall]

\* meshctl init --force on the coordinator's directory.
Reinit ==
    /\ Len(inits) < MaxInits
    /\ inits' = Append(inits, Generation(Len(inits) + 1, now))
    /\ UNCHANGED <<now, member, server, call>>

\* A node pairs with the running coordinator, which signs with its generation's CA.
Enrol ==
    /\ server.up /\ server.coordinator
    /\ LET ca == inits[server.gen].ca
           p  == Principal(Mesh, "node", MemberName)
       IN  /\ SignError(ca, p, NodeTTL) = "none"
           /\ member' = {Identity(ca, Sign(ca, p, <<"member", server.gen>>, NodeTTL, now),
                                  <<"member", server.gen>>)}
    /\ UNCHANGED <<now, inits, server, call>>

\* LoadIdentity succeeds: the files are of one generation, the certificate is valid.
LoadIdentity(id) == IdentityError(id.ca, id.cert, id.key, now) = "none"

\* meshd starts from what the directory holds.
Start(coordinator) ==
    /\ ~server.up
    /\ LoadIdentity(Dir.node)
    /\ coordinator => LoadCAError(Dir.ca, <<"ca", Len(inits)>>) = "none"
    /\ server' = [up |-> TRUE, gen |-> Len(inits), coordinator |-> coordinator]
    /\ UNCHANGED <<now, inits, member, call>>

\* meshd ends.  A call that was not answered fails (GiveUp) or is taken up by a
\* new connection, with a handshake of its own.
Stop ==
    /\ server.up
    /\ server' = Down
    /\ call' = [c \in Clients |-> IF call[c].pc = "connected"
                                  THEN [call[c] EXCEPT !.pc = "dialling"] ELSE call[c]]
    /\ UNCHANGED <<now, inits, member>>

Tick ==
    /\ now < Horizon
    /\ now' = now + 1
    /\ UNCHANGED <<inits, member, server, call>>

-----------------------------------------------------------------------------
(***************************************************************************)
(* The client.                                                             *)
(***************************************************************************)

\* time.Duration.Seconds, cut to whole seconds: half seconds, towards zero.
Seconds(ttl) == IF ttl >= 0 THEN ttl \div 2 ELSE -((-ttl) \div 2)

\* time.Duration.Round(time.Second): halves are rounded away from zero.
Round(ttl) == IF ttl >= 0 THEN (ttl + 1) \div 2 ELSE -((1 - ttl) \div 2)

\* uint32(x): Go leaves a value out of range to the machine, which either drops the
\* high bits or stops at the nearest value.
ToUint32(x) ==
    IF x \in 0 .. (Width - 1) THEN {x}
    ELSE {x % Width, IF x < 0 THEN 0 ELSE Width - 1}

CanBegin(c) == call[c].pc \in {"idle", "done", "failed"}

\* Identity.Dial and the generated client: nothing is sent before the first RPC.
Dial(id, method, seconds) ==
    [NoCall EXCEPT !.pc = "dialling", !.id = id, !.method = method, !.seconds = seconds]

\* meshctl pair: the identity is the directory's administrator.
Pair(c, ttl) ==
    /\ CanBegin(c)
    /\ LoadIdentity(Dir.admin)
    /\ \E s \in ToUint32(Seconds(ttl)) :
          call' = [call EXCEPT ![c] =
                      [Dial(Dir.admin, "CreatePairingCode", s) EXCEPT !.ttl = ttl]]
    /\ UNCHANGED <<now, inits, member, server>>

\* A node of the mesh calls a service through Identity.Dial.
Call(c, id, method) ==
    /\ CanBegin(c)
    /\ LoadIdentity(id)
    /\ call' = [call EXCEPT ![c] = Dial(id, method, 0)]
    /\ UNCHANGED <<now, inits, member, server>>

\* The TLS handshake on the first RPC; either end may refuse the other.
Handshake(c) ==
    /\ call[c].pc = "dialling"
    /\ server.up
    /\ LET own == inits[server.gen].node
           ok  == /\ ClientAccepts(call[c].id, NodeName, own.cert, now)
                  /\ ServerAccepts(own, call[c].id.cert, now)
       IN  call' = [call EXCEPT ![c].pc = IF ok THEN "connected" ELSE "failed",
                                ![c].at = now, ![c].gen = server.gen]
    /\ UNCHANGED <<now, inits, member, server>>

-----------------------------------------------------------------------------
(***************************************************************************)
(* The server.                                                             *)
(***************************************************************************)

\* The service a method belongs to, and its full name as a sequence of parts.
Service(method) ==
    IF method = "CreatePairingCode" THEN "lcm.v1.AdminService" ELSE "grpc.health.v1.Health"

FullMethod(method) == <<"/", Service(method), "/", method>>

\* The services a meshd registers: health always, the admin service on a coordinator.
Registered(method) == Service(method) = "grpc.health.v1.Health" \/ server.coordinator

\* Mutant: the leading slash is forgotten, and no method matches.
AdminServicePrefixBare == <<"lcm.v1.AdminService", "/">>

\* Mutant: the prefix ends before the name of the service.
AdminServicePrefixShort == <<"/">>

AdminServicePrefix == <<"/", "lcm.v1.AdminService", "/">>

\* The check that RequireRole returns; p is PeerPrincipal.
RequireRole(methodPrefix, roles, p, method) ==
    IF ~IsPrefix(methodPrefix, FullMethod(method)) THEN "none"
    ELSE IF p = NoPrincipal THEN "Unauthenticated"
    ELSE IF p.role \notin roles THEN "PermissionDenied" ELSE "none"

\* AdminInterceptors, which a coordinator installs.
AdminInterceptors(p, method) ==
    IF server.coordinator THEN RequireRole(AdminServicePrefix, {"admin"}, p, method)
    ELSE "none"

\* CreatePairingCode: zero asks for the default, 0 stands for a refusal.
Grant(seconds) ==
    IF seconds > MaxCodeTTL THEN 0 ELSE IF seconds = 0 THEN CodeTTL ELSE seconds

Answer(c, reply, granted) ==
    /\ call' = [call EXCEPT ![c].pc = "answered", ![c].reply = reply,
                            ![c].granted = granted]
    /\ UNCHANGED <<now, inits, member, server>>

\* A request reaches the server: the service is looked up, the interceptor asked,
\* the handler run.
Serve(c) ==
    /\ call[c].pc = "connected"
    /\ LET method == call[c].method
           denied == AdminInterceptors(call[c].id.cert.principal, method)
       IN  \/ /\ ~Registered(method)
              /\ Answer(c, "Unimplemented", 0)
           \/ /\ Registered(method) /\ denied # "none"
              /\ Answer(c, denied, 0)
           \/ /\ Registered(method) /\ denied = "none" /\ method = "Check"
              /\ Answer(c, "SERVING", 0)
           \/ /\ Registered(method) /\ denied = "none" /\ method = "CreatePairingCode"
              /\ Answer(c, IF Grant(call[c].seconds) = 0 THEN "InvalidArgument" ELSE "OK",
                        Grant(call[c].seconds))

\* The answer arrives; meshctl pair prints the code and Round(ttl), or the error.
Return(c) ==
    /\ call[c].pc = "answered"
    /\ call' = [call EXCEPT ![c].pc = IF call[c].reply \in {"OK", "SERVING"}
                                      THEN "done" ELSE "failed"]
    /\ UNCHANGED <<now, inits, member, server>>

\* Mutant: the deadline covers the dialling only.
GiveUpDialling(c) ==
    /\ call[c].pc = "dialling"
    /\ call' = [call EXCEPT ![c].pc = "failed"]
    /\ UNCHANGED <<now, inits, member, server>>

\* Five seconds are over, or the connection is: whatever the server did stays done.
GiveUp(c) ==
    /\ call[c].pc \in {"dialling", "connected", "answered"}
    /\ call' = [call EXCEPT ![c].pc = "failed"]
    /\ UNCHANGED <<now, inits, member, server>>

Next ==
    \/ Reinit \/ Enrol \/ Stop \/ Tick
    \/ \E coordinator \in BOOLEAN : Start(coordinator)
    \/ \E c \in Clients :
          \/ \E ttl \in Durations : Pair(c, ttl)
          \/ \E id \in member \cup {Dir.node}, method \in {"CreatePairingCode", "Check"} :
                Call(c, id, method)
          \/ Handshake(c) \/ Serve(c) \/ Return(c) \/ GiveUp(c)

\* The deadline of a call comes; nothing else is certain.
Spec == Init /\ [][Next]_vars /\ \A c \in Clients : WF_vars(GiveUp(c))

-----------------------------------------------------------------------------
(***************************************************************************)
(* Properties.                                                             *)
(***************************************************************************)

\* A code is minted only for an administrator of the very init whose credentials
\* the coordinator runs with, whose certificate was valid at the handshake: not for
\* nodes of the mesh, nor for the administrator of an older or newer init of a mesh
\* of the same name (ServerTLS, RequireRole and the handler together).
MintedForOwnAdmin ==
    \A c \in Clients :
        call[c].granted # 0 =>
            /\ call[c].id.cert.principal.role = "admin"
            /\ call[c].id.ca = inits[call[c].gen].ca
            /\ ValidAt(call[c].id.cert, call[c].at)

\* The prefix by which RequireRole tells methods apart selects the admin service and
\* nothing else: of the calls that reach a registered service it denies those to the
\* admin service by callers that are not administrators, all of them, and no other.
GuardIsExact ==
    \A c \in Clients :
        call[c].reply \notin {"none", "Unimplemented"} =>
            (call[c].reply = "PermissionDenied" <=>
                /\ Service(call[c].method) = "lcm.v1.AdminService"
                /\ call[c].id.cert.principal.role # "admin")

\* Whatever --ttl is given, below a second, negative or too large for the uint32 it
\* travels in, a code that is minted lives for a positive time within the maximum.
GrantedWithinBounds ==
    \A c \in Clients :
        call[c].reply = "OK" => call[c].granted \in 1 .. MaxCodeTTL

\* A call ends, although meshd may stop and start while it is under way.
CallsEnd ==
    \A c \in Clients : (call[c].pc = "dialling") ~> (call[c].pc \in {"done", "failed"})

-----------------------------------------------------------------------------
(***************************************************************************)
(* What the repository says and the code does not keep.                    *)
(***************************************************************************)

\* --ttl is "how long the code stays valid" (meshctl pair), and the line printed
\* with the code repeats it: the code lives for as long as was printed.
PrintedIsGranted ==
    \A c \in Clients :
        (call[c].pc = "done" /\ call[c].granted # 0) => Round(call[c].ttl) = call[c].granted
=============================================================================
