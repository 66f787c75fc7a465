# compute-mesh in TLA+

A verification development for compute-mesh: TLA+ modules translated from the Go
sources, TLC runs on small instances, and TLAPS proofs for every value of the
constants. Paths below are relative to the repository root.

## The system

A mesh is a set of machines that run `meshd`. One of them, the coordinator,
holds the mesh CA. `meshctl init` creates a mesh; `meshctl pair` asks the
coordinator for a short-lived code; `meshctl join --code` trades the code for a
node certificate; `meshd` then runs with that certificate and finds its peers
over mDNS.

| part | state | operations | interacts with | hard behaviour |
|---|---|---|---|---|
| pairing state machine (`internal/pki/pairing.go`) | active codes, open sessions, recent failures | `Issue`, `ActiveCodes`, `Begin`, `Complete`, `gcLocked` | admin service, pairing service | one goroutine per RPC; `Complete` drops the lock for Argon2 and again to sign; expiry during either |
| pairing service (`internal/pairing/server.go`) | the Pairer | `Begin`, `Complete` RPCs, `NewServer` | joiners | restart empties everything |
| admin service (`internal/coordinator/admin.go`) | none | `CreatePairingCode` | Pairer | ttl bounds |
| pairing client (`internal/pairing/client.go`) | one attempt | `Join`, `Persist` | pairing service, data directory | lost answers, timeouts, partial writes |
| discovery (`internal/discovery`) | peers map, event channel, loop goroutine | `Start`, `handleEntry`, `expire`, `emit`, `Stop`, `Peers`, `SetFingerprint` | zeroconf, meshd's event loop, `discoverCoordinator` | non-blocking sends, old ticks, shutdown |
| node identity (`internal/identity`) | the `node_id` file | `Set`, `LoadOrCreate` | meshctl | truncate-then-write, overlapping commands |
| credential files (`internal/pki/pem.go`) | six PEM files | `writeFile`, `ReadCert`, `ReadKey`, `ReadCA` | meshctl, meshd | several files, no transaction |
| certificates (`internal/pki/ca.go`) | none | `NewCA`, `LoadCA`, `Sign`, `SignCSR`, `VerifyAgainst` | all | two CAs of one mesh name, lifetimes |
| transport (`internal/transport`) | an identity | `LoadIdentity`, TLS configs, `RequireRole`, `Dial` | all | files read one by one, an identity that outlives its files |
| meshctl, meshd (`cmd/`) | processes | `init`, `pair`, `join`; start, event loop, shutdown | all | overlap, crash, signals, deferred calls, `--force` |

`proto/` is generated; only the handlers and stubs of the admin and pairing
services are used by the programs. Scheduler, gateway, telemetry, memberlist and coordinator
failover are described in `LCM_DESIGN.md` and have no code.

The properties wanted of the whole: a code buys at most one certificate, and only
while it is valid; sessions and failures stay within their limits and the limits
lift; every call is answered; the event stream and `Peers()` agree; silent peers
leave and live ones stay; shutdown completes; a data directory is never a mixture
of two identities, survives crashes, and keeps `node_id` and certificate
together; a node that joined and its coordinator can talk to each other; codes are
minted for administrators only; a daemon runs with what is on its disk and
advertises only what it serves; what one program prints, announces or signs,
another one reads as it was meant. `PROJECT.json` lists the hazards behind them, each at its line.

## Modules

| module | models |
|---|---|
| `Maps`, `Slices` | Go maps as partial functions; the loop that keeps some elements of a slice |
| `DataTheorems` | lemmas about both, and the induction over the naturals they rest on |
| `Pairer`, `PairerProofs` | the coordinator's pairing state machine with the RPCs that drive it |
| `CodeLedger` | what the Pairer promises about codes, without clock, locks or sessions |
| `PKI` | certificates, MACs and handshakes as operators; proofs in `PairingProofs` |
| `Pairing`, `PairingProofs` | the protocol: joiners, network and coordinator; composes `Pairer` and `PKI` |
| `Enrolment` | what pairing promises end to end |
| `ControlPlane`, `ControlPlaneProofs` | the mutual-TLS server, its role guard, the admin service and `meshctl pair`; uses `PKI` |
| `DataDir` | the data directory under overlapping, failing and crashing `init` and `join`; proofs in `MeshdProofs` |
| `Meshd`, `MeshdProofs` | the daemon from start to exit; composed with `DataDir` |
| `MDNS`, `MDNSProofs` | discovery, and meshd's event loop as its consumer |
| `Discover` | `discoverCoordinator`, the other consumer; extends `MDNS`, proofs in `MDNSProofs` |
| `Advert` | the TXT record and the configuration `NewMDNS` accepts; proofs in `WireProofs` |
| `Labels` | names: the two validators, generated node ids, principals in URIs; proofs in `WireProofs` |
| `Interfaces` | choice of interfaces and of the address to print or dial; proofs in `HostProofs` |
| `Formats` | pairing codes as digits, host names; proofs in `HostProofs` |
| `MC...` | small instances for TLC; `MCMeshd` takes the last four along |

Definitions named `...Unchecked`, `...Waits` and so on, marked *Mutant*, are
plausible bugs. They are not part of any specification: each one, put in place of
the definition that follows it, makes TLC refute the property it is meant for.

### Pairer

State: `codes`, `sessions` and `failures` are the fields of `pki.Pairer`; `call[g]`
is where goroutine `g` stands in its RPC; `reply` is what the last step returned;
`uses` is a history variable that counts how often a code was consumed since it
was last issued. A step is a critical section of `Pairer.mu` or the code between
two of them:

| action | code |
|---|---|
| `CreatePairingCodeRefused`, `IssueDraw` | `CreatePairingCode`, and `Issue` up to the lock: the expiry is fixed here |
| `IssueStore` | `Issue`'s critical section, collection included |
| `ActiveCodes` | `ActiveCodes` |
| `Begin`, `BeginRefused` | `Begin`; a refusal collects, too |
| `CompleteLookup`, `CompleteRefused` | first critical section of `Complete` |
| `CompleteMismatch`, `CompleteRaced`, `CompleteConsume` | second critical section |
| `CompleteSign` | the rest of `Complete`, unlocked |
| `Tick`, `Restart` | time; meshd stopped and started |

Time is relative: a code carries the time it has left, a failure its age, both
saturated where the code stops telling values apart. So time is unbounded while
the state space stays finite. Which code a request's MAC verifies under is the
parameter `guess` of `CompleteLookup`; Argon2 and HMAC are taken as injective. A
session id, 16 random bytes, is one nobody holds. A new code may coincide with an
active one, as in the source.

### MDNS

State: `peers` and `events` are the fields of `discovery.MDNS`; `pending` holds
the events that `handleEntry` or `expire` has still to emit after its critical
section; `tick` is the ticker's one-slot channel with the age of the tick in it;
`loop` and `main` are the two goroutines. `view` and `dropped` are history: what
the received events add up to, and whether one was lost. What a consumer will know of a
peer once it has read everything under way is decided by the last such event about that
peer or, if there is none, by `view` (`Knows`). An announcement is an
abstract `attr` (ports, fingerprint, host) and a list of addresses. zeroconf is
external: any announcement may come at any time or never come, and a list of
addresses repeats none. The unit of time is the sweep period, `ExpireAfter/3`; the
expiry threshold is a constant in that unit.

### DataDir

A *run* is one execution of `meshctl init` or `meshctl join` with its flags.
Credentials are identified by the run that made them, so a file is `Absent`,
`Torn` (exists and does not parse) or a run. Creating a file and filling it are
two steps, and `Crash` is possible between any two. `Loadable` is what
`LoadNodeIdentity` accepts: three files that parse, the certificate's key, a
certificate of the CA in `ca.crt`. `CALoadable` is what `ReadCA` accepts. Pairing
itself succeeds or fails (`MakeCredentials`). Generated names are distinct from
each other and from those an operator chooses.

A join that opens a file that is already there has paired before and spent its
code in vain; `CodeWastedOnlyAfterFailure` says when that can happen.

### PKI and Pairing

`PKI` keeps of a certificate what the code compares: issuer, key, mesh, principal,
DNS names and lifetime. A signature is who made it, a hash is its argument, a MAC is
its key and its arguments. `...Error` operators return the error of a Go function, in
the order of its checks.

`Pairing` puts joiners in front of the Pairer. `joiner[j]` is where `Join` stands;
`req[j]` and `wire[j]` are the request and the answer under way, either of which may
never arrive, since the joiner may give up at any time (`GiveUp`: a status, the
deadline of 30 s, a lost connection) and the coordinator may go on, or find the
joiner gone. `inc` is the running coordinator: the generation of `init` whose
certificate it serves with and the one whose CA it signs with. They can differ,
because meshd reads `ca.crt` twice and `NewServer` compares mesh names only; the CA is
then the later of the two, because meshd reads it second and `init` writes it first.
`RestartAs` takes up what the directory holds by then, which is never older; the
Pairer's memory is lost, a request not yet taken up reaches the successor.

An address is what lies between its colons. `Join` hands the one it was given to gRPC,
which also dials forms such as `dns:///host:port`, and parses it with
`net.SplitHostPort` only at its end: with such a form the code is spent and the
certificate signed when the join fails. `HonestAnswerAccepted` names this case.

| action | code |
|---|---|
| `JoinStart` | `Join` up to `Begin`; the format of the code and the address to dial |
| `BeginReturns` | the answer to `Begin`; MAC for the certificate seen |
| `CompleteReturns` | the checks of `Join` on the answer and both addresses, in their order (`JoinError`) |
| `ServeBegin`, `ServeComplete`, `FinishComplete` | the service's handlers: the Pairer's actions and the answer |
| `ServeAdmin`, `RestartAs`, `Tick` | code creation; restart; time |

The node_id that is signed is the `CommonName` of the CSR, which the MAC covers; the
request has no field of its own for it. (ADR 0002 says the CSR's subject is not trusted
and that `node_id` comes from the joiner's request.) The model follows the code.

### ControlPlane

`inits[k]` holds the CA, node and administrator that the k-th `meshctl init` made;
`server` is the running meshd with the generation it was started from, which is not
the last one after `init --force`. A call goes through dialling, handshake
(`ClientAccepts`, `ServerAccepts` at the current time), `Serve` (is the service
registered, do the `AdminInterceptors` let it pass, the handler) and `Return`. A method's
full name is a sequence of parts, and `RequireRole` compares its prefix as the code does,
so that a wrong `AdminServicePrefix` is a wrong guard. `GiveUp` is the
deadline of 5 s, at any point: what the server did stays done. A stopped server sends a
connected call back to dialling, since gRPC may retry it. `ToUint32` is
nondeterministic outside the range, as Go leaves that conversion to the machine.
Connections are not resumed: the configuration has no session cache.

### Meshd

`pc` walks through `run`: three reads of `LoadIdentity`, `NewIdentity`, the listener,
for a coordinator `ca.crt` again, `ca.key` and the pairing listener, then the servers,
the advertisement and the event loop. `read[f]` is what was read; the files
meanwhile change by the steps of `DataDir`. Every step can fail (`FailStart`), and
`Return` goes to the deferred calls that were registered. A signal kills before
`NotifyContext` and ends the context after it. `disturbed` is history: since the
start a run was active that may overwrite a complete file, that is, a forced one or
one that overlapped with a forced one.

### Discover

The search is another main goroutine on top of the same loop: it browses every mesh
and stops at the first `PeerAdded` with a pairing port. Its timeout of 5 s is shorter
than a sweep period of 30 s, so there is no sweep. `heard` is history: the nodes that
`handleEntry` saw advertising a pairing port, in the order in which it did, each with
whether it was a peer already (`late`). It is independent of what the events say.

### Advert, Interfaces, Labels, Formats

These are conversions, checked as operators over every input up to a bound; the only
step is to make the input one longer. `Labels` and `Formats` have a character for each
class the code tells apart, `Advert` the strings at the edges of `strconv.Atoi`. In
`Interfaces` the input is the host's table of interfaces. zeroconf is external: it
announces the addresses of the interfaces it is given, IPv4 before IPv6. `MCMeshd` puts
them beside the daemon that uses them: inputs grow before its first step, and are taken
back.

A loop that keeps some elements of a slice is `Filter` of `Slices`, a recursive function
on the length. So are the digits that `%0*d` prints and the repeated `TrimSuffix` of
`normalizeHost`. The prover unfolds such a function where it could not unfold a fold.

## Runs

| run | result | distinct states | shows |
|---|---|---|---|
| `pairer` | pass | 235,726 | `SingleUse`, `OneAttemptPerSession`, `RateLimitSlack`, `CodeLossExplained`, `MatchedWasLive`, `ImplementsLedger`, `CallsReturn`, `RefusalsLift`: two concurrent RPCs, two codes |
| `mdns` | pass | 152,082 | `EventsMirrorPeers`, `ExpiryIsDue`, `SilentPeersLeave`, `StopTerminates` |
| `datadir_safety` | pass | 3,363,152 | `OneSetOfCredentials`, `IdentityPreserved`, `NodeIDBound`, `CodeWastedOnlyAfterFailure`, `ForceRepairs` |
| `pairing` | pass | 562,488 | `JoinedCanTalk`, `HonestAnswerAccepted`, `ImplementsEnrolment`, `JoinReturns` with two joiners, two generations of the CA and two forms of address |
| `controlplane` | pass | 165,263 | `MintedForOwnAdmin`, `GuardIsExact`, `CallsEnd` |
| `meshd` | pass | 303,088 | `RunsWithWhatIsThere`, `SignsWithItsOwnCA` while meshctl writes; `AdvertisedIsServed`, `SignalEnds`; of the conversions `ValidatorsAgree`, `GeneratedIsValid`, `PrincipalRoundTrip` (Labels), `TypedIsPrintable`, `HostNameIsStable` (Formats), `AnnouncementIsRead` (Advert), `PrintedHostIsDiscovered`, `StartedIsReachable`, `GivenIfacesAreUsed` (Interfaces) |
| `discover` | pass | 526,926 | `OnlyLatePassedOver`, `MissExplained`, `SearchEnds` |
| `pairer_guesses` | violation | | `GuessesWithinLimit` |
| `mdns_addresses` | violation | | `DialersInformed` |
| `datadir_nodeid` | violation | | `NodeIDNeverChanges` |
| `controlplane_printed` | violation | | `PrintedIsGranted` |
| `discover_first` | violation | | `FoundIsFirstHeard` |

The violations are sentences of the documentation or of comments that the code
does not keep to the letter:

* *"at most (rate limit) guesses per minute"*: the limit is tested before Argon2
  and the failure recorded after it, so Completes in flight at the same time pass
  together. `RateLimitSlack` is the bound that holds.
* *"anything a dialer cares about"*: `peerChanged` compares sets of addresses,
  `GRPCAddr` takes the first one.
* *"must never change for the lifetime of an install"*: `--force --node-id`
  replaces `node_id` before anything else succeeds.
* *"how long the code stays valid"*: `meshctl pair` sends `--ttl` truncated to seconds
  and prints it rounded; below a second it sends 0, which asks for the default.
* *"pick the first peer advertising a pair_port"*: `discoverCoordinator` looks at new
  peers only, so a node that it knew before the node announced its port is passed over.
  `OnlyLatePassedOver` says that nobody else is.

Three more places where the code does less than a sentence about it says. They have
no run of their own; the models behave as the code does, and the properties named
say what holds instead:

* *"A code is deleted on first successful `Complete`"* (ADR 0002): it is deleted
  before the CSR is parsed, so an unusable CSR costs a code (`CodeLossExplained`).
* *"valid 60 s"* (ADR 0002): validity is judged when the request arrives; a code that
  expires during the derivation is still accepted (`MatchedWasLive`).
* *"host:port of the pairing listener"* (`NewAdmin`): with `--pair-port 0` the
  listener's port is the system's choice (`BoundPort`), while the address printed and
  the advertisement say 0.

### Bounds

Pairer: two goroutines, so that two Completes race for a code or one races Issue,
Begin or a restart; two codes, for one to be lost while the other is used; limits of
two sessions and one failure, which are reached and passed; lifetimes of one unit, so
that things expire before, during and after each step. The counters of the
model are bounded by the code's own limits. The safety properties were also checked
with three goroutines on one code (235,697 states) and with two failures and lifetimes
of two units (264,612 states up to symmetry). MDNS: two peers, so that one sweep can expire several and
overflow a channel of one; ticks up to one period old (`MaxTickAge`); a channel of
two was checked as well (1,094,589 states up to symmetry). DataDir: three runs with
two at a time (`MaxActive`), enough for a race over what a third one left behind.
Pairing: two joiners for one code; two generations, so that every pair of served and
signing CA occurs that the order of reads and writes admits; an address of either form.
ControlPlane: one client, since calls share nothing but the
server; two inits; a horizon past the end of every certificate; a uint32 of width 8
(`Width`) with lifetimes below, at and above each limit. Meshd: two runs of meshctl,
one after the other, beside the daemon; both servers may give up (`MaxServeErrors`).
Two runs that overlap were checked as well (5,572,967 states, ten minutes).
Discover: three nodes, so that one that is passed over, one that is found and one in
between differ, and a channel of two, which overflows. Labels: inputs of up
to seven characters with a limit of six on labels and four on what `sanitizeHost`
keeps, so that both are passed. Formats: three ternary digits; strings of up to five
parts, so that the domain comes up to three times. Advert: records of up to three pairs
after those that `TXT` writes. Interfaces: three. Each conversion's input grows while
the others are empty: they have nothing to do with each other. Symmetry is used in
`datadir_safety` only, which has no liveness property.

Deadlock is checked for the Pairer, for Pairing and for Meshd, which serve or can be
started again for ever. MDNS and Discover end after `Stop`, DataDir when all runs have
ended and ControlPlane at its horizon, so it is not checked there.

### Fairness

Pairer: time passes, and a goroutine that can take its next step takes it (the Go
scheduler; a mutex held for bounded work). No request is assumed to arrive. MDNS:
time passes and goroutines run; `expire` and `loopReturn` are strongly fair
because `select` chooses among ready cases at random, so a case that is ready
again and again is taken. Nothing is assumed of the network, of the signal or of
the reader of the events. Pairing and ControlPlane: the deadline of a context comes
(`GiveUp`), and nothing else is certain; in particular no message need arrive. Meshd:
the main goroutine runs. Discover: as MDNS, and the timeout comes; `GiveUp` is
strongly fair because it is a case of a `select`.

## Proofs

`PairerProofs` proves, for any sets of codes, sessions and goroutines and any
limits and lifetimes that satisfy the assumptions of `Pairer` (finitely many
goroutines and session ids, positive limits, a default lifetime within the
maximum): `TypeOK`, `SingleUse`, `OneAttemptPerSession`, `SessionsBounded`,
`RateLimitSlack`, `CodeLossExplained`, `MatchedWasLive` and the refinement of
`CodeLedger`. The
inductive invariant `IInv` is the conjunction of the five state properties: types
need `RateLimitSlack`, because a failure is recorded without a test and only the
count of pending derivations says that there is a slot for it; the refinement
needs types only. Each action of `Next` has a step of its own.

`MeshdProofs` proves, of `DataDir`, `OneSetOfCredentials` and `IdentityPreserved` for any
number of runs. Neither is inductive. `Exclusive` adds what makes them so: as long
as nothing was forced, a run past its first file owns `ca.crt`, at most one run
has `ca.crt` open, what a run has open is still empty, and every credential on
disk is by the owner of `ca.crt`. `InOrder` keeps a run's position within its list
of files. `NodeIDBound` needs another strengthening, `Named`: with neither force nor
overlap one run is active at a time, it writes `node_id` only where there is none,
and past that point its name is the one on the disk.

`CodeWastedOnlyAfterFailure` and `ForceRepairs` are about one run that has the directory
to itself, and follow from `AInv`. Its part `Accounted` says where files come from: every
credential on disk was opened by a run that is at it, done or failed, and a run that is
done has opened its whole list. Its part `Unshared` says of a run that overlapped with
none that the files it filled and the name it read are still there and that, once its
check for `node.key` has passed, no run was done before it. So a file that a lone join
finds in its way is by a run that failed, and a forced run that ends leaves a complete
set. `AInv` was checked with TLC on the instance of `datadir_safety` before it was proved.

`PairingProofs` first proves three facts about the operators of `PKI`: what a CA issues
verifies against it exactly while both are in their lifetimes (`IssuedVerifies`); an
administrator's certificate is accepted from no server (`AdminsNeverServe`); what chains
to a CA was signed with its key (`ChainNamesIssuer`).

It then proves `HonestAnswerAccepted`, `JoinedCanTalk` and the refinement of
`Enrolment`, for any number of joiners, codes, generations and restarts, from the
assumptions of `Pairer`, `PKI` and `Pairing` (names are valid; a joiner names its
goroutine and its session; generations are numbered in their order). `PInv` is the Pairer's `IInv`, which the protocol's steps
preserve because the coordinator's are steps of the Pairer; `Flow`, which says which of
request, goroutine and answer of a joiner can exist together; and `Honest`, that they
are about the joiner's code and the certificate it saw, and that a joiner which failed
did so for one of the two reasons of `HonestAnswerAccepted`, by its RPC or on its input.
Without `Flow` a second
answer could admit a joiner twice; without `Honest` the checks of `Join` could not be
evaluated. In the refinement a code is live while it is in the Pairer's map, and a
joiner has paid from `CompleteConsume` until it takes, refuses or loses the answer.

`ControlPlaneProofs` proves `MintedForOwnAdmin`, `GuardIsExact` and
`GrantedWithinBounds` for any number of clients and inits and any lifetimes and
durations. The lemma `PrefixSelects` says that the prefix matches the methods of the
admin service and no others; the guard's answer follows from it. `CInv` adds that every identity was signed by the CA of some init
(`Known`) and that a call past the handshake was accepted by the server it talks to
(`Admitted`): a grant is decided after the handshake that makes it legitimate.

`MeshdProofs` proves, of `Meshd`, `AdvertisedIsServed`, `RunsWithWhatIsThere` and
`SignsWithItsOwnCA` for any number of runs. `MInv` is `DataDir`'s invariant with
`Alone` (a run that overlapped with none has an empty file open, and runs that are
active together know it), `Started` (which servers are up at which point of `run`) and
`Undisturbedly`: as long as nobody may overwrite, what was read is complete and what
is complete is not written to, so what was read stays what is there (`Fresh`).

`MDNSProofs` proves `TypeOK`, `EventsMirrorPeers` and `ExpiryIsDue` of `MDNS` and, of `Discover`,
`OnlyLatePassedOver` and `MissExplained`, for any sets of nodes and announcements and
any channel. `MDNSInv` adds to the types that events are about other nodes and that the
peers are finitely many, without which `expire` has no order to send in. `DInv`
follows the queue: as long as nothing was dropped or found, every coordinator in `heard`
that was new has its event unread, and the first coordinator's event in the queue is
about the first of them (`Agree`).

`EventsMirrorPeers` is inductive once types are known. One lemma says what an event more
does to `Knows` (`KnowsLast`), one that receiving the first event changes nothing of what
the consumer will know (`KnowsNext`), and one what a whole sweep does, which appends one
expiry for every overdue peer in an order of its own (`KnowsExpired`). The property is
about sets of addresses because `peerChanged` keeps silent about a new order of them.

`WireProofs` and `HostProofs` prove the nine properties of the conversions for inputs of
any length, over any characters: `ValidatorsAgree`, `GeneratedIsValid`,
`PrincipalRoundTrip` and `AnnouncementIsRead`;
`HostNameIsStable`, `TypedIsPrintable` for any alphabet of digits and any length of code,
`PrintedHostIsDiscovered` and `StartedIsReachable` for any table of interfaces, and
`GivenIfacesAreUsed`. The lemma `GivenFacts` behind the last one holds for a list of
`--ifaces` of any length.

`DataTheorems` holds the lemmas about partial functions, sequences and `Filter`. The
inductions that these proofs need are done there as facts about sets: a set of naturals
that has a member has a least one (`LeastMember`), so a set that is closed under
successor and holds 0 holds every natural (`Induction`), and a function defined by
recursion on the naturals is what its equation says (`Recursion`).

Only proved, as no run repeats them: the three `TypeOK`, `SessionsBounded` and
`GrantedWithinBounds`.

Only model-checked: liveness (`CallsReturn`, `RefusalsLift`, `SilentPeersLeave`,
`StopTerminates`, `JoinReturns`, `CallsEnd`, `SignalEnds`, `SearchEnds`), which the
prover does not treat under fairness. Every other property that a passing run checks has
a theorem.

## Not modelled

* Cryptography, DER and PEM: replaced by who made what and what verifies. Serial numbers.
* gRPC, TLS and zeroconf: external, modelled by how the code uses them. zeroconf
  delivers only entries that have an address.
* The encoding of messages, and the generated code of the inference, node and
  scheduler services: no program registers or calls them.
* Logging, usage texts, file permissions, `defaultDataDir`; `short`, which is for logs;
  `LoopbackInterface`, which is for tests.
* `SetFingerprint`: nothing calls it. It writes the advertisement that the loop reads,
  without a lock; a caller would make that a race.
* A `Serve` that returns is only logged. `AdvertisedIsServed` leaves that case out.
* A write that is cut short is a file that does not parse, also for `node_id`.
* Certificates do not expire in `Pairing`, where an attempt lasts 30 s; they do in
  `ControlPlane`.
* What `LCM_DESIGN.md` plans beyond this has no code.
