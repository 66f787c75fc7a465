------------------------------- MODULE Advert -------------------------------
(***************************************************************************)
(* What a node announces and how it is read back: the TXT record of        *)
(* internal/discovery/peer.go and the configuration that NewMDNS accepts.  *)
(* A TXT record is a sequence of pairs <<key, value>>; the record that     *)
(* ParseTXT is given is any sequence up to a bound.                        *)
(***************************************************************************)
EXTENDS Integers, Sequences, FiniteSets, SequencesExt

CONSTANTS NodeIDs, MeshIDs, Fingerprints, \* strings that are not empty
          MaxPairs                        \* bound: the longest record considered

\* The empty string: a field that is not set, a key that is missing.
Empty == ""

ASSUME AdvertAssumption ==
    /\ Empty \notin NodeIDs \cup MeshIDs \cup Fingerprints
    /\ MaxPairs \in Nat

VARIABLE txt

MaxPort == 65535

Port == 1 .. MaxPort

\* The strings that stand for the edges of strconv.Atoi, and what it makes of
\* them; -1 is an error, which every caller treats like a port out of range.
PortStrings == {Empty, "0", "1", "65535", "65536", "http"}

Atoi(s) ==
    CASE s = "0" -> 0 [] s = "1" -> 1 [] s = "65535" -> MaxPort
      [] s = "65536" -> MaxPort + 1 [] OTHER -> -1

Itoa(n) == CHOOSE s \in PortStrings : Atoi(s) = n

Keys == {"node_id", "mesh_id", "grpc_port", "pair_port", "fingerprint"}

Values(key) ==
    CASE key = "node_id" -> NodeIDs \cup {Empty}
      [] key = "mesh_id" -> MeshIDs \cup {Empty}
      [] key = "fingerprint" -> Fingerprints \cup {Empty}
      [] key \in {"grpc_port", "pair_port"} -> PortStrings
      [] OTHER -> {"1"}

-----------------------------------------------------------------------------
(***************************************************************************)
(* The record.                                                             *)
(***************************************************************************)

Advertisement(node, mesh, grpc, pair, fp) ==
    [node |-> node, mesh |-> mesh, grpc |-> grpc, pair |-> pair, fp |-> fp]

\* Advertisement.TXT: a pairing port of zero and an empty fingerprint are left out.
TXT(a) ==
    <<<<"node_id", a.node>>, <<"mesh_id", a.mesh>>, <<"grpc_port", Itoa(a.grpc)>>>>
    \o (IF a.pair > 0 THEN <<<<"pair_port", Itoa(a.pair)>>>> ELSE <<>>)
    \o (IF a.fp # Empty THEN <<<<"fingerprint", a.fp>>>> ELSE <<>>)

\* Mutant: the last occurrence of a key wins.
LookupLast(record, key) ==
    LET at == {i \in DOMAIN record : record[i][1] = key}
    IN  IF at = {} THEN Empty ELSE record[CHOOSE i \in at : \A j \in at : i >= j][2]

\* kv[key]: the first occurrence wins; a key that is missing reads as "".
Lookup(record, key) ==
    LET at == {i \in DOMAIN record : record[i][1] = key}
    IN  IF at = {} THEN Empty ELSE record[CHOOSE i \in at : \A j \in at : i <= j][2]

ParseTXTError(record) ==
    IF Lookup(record, "node_id") = Empty THEN "ErrMissingNodeID"
    ELSE IF Lookup(record, "mesh_id") = Empty THEN "ErrMissingMeshID"
    ELSE IF Lookup(record, "grpc_port") = Empty THEN "ErrMissingGRPCPort"
    ELSE IF Atoi(Lookup(record, "grpc_port")) \notin Port THEN "ErrBadGRPCPort"
    ELSE IF /\ Lookup(record, "pair_port") # Empty
            /\ Atoi(Lookup(record, "pair_port")) \notin Port THEN "ErrBadGRPCPort"
    ELSE "none"

\* ParseTXT, once ParseTXTError is "none".
ParseTXT(record) ==
    Advertisement(Lookup(record, "node_id"), Lookup(record, "mesh_id"),
                  Atoi(Lookup(record, "grpc_port")),
                  IF Lookup(record, "pair_port") = Empty THEN 0
                  ELSE Atoi(Lookup(record, "pair_port")),
                  Lookup(record, "fingerprint"))

-----------------------------------------------------------------------------
(***************************************************************************)
(* Configuration.                                                          *)
(***************************************************************************)

AnyMeshID == "*"

NewMDNSError(a, browseOnly) ==
    IF a.node = Empty \/ a.mesh = Empty THEN "ErrRequired"
    ELSE IF a.mesh = AnyMeshID /\ ~browseOnly THEN "ErrWildcard"
    ELSE IF a.grpc \notin Port THEN "ErrPortRange" ELSE "none"

-----------------------------------------------------------------------------

AdvertInit == txt = <<>>

\* Another pair, of a key the code knows or of one it does not.
AdvertExtend ==
    /\ Len(txt) < MaxPairs
    /\ \E key \in Keys \cup {"later"} : \E v \in Values(key) : txt' = Append(txt, <<key, v>>)

-----------------------------------------------------------------------------
(***************************************************************************)
(* Properties.                                                             *)
(***************************************************************************)

\* What meshd may announce: NewMDNS accepted it, and the pairing port is 0 or one
\* that net.Listen took.
Announced ==
    {a \in [node : NodeIDs, mesh : MeshIDs, grpc : {1, MaxPort},
            pair : {0, 1, MaxPort}, fp : Fingerprints \cup {Empty}] :
        NewMDNSError(a, FALSE) = "none"}

\* What later versions may append to a record: keys that it has, and new ones.
IsLater(more, record) ==
    \A i \in DOMAIN more : \/ more[i][1] \notin Keys
                           \/ \E j \in DOMAIN record : record[j][1] = more[i][1]

\* A peer reads what a node announced: TXT and ParseTXT are inverse, the two fields
\* that TXT may leave out included, and what later versions append, new keys or
\* known ones again, changes none of the fields TXT wrote ("first occurrence wins").
AnnouncementIsRead ==
    \A a \in Announced :
        IsLater(txt, TXT(a)) =>
            ParseTXTError(TXT(a) \o txt) = "none" /\ ParseTXT(TXT(a) \o txt) = a
=============================================================================
