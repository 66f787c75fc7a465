------------------------------- MODULE Labels -------------------------------
(***************************************************************************)
(* The strings that name things: node ids and mesh ids, checked once by    *)
(* internal/identity and once by internal/pki, generated from the host     *)
(* name, and carried in the lcm:// URI of a certificate.  A string is a    *)
(* sequence of characters, one for each class the code tells apart.  The   *)
(* input is any string up to a bound.                                      *)
(***************************************************************************)
EXTENDS Slices, FiniteSets, FiniteSetsExt, SequencesExt

CONSTANTS MaxLabel,  \* 63
          SuffixLen, \* hex digits of the random suffix: 6
          MaxName   \* bound: the longest string considered

ASSUME LabelsAssumption ==
    /\ SuffixLen \in Nat /\ MaxName \in Nat
    /\ MaxLabel \in Nat /\ MaxLabel >= 5 + SuffixLen \* "node-" and a suffix

VARIABLE label \* a host name, an operator's choice of name, part of a URI

\* A letter or digit, an upper-case letter, and the characters with a meaning of
\* their own.  A slash means nothing in a label and a dot nothing in a path: there
\* they are any other character.
Chars == {"a", "A", "-", ".", "/"}

Alnum == {"a"}

ToLower(s) == [i \in DOMAIN s |-> IF s[i] = "A" THEN "a" ELSE s[i]]

-----------------------------------------------------------------------------
(***************************************************************************)
(* The two validators.                                                     *)
(***************************************************************************)

\* identity.Validate: ^[a-z0-9][a-z0-9-]{0,62}$
Validate(s) ==
    /\ s # <<>>
    /\ Head(s) \in Alnum
    /\ Len(Tail(s)) <= MaxLabel - 1
    /\ Range(Tail(s)) \subseteq Alnum \cup {"-"}

\* Mutant: pki would refuse a hyphen at the end as well.
validateLabelStrict(s) ==
    /\ Len(s) \in 1 .. MaxLabel
    /\ \A i \in DOMAIN s : s[i] \in Alnum \/ (s[i] = "-" /\ i > 1 /\ i < Len(s))

\* pki.validateLabel.
validateLabel(s) ==
    /\ Len(s) \in 1 .. MaxLabel
    /\ \A i \in DOMAIN s : s[i] \in Alnum \/ (s[i] = "-" /\ i > 1)

-----------------------------------------------------------------------------
(***************************************************************************)
(* Generated names.                                                        *)
(***************************************************************************)

Kept(s) == {i \in DOMAIN s : s[i] # "-"}

\* strings.TrimRight(s, "-") and strings.Trim(s, "-").
TrimRight(s) == IF Kept(s) = {} THEN <<>> ELSE SubSeq(s, 1, Max(Kept(s)))

Trim(s) == IF Kept(s) = {} THEN <<>> ELSE SubSeq(s, Min(Kept(s)), Max(Kept(s)))

\* What precedes the first dot.
BeforeDot(s) ==
    LET dots == {i \in DOMAIN s : s[i] = "."}
    IN  IF dots = {} THEN s ELSE SubSeq(s, 1, Min(dots) - 1)

\* Mutant: the hyphen before the suffix is forgotten.
maxHostOffByOne == MaxLabel - SuffixLen

maxHost == MaxLabel - 1 - SuffixLen

\* sanitizeHost; the fallback "node" is four letters.
sanitizeHost(h) ==
    LET out == Trim(Filter(BeforeDot(ToLower(h)), Alnum \cup {"-"}))
        cut == IF Len(out) > maxHost THEN TrimRight(SubSeq(out, 1, maxHost)) ELSE out
    IN  IF cut = <<>> THEN <<"a", "a", "a", "a">> ELSE cut

\* Generate: the host name, a hyphen and hex digits.
Generate(h) == sanitizeHost(h) \o <<"-">> \o [i \in 1 .. SuffixLen |-> "a"]

-----------------------------------------------------------------------------
(***************************************************************************)
(* The principal in a certificate's URI, lcm://<mesh>/<role>/<name>.  A    *)
(* role is one character here; only the path matters, the mesh being the   *)
(* URI's host.                                                             *)
(***************************************************************************)

Role == <<"a">>

\* Principal.URI: its path.
URI(name) == <<"/">> \o Role \o <<"/">> \o name

\* strings.Split(s, "/") when it gives two parts, <<>> otherwise.
SplitInTwo(s) ==
    LET cuts == {i \in DOMAIN s : s[i] = "/"}
    IN  IF Cardinality(cuts) # 1 THEN <<>>
        ELSE LET i == CHOOSE i \in cuts : TRUE
             IN  <<SubSeq(s, 1, i - 1), SubSeq(s, i + 1, Len(s))>>

\* Mutant: everything after the role is the name.
ParsePrincipalGreedy(path) ==
    LET s == IF path # <<>> /\ Head(path) = "/" THEN Tail(path) ELSE path
    IN  IF Len(s) > 2 /\ s[2] = "/" /\ s[1] = "a"
        THEN <<Role, SubSeq(s, 3, Len(s))>> ELSE <<>>

\* ParsePrincipal on the path: role and name, or <<>> for an error.
ParsePrincipal(path) ==
    LET parts == SplitInTwo(IF path # <<>> /\ Head(path) = "/" THEN Tail(path)
                                                              ELSE path)
    IN  IF parts # <<>> /\ parts[1] = Role /\ parts[2] # <<>> THEN parts ELSE <<>>

-----------------------------------------------------------------------------

LabelsInit == label = <<>>

\* Another character: every string up to the bound is an input.
LabelsExtend ==
    /\ Len(label) < MaxName
    /\ \E ch \in Chars : label' = Append(label, ch)

-----------------------------------------------------------------------------
(***************************************************************************)
(* Properties.                                                             *)
(***************************************************************************)

\* Whatever the host is called, LoadOrCreate can read back the id that Generate
\* made, and NewCSR and Sign accept it: it fits in the label, starts with a letter
\* or digit and keeps its suffix.
GeneratedIsValid ==
    Validate(Generate(label)) /\ validateLabel(Generate(label))

\* "It is also what the pki package will accept" (nodeid.go): the regular
\* expression and the loop of validateLabel agree on every string, so a node_id
\* that was written to disk never fails later, when a code has been spent on it.
ValidatorsAgree == Validate(label) <=> validateLabel(label)

\* Sign and verification agree on who a certificate is for: a name that Sign
\* accepts comes back from the URI as it was, and a path that parses is the path of
\* the principal it parses to, whichever path another implementation wrote.
PrincipalRoundTrip ==
    /\ validateLabel(label) => ParsePrincipal(URI(label)) = <<Role, label>>
    /\ ParsePrincipal(URI(label)) # <<>> => "/" \notin Range(label)
    /\ ParsePrincipal(<<"/">> \o label) # <<>>
          => URI(ParsePrincipal(<<"/">> \o label)[2]) = <<"/">> \o label
=============================================================================
