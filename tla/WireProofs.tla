----------------------------- MODULE WireProofs -----------------------------
(***************************************************************************)
(* Proofs about Labels and Advert, for names, addresses and records of any *)
(* length: what one node writes into a certificate or a TXT record is what *)
(* another reads out of it.                                                *)
(***************************************************************************)
EXTENDS Labels, Advert, DataTheorems

-----------------------------------------------------------------------------
(***************************************************************************)
(* Labels.                                                                 *)
(***************************************************************************)

\* Min and Max of a set of indices.
LEMMA MinMaxFacts ==
    ASSUME NEW n \in Nat, NEW T, T \subseteq 1 .. n, T # {}
    PROVE  /\ Min(T) \in T /\ \A i \in T : Min(T) <= i
           /\ Max(T) \in T /\ \A i \in T : i <= Max(T)
  <1>1. \E x \in T : \A y \in T : x <= y
    <2>1. T \subseteq Nat
      OBVIOUS
    <2> QED
      BY <2>1, LeastMember, Zenon
  <1>2. \E x \in T : \A y \in T : x >= y
    <2> DEFINE U == {k \in Nat : n - k \in T}
    <2>1. U \subseteq Nat /\ U # {}
      <3>1. PICK i \in T : TRUE
        OBVIOUS
      <3>2. n - i \in Nat /\ n - (n - i) = i
        OBVIOUS
      <3> QED
        BY <3>1, <3>2
    <2>2. PICK x \in U : \A y \in U : x <= y
      <3> HIDE DEF U
      <3> QED
        BY <2>1, LeastMember
    <2>3. ASSUME NEW i \in T
          PROVE  n - x >= i
      <3>1. n - i \in Nat /\ n - (n - i) = i
        OBVIOUS
      <3>2. n - i \in U
        BY <3>1
      <3>3. x <= n - i /\ x \in Nat
        <4>1. x <= n - i
          <5> HIDE DEF U
          <5> QED
            BY <2>2, <3>2
        <4> QED
          BY <4>1
      <3>4. i \in Nat
        OBVIOUS
      <3> QED
        BY <3>3, <3>4
    <2> QED
      BY <2>2, <2>3
  <1>3. Min(T) \in T /\ \A i \in T : Min(T) <= i
    BY <1>1, Zenon DEF Min
  <1>4. Max(T) \in T /\ \A i \in T : Max(T) >= i
    BY <1>2, Zenon DEF Max
  <1>5. \A i \in T : Max(T) >= i => i <= Max(T)
    BY <1>4
  <1> QED
    BY <1>3, <1>4, <1>5

\* What Trim returns does not start with a hyphen.
LEMMA TrimFacts ==
    ASSUME NEW R, NEW s \in Seq(R)
    PROVE  Trim(s) \in Seq(R) /\ (Trim(s) # <<>> => Trim(s)[1] # "-")
  <1>1. CASE Kept(s) = {}
    BY <1>1 DEF Trim
  <1>2. CASE Kept(s) # {}
    <2>1. Kept(s) \subseteq 1 .. Len(s) /\ Len(s) \in Nat
      BY DEF Kept
    <2>2. PICK i \in Kept(s), k \in Kept(s) : i = Min(Kept(s)) /\ k = Max(Kept(s)) /\ i <= k
      BY <1>2, <2>1, MinMaxFacts
    <2>3. i \in 1 .. Len(s) /\ k \in 1 .. Len(s) /\ s[i] # "-"
      BY <2>1 DEF Kept
    <2>4. Trim(s) = SubSeq(s, i, k)
      BY <1>2, <2>2 DEF Trim
    <2> QED
      BY <2>2, <2>3, <2>4
  <1> QED
    BY <1>1, <1>2

\* What TrimRight returns is a beginning of its argument.
LEMMA TrimRightFacts ==
    ASSUME NEW R, NEW s \in Seq(R)
    PROVE  /\ TrimRight(s) \in Seq(R) /\ Len(TrimRight(s)) <= Len(s)
           /\ TrimRight(s) # <<>> => s # <<>> /\ TrimRight(s)[1] = s[1]
  <1>1. CASE Kept(s) = {}
    BY <1>1 DEF TrimRight
  <1>2. CASE Kept(s) # {}
    <2>1. Kept(s) \subseteq 1 .. Len(s) /\ Len(s) \in Nat
      BY DEF Kept
    <2>2. PICK k \in 1 .. Len(s) : k = Max(Kept(s))
      BY <1>2, <2>1, MinMaxFacts
    <2>3. TrimRight(s) = SubSeq(s, 1, k)
      BY <1>2, <2>2 DEF TrimRight
    <2> QED
      BY <2>1, <2>2, <2>3
  <1> QED
    BY <1>1, <1>2

LabelChars == Alnum \cup {"-"}

\* What sanitizeHost returns leaves room for the suffix and starts with a letter or
\* digit, whatever the host is called.
LEMMA SanitizeHostFacts ==
    ASSUME NEW R, NEW h \in Seq(R)
    PROVE  /\ sanitizeHost(h) \in Seq(LabelChars)
           /\ Len(sanitizeHost(h)) \in 1 .. maxHost
           /\ sanitizeHost(h)[1] \in Alnum
  <1>1. maxHost \in Nat /\ maxHost >= 4
    BY LabelsAssumption DEF maxHost
  <1>2. PICK name \in Seq(R \cup {"a"}) : name = BeforeDot(ToLower(h))
    <2>1. ToLower(h) \in Seq(R \cup {"a"})
      BY DEF ToLower
    <2>2. PICK l \in Seq(R \cup {"a"}) : l = ToLower(h)
      BY <2>1
    <2> DEFINE dots == {i \in DOMAIN l : l[i] = "."}
    <2>3. CASE dots = {}
      BY <2>2, <2>3 DEF BeforeDot
    <2>4. CASE dots # {}
      <3>1. dots \subseteq 1 .. Len(l) /\ Len(l) \in Nat
        OBVIOUS
      <3>2. Min(dots) \in 1 .. Len(l)
        <4> HIDE DEF dots
        <4> QED
          BY <2>4, <3>1, MinMaxFacts
      <3>3. BeforeDot(l) = SubSeq(l, 1, Min(dots) - 1)
        BY <2>4 DEF BeforeDot
      <3>4. PICK k \in 1 .. Len(l) : k = Min(dots)
        BY <3>2
      <3>5. SubSeq(l, 1, k - 1) \in Seq(R \cup {"a"})
        OBVIOUS
      <3> QED
        BY <2>2, <3>3, <3>4, <3>5
    <2> QED
      BY <2>3, <2>4
  <1>3. PICK kept \in Seq(LabelChars) : kept = Filter(name, LabelChars)
    BY FilterFacts
  <1>4. PICK out \in Seq(LabelChars) : out = Trim(kept) /\ (out # <<>> => out[1] # "-")
    BY TrimFacts
  <1>5. PICK cut \in Seq(LabelChars) :
            /\ cut = IF Len(out) > maxHost THEN TrimRight(SubSeq(out, 1, maxHost)) ELSE out
            /\ Len(cut) <= maxHost
            /\ cut # <<>> => out # <<>> /\ cut[1] = out[1]
    <2>1. CASE Len(out) > maxHost
      <3>1. /\ SubSeq(out, 1, maxHost) \in Seq(LabelChars)
            /\ Len(SubSeq(out, 1, maxHost)) = maxHost
            /\ SubSeq(out, 1, maxHost)[1] = out[1]
        BY <1>1, <2>1
      <3>2. PICK head \in Seq(LabelChars) : head = SubSeq(out, 1, maxHost)
        BY <3>1
      <3>3. /\ TrimRight(head) \in Seq(LabelChars) /\ Len(TrimRight(head)) <= Len(head)
            /\ TrimRight(head) # <<>> => head # <<>> /\ TrimRight(head)[1] = head[1]
        BY TrimRightFacts
      <3>4. out # <<>>
        BY <1>1, <2>1
      <3> QED
        BY <1>1, <2>1, <3>1, <3>2, <3>3, <3>4
    <2>2. CASE ~(Len(out) > maxHost)
      BY <1>1, <2>2
    <2> QED
      BY <2>1, <2>2
  <1>6. sanitizeHost(h) = IF cut = <<>> THEN <<"a", "a", "a", "a">> ELSE cut
    BY <1>2, <1>3, <1>4, <1>5 DEF sanitizeHost, LabelChars
  <1>7. CASE cut = <<>>
    BY <1>1, <1>6, <1>7 DEF LabelChars, Alnum
  <1>8. CASE cut # <<>>
    <2>1. cut[1] \in LabelChars /\ cut[1] # "-" /\ Len(cut) > 0
      BY <1>4, <1>5, <1>8
    <2> QED
      BY <1>5, <1>6, <1>8, <2>1 DEF LabelChars, Alnum
  <1> QED
    BY <1>7, <1>8

\* A label that starts with a letter or digit, is neither too long nor empty and has
\* no other character than those of a label passes both validators, and no other
\* string passes either.
LEMMA ValidatorFacts ==
    ASSUME NEW R, NEW s \in Seq(R)
    PROVE  /\ Validate(s) <=> /\ s # <<>> /\ s[1] \in Alnum /\ Len(s) <= MaxLabel
                              /\ \A i \in 1 .. Len(s) : s[i] \in LabelChars
           /\ validateLabel(s) <=> Validate(s)
  <1>1. CASE s = <<>>
    BY <1>1 DEF Validate, validateLabel
  <1>2. CASE s # <<>>
    <2>1. /\ Head(s) = s[1] /\ Len(s) \in Nat \ {0} /\ DOMAIN s = 1 .. Len(s)
          /\ Len(Tail(s)) = Len(s) - 1 /\ DOMAIN Tail(s) = 1 .. Len(s) - 1
          /\ \A i \in 1 .. Len(s) - 1 : Tail(s)[i] = s[i + 1]
      BY <1>2
    <2>2. Range(Tail(s)) \subseteq LabelChars <=> \A i \in 2 .. Len(s) : s[i] \in LabelChars
      <3>1. \A i \in 2 .. Len(s) : /\ i - 1 \in 1 .. Len(s) - 1
                                   /\ (i - 1) + 1 = i /\ Tail(s)[i - 1] = s[i]
        BY <2>1
      <3>2. \A i \in 1 .. Len(s) - 1 : i + 1 \in 2 .. Len(s)
        BY <2>1
      <3>3. ASSUME Range(Tail(s)) \subseteq LabelChars, NEW i \in 2 .. Len(s)
            PROVE  s[i] \in LabelChars
        <4>1. Tail(s)[i - 1] \in Range(Tail(s))
          BY <2>1, <3>1 DEF Range
        <4> QED
          BY <3>1, <3>3, <4>1
      <3>4. ASSUME \A i \in 2 .. Len(s) : s[i] \in LabelChars, NEW x \in Range(Tail(s))
            PROVE  x \in LabelChars
        <4>1. PICK i \in 1 .. Len(s) - 1 : x = Tail(s)[i]
          BY <2>1 DEF Range
        <4> QED
          BY <2>1, <3>2, <3>4, <4>1
      <3> QED
        BY <3>3, <3>4
    <2>3. \A i \in 1 .. Len(s) : i = 1 \/ i \in 2 .. Len(s)
      BY <2>1
    <2>4. Validate(s) <=> /\ s[1] \in Alnum /\ Len(s) <= MaxLabel
                          /\ \A i \in 2 .. Len(s) : s[i] \in LabelChars
      BY <1>2, <2>1, <2>2, LabelsAssumption DEF Validate, LabelChars
    <2>5. validateLabel(s) <=> /\ s[1] \in Alnum /\ Len(s) <= MaxLabel
                               /\ \A i \in 2 .. Len(s) : s[i] \in LabelChars
      BY <2>1, <2>3, LabelsAssumption DEF validateLabel, LabelChars, Alnum
    <2>6. s[1] \in Alnum => s[1] \in LabelChars
      BY DEF LabelChars
    <2> QED
      BY <1>2, <2>1, <2>3, <2>4, <2>5, <2>6
  <1> QED
    BY <1>1, <1>2

\* identity.Validate and pki.validateLabel accept the same strings, of any length
\* and over any characters.
THEOREM SameLabelsEverywhere ==
    ASSUME NEW S, label \in Seq(S)
    PROVE  ValidatorsAgree
  BY ValidatorFacts DEF ValidatorsAgree

\* Generate makes an id that both validators accept, for a host name of any length
\* and over any characters, empty ones and those of dots and hyphens only included.
THEOREM GeneratedNamesAreValid ==
    ASSUME NEW S, label \in Seq(S)
    PROVE  GeneratedIsValid
  <1>1. PICK host \in Seq(LabelChars) :
            /\ host = sanitizeHost(label)
            /\ Len(host) \in 1 .. maxHost /\ host[1] \in Alnum
    BY SanitizeHostFacts
  <1>2. PICK hyphen \in Seq(LabelChars), hex \in Seq(LabelChars) :
            /\ hyphen = <<"-">> /\ Len(hyphen) = 1
            /\ hex = [i \in 1 .. SuffixLen |-> "a"] /\ Len(hex) = SuffixLen
    <2>1. /\ [i \in 1 .. SuffixLen |-> "a"] \in Seq(LabelChars)
          /\ Len([i \in 1 .. SuffixLen |-> "a"]) = SuffixLen
      BY LabelsAssumption DEF LabelChars, Alnum
    <2>2. <<"-">> \in Seq(LabelChars) /\ Len(<<"-">>) = 1
      BY DEF LabelChars
    <2> QED
      BY <2>1, <2>2, Zenon
  <1>3. PICK front \in Seq(LabelChars) : front = host \o hyphen
    BY ConcatFacts, Zenon
  <1>4. PICK id \in Seq(LabelChars) : id = front \o hex
    BY ConcatFacts, Zenon
  <1>5. /\ id # <<>> /\ id[1] \in Alnum /\ Len(id) <= MaxLabel
        /\ \A i \in 1 .. Len(id) : id[i] \in LabelChars
    <2>0. Len(host) \in Nat /\ 1 \in 1 .. Len(host)
      BY <1>1, LabelsAssumption DEF maxHost
    <2>1. front[1] = host[1] /\ Len(front) = Len(host) + 1
      <3>1. /\ Len(host \o hyphen) = Len(host) + Len(hyphen)
            /\ \A i \in 1 .. Len(host) : (host \o hyphen)[i] = host[i]
        BY ConcatFacts, Zenon
      <3> QED
        BY <1>2, <1>3, <2>0, <3>1
    <2>2. id[1] = host[1] /\ Len(id) = Len(host) + 1 + SuffixLen
      <3>1. /\ Len(front \o hex) = Len(front) + Len(hex)
            /\ \A i \in 1 .. Len(front) : (front \o hex)[i] = front[i]
        BY ConcatFacts, Zenon
      <3>2. 1 \in 1 .. Len(front)
        BY <2>0, <2>1
      <3> QED
        BY <1>2, <1>4, <2>1, <3>1, <3>2
    <2> QED
      BY <1>1, <2>0, <2>2, LabelsAssumption DEF maxHost
  <1>6. Validate(id) /\ validateLabel(id)
    BY <1>5, ValidatorFacts
  <1>7. Generate(label) = id
    BY <1>1, <1>2, <1>3, <1>4 DEF Generate
  <1> QED
    BY <1>6, <1>7 DEF GeneratedIsValid

\* strings.Split(s, "/") gives two parts if there is one slash, at i.
LEMMA SplitFacts ==
    ASSUME NEW R, NEW s \in Seq(R)
    PROVE  /\ \A i \in 1 .. Len(s) :
                 (s[i] = "/" /\ \A k \in 1 .. Len(s) : s[k] = "/" => k = i) =>
                     SplitInTwo(s) = <<SubSeq(s, 1, i - 1), SubSeq(s, i + 1, Len(s))>>
           /\ SplitInTwo(s) # <<>> =>
                 \E i \in 1 .. Len(s) : s[i] = "/" /\ \A k \in 1 .. Len(s) : s[k] = "/" => k = i
  <1> DEFINE cuts == {i \in DOMAIN s : s[i] = "/"}
  <1>1. cuts \subseteq 1 .. Len(s) /\ Len(s) \in Nat /\ DOMAIN s = 1 .. Len(s)
    OBVIOUS
  <1>2. IsFiniteSet(cuts)
    <2>1. IsFiniteSet(1 .. Len(s))
      BY <1>1, FS_Interval
    <2> HIDE DEF cuts
    <2> QED
      BY <1>1, <2>1, FS_Subset
  <1>3. ASSUME NEW i \in 1 .. Len(s), s[i] = "/",
               \A k \in 1 .. Len(s) : s[k] = "/" => k = i
        PROVE  SplitInTwo(s) = <<SubSeq(s, 1, i - 1), SubSeq(s, i + 1, Len(s))>>
    <2>1. cuts = {i}
      BY <1>1, <1>3
    <2>2. Cardinality(cuts) = 1 /\ (CHOOSE x \in cuts : TRUE) = i
      BY <2>1, FS_Singleton
    <2> QED
      BY <2>2 DEF SplitInTwo
  <1>4. ASSUME SplitInTwo(s) # <<>>
        PROVE  \E i \in 1 .. Len(s) : s[i] = "/" /\ \A k \in 1 .. Len(s) : s[k] = "/" => k = i
    <2>1. Cardinality(cuts) = 1
      BY <1>4 DEF SplitInTwo
    <2>2. PICK i : cuts = {i}
      <3> HIDE DEF cuts
      <3> QED
        BY <1>2, <2>1, FS_Singleton
    <2> QED
      BY <1>1, <2>2
  <1> QED
    BY <1>3, <1>4

\* The path of a URI without its first slash.
Path(name) == [i \in 1 .. Len(name) + 2 |->
                  IF i = 1 THEN "a" ELSE IF i = 2 THEN "/" ELSE name[i - 2]]

\* The characters that a path adds to those of a name.
LEMMA URIFacts ==
    ASSUME NEW R, "a" \in R, "/" \in R, NEW name \in Seq(R)
    PROVE  /\ Path(name) \in Seq(R) /\ Len(Path(name)) = Len(name) + 2
           /\ Path(name)[1] = "a" /\ Path(name)[2] = "/"
           /\ \A i \in 3 .. Len(name) + 2 : Path(name)[i] = name[i - 2]
           /\ URI(name) = <<"/">> \o Path(name)
  <1>0. Len(name) \in Nat /\ \A i \in 3 .. Len(name) + 2 : i - 2 \in 1 .. Len(name)
    OBVIOUS
  <1>1. /\ Path(name) \in Seq(R) /\ Len(Path(name)) = Len(name) + 2
        /\ Path(name)[1] = "a" /\ Path(name)[2] = "/"
        /\ \A i \in 3 .. Len(name) + 2 : Path(name)[i] = name[i - 2]
    <2>1. ASSUME NEW i \in 1 .. Len(name) + 2
          PROVE  (IF i = 1 THEN "a" ELSE IF i = 2 THEN "/" ELSE name[i - 2]) \in R
      <3>1. i = 1 \/ i = 2 \/ i \in 3 .. Len(name) + 2
        BY <1>0
      <3> QED
        BY <1>0, <3>1
    <2>2. Path(name) \in [1 .. Len(name) + 2 -> R] /\ Len(name) + 2 \in Nat
      BY <1>0, <2>1 DEF Path
    <2>3. Path(name) \in Seq(R) /\ Len(Path(name)) = Len(name) + 2
      BY <2>2
    <2> QED
      BY <1>0, <2>3 DEF Path
  <1>2. PICK slash \in Seq(R), role \in Seq(R), path \in Seq(R) :
            slash = <<"/">> /\ role = <<"a">> /\ path = Path(name)
    <2>1. <<"/">> \in Seq(R) /\ <<"a">> \in Seq(R)
      OBVIOUS
    <2> QED
      BY <1>1, <2>1, Zenon
  <1>3. Len(slash) = 1 /\ slash[1] = "/" /\ Len(role) = 1 /\ role[1] = "a"
    BY <1>2
  <1>4. URI(name) = ((slash \o role) \o slash) \o name
    BY <1>2 DEF URI, Role
  <1>5. PICK v : v = slash \o role
    OBVIOUS
  <1>6. v \in Seq(R) /\ Len(v) = 2 /\ v[1] = "/" /\ v[2] = "a"
    <2>1. v \in Seq(R) /\ IsConcat(v, slash, role)
      BY <1>5, ConcatIs, Zenon
    <2> QED
      BY <1>3, <2>1 DEF IsConcat
  <1>7. PICK u : u = v \o slash
    OBVIOUS
  <1>8. u \in Seq(R) /\ Len(u) = 3 /\ u[1] = "/" /\ u[2] = "a" /\ u[3] = "/"
    <2>1. u \in Seq(R) /\ IsConcat(u, v, slash)
      BY <1>6, <1>7, ConcatIs, Zenon
    <2> QED
      BY <1>3, <1>6, <2>1 DEF IsConcat
  <1>9. PICK s, t : s = u \o name /\ t = slash \o path
    OBVIOUS
  <1>10. /\ s \in Seq(R) /\ Len(s) = Len(name) + 3
         /\ \A i \in 1 .. 3 : s[i] = u[i]
         /\ \A i \in 1 .. Len(name) : s[3 + i] = name[i]
    <2>1. s \in Seq(R) /\ IsConcat(s, u, name)
      BY <1>8, <1>9, ConcatIs, Zenon
    <2> QED
      BY SMTT(30), <1>0, <1>8, <2>1 DEF IsConcat
  <1>11. /\ t \in Seq(R) /\ Len(t) = Len(name) + 3 /\ t[1] = "/"
         /\ \A i \in 1 .. Len(name) + 2 : t[1 + i] = path[i]
    <2>1. t \in Seq(R) /\ IsConcat(t, slash, path)
      BY <1>9, ConcatIs, Zenon
    <2>2. Len(path) = Len(name) + 2
      BY <1>1, <1>2
    <2> QED
      BY <1>0, <1>3, <2>1, <2>2 DEF IsConcat
  <1>12. ASSUME NEW i \in 1 .. Len(name) + 3
         PROVE  s[i] = t[i]
    <2>1. i = 1 \/ i = 2 \/ i = 3 \/ i - 3 \in 1 .. Len(name)
      BY <1>0
    <2>2. CASE i = 1
      BY <1>8, <1>10, <1>11, <2>2
    <2>3. CASE i = 2 \/ i = 3
      <3>1. t[1 + 1] = path[1] /\ t[1 + 2] = path[2]
        BY <1>0, <1>11
      <3> QED
        BY <1>1, <1>2, <1>8, <1>10, <2>3, <3>1
    <2>4. CASE i - 3 \in 1 .. Len(name)
      <3>1. /\ 3 + (i - 3) = i /\ 1 + (i - 1) = i /\ i - 1 \in 1 .. Len(name) + 2
            /\ i - 1 \in 3 .. Len(name) + 2 /\ (i - 1) - 2 = i - 3
        BY <1>0, <2>4
      <3>2. s[i] = name[i - 3]
        BY <1>10, <2>4, <3>1
      <3>3. t[i] = path[i - 1]
        BY <1>11, <3>1
      <3> QED
        BY <1>1, <1>2, <3>1, <3>2, <3>3
    <2> QED
      BY <2>1, <2>2, <2>3, <2>4
  <1>13. s = t
    BY <1>10, <1>11, <1>12, SameElements
  <1> QED
    BY <1>1, <1>2, <1>4, <1>5, <1>7, <1>9, <1>13

\* ParsePrincipal on a path that starts with a slash.
LEMMA ParseFacts ==
    ASSUME NEW R, "/" \in R, NEW t \in Seq(R)
    PROVE  ParsePrincipal(<<"/">> \o t) =
              IF /\ SplitInTwo(t) # <<>> /\ SplitInTwo(t)[1] = Role
                 /\ SplitInTwo(t)[2] # <<>>
              THEN SplitInTwo(t) ELSE <<>>
  <1>1. PICK slash \in Seq(R) : slash = <<"/">> /\ Len(slash) = 1 /\ slash[1] = "/"
    <2>1. <<"/">> \in Seq(R) /\ Len(<<"/">>) = 1 /\ <<"/">>[1] = "/"
      OBVIOUS
    <2> QED
      BY <2>1, Zenon
  <1>2. PICK p : p = slash \o t
    OBVIOUS
  <1>3. p \in Seq(R) /\ IsConcat(p, slash, t)
    BY <1>2, ConcatIs, Zenon
  <1>4. Len(t) \in Nat
    OBVIOUS
  <1>5. p # <<>> /\ Len(p) = 1 + Len(t) /\ p[1] = "/" /\ \A i \in 1 .. Len(t) : p[1 + i] = t[i]
    BY <1>1, <1>3, <1>4 DEF IsConcat
  <1>6. PICK q : q = Tail(p)
    OBVIOUS
  <1>7. q \in Seq(R) /\ Head(p) = "/" /\ Len(q) = Len(t) /\ \A i \in 1 .. Len(t) : q[i] = p[i + 1]
    BY SMTT(30), <1>3, <1>4, <1>5, <1>6
  <1>8. \A i \in 1 .. Len(q) : q[i] = t[i]
    BY <1>4, <1>5, <1>7
  <1>9. q = t
    BY <1>7, <1>8, SameElements
  <1>10. ParsePrincipal(p) =
              IF /\ SplitInTwo(t) # <<>> /\ SplitInTwo(t)[1] = Role
                 /\ SplitInTwo(t)[2] # <<>>
              THEN SplitInTwo(t) ELSE <<>>
    BY <1>5, <1>6, <1>7, <1>9 DEF ParsePrincipal
  <1> QED
    BY <1>1, <1>2, <1>10

\* The only slash of a path is the one after the role if the name has none.
LEMMA PathSplits ==
    ASSUME NEW R, "a" \in R, "/" \in R, NEW name \in Seq(R)
    PROVE  /\ SplitInTwo(Path(name)) # <<>> => "/" \notin Range(name)
           /\ "/" \notin Range(name) => SplitInTwo(Path(name)) = <<Role, name>>
  <1>1. PICK s \in Seq(R) : s = Path(name)
    BY URIFacts, Zenon
  <1>2. /\ Len(s) = Len(name) + 2 /\ s[1] = "a" /\ s[2] = "/" /\ Len(name) \in Nat
        /\ \A i \in 3 .. Len(name) + 2 : s[i] = name[i - 2]
    BY <1>1, URIFacts
  <1>3. DOMAIN name = 1 .. Len(name)
    OBVIOUS
  <1>4. ASSUME SplitInTwo(s) # <<>>, "/" \in Range(name)
        PROVE  FALSE
    <2>1. PICK i \in 1 .. Len(s) : \A k \in 1 .. Len(s) : s[k] = "/" => k = i
      BY <1>4, SplitFacts
    <2>2. PICK k \in 1 .. Len(name) : name[k] = "/"
      BY <1>3, <1>4 DEF Range
    <2>3. k + 2 \in 3 .. Len(name) + 2 /\ (k + 2) - 2 = k /\ k + 2 \in 1 .. Len(s) /\ 2 \in 1 .. Len(s)
      BY <1>2
    <2>4. s[k + 2] = "/"
      BY <1>2, <2>2, <2>3
    <2> QED
      BY SMTT(30), <1>2, <2>1, <2>3, <2>4
  <1>5. ASSUME "/" \notin Range(name)
        PROVE  SplitInTwo(s) = <<Role, name>>
    <2>1. 2 \in 1 .. Len(s) /\ \A k \in 1 .. Len(s) : s[k] = "/" => k = 2
      <3>1. ASSUME NEW k \in 3 .. Len(name) + 2
            PROVE  s[k] # "/"
        <4>1. k - 2 \in DOMAIN name
          BY SMTT(30), <1>2, <1>3
        <4>2. name[k - 2] \in Range(name)
          BY <4>1 DEF Range
        <4> QED
          BY <1>2, <1>5, <4>2
      <3>2. \A k \in 1 .. Len(s) : k = 1 \/ k = 2 \/ k \in 3 .. Len(name) + 2
        BY <1>2
      <3> QED
        BY <1>2, <3>1, <3>2
    <2>2. SplitInTwo(s) = <<SubSeq(s, 1, 2 - 1), SubSeq(s, 2 + 1, Len(s))>>
      BY <1>2, <2>1, SplitFacts
    <2>3. SubSeq(s, 1, 1) = Role
      <3>1. PICK v, role : v = SubSeq(s, 1, 1) /\ role = <<"a">>
        OBVIOUS
      <3>2. 1 \in Nat \ {0} /\ 1 \in Nat /\ 1 <= 1 + 1 /\ 1 <= Len(s)
        BY <1>2
      <3>3. v \in Seq(R) /\ IsPart(v, s, 1, 1)
        BY <3>1, <3>2, SubSeqIs, Zenon
      <3>4. role \in Seq(R) /\ Len(role) = 1 /\ role[1] = "a"
        BY <3>1
      <3>5. Len(v) = 1 /\ v[1] = "a"
        BY <1>2, <3>3 DEF IsPart
      <3>6. v = role
        BY <3>3, <3>4, <3>5, SameElements
      <3> QED
        BY <3>1, <3>6 DEF Role
    <2>4. PICK r : r = SubSeq(s, 3, Len(s))
      OBVIOUS
    <2>5. r \in Seq(R) /\ Len(r) = Len(name) /\ \A i \in 1 .. Len(name) : r[i] = s[i + 2]
      <3>1. 3 \in Nat \ {0} /\ Len(s) \in Nat /\ 3 <= Len(s) + 1 /\ Len(s) <= Len(s)
        BY <1>2
      <3>2. r \in Seq(R) /\ IsPart(r, s, 3, Len(s))
        BY <2>4, <3>1, SubSeqIs, Zenon
      <3> QED
        BY SMTT(30), <1>2, <3>2 DEF IsPart
    <2>6. ASSUME NEW i \in 1 .. Len(name)
          PROVE  r[i] = name[i]
      <3>1. i + 2 \in 3 .. Len(name) + 2 /\ (i + 2) - 2 = i
        BY <1>2
      <3> QED
        BY <1>2, <2>5, <3>1
    <2>7. r = name
      BY <2>5, <2>6, SameElements
    <2> QED
      BY <2>2, <2>3, <2>4, <2>7
  <1> QED
    BY <1>1, <1>4, <1>5

\* A path that splits after the role is the path of the name it splits off.
LEMMA SplitIsPath ==
    ASSUME NEW R, "a" \in R, "/" \in R, NEW t \in Seq(R),
           SplitInTwo(t) # <<>>, SplitInTwo(t)[1] = Role
    PROVE  SplitInTwo(t)[2] \in Seq(R) /\ Path(SplitInTwo(t)[2]) = t
  <1>1. PICK i \in 1 .. Len(t) : t[i] = "/" /\ \A k \in 1 .. Len(t) : t[k] = "/" => k = i
    BY SplitFacts
  <1>2. SplitInTwo(t) = <<SubSeq(t, 1, i - 1), SubSeq(t, i + 1, Len(t))>>
    BY <1>1, SplitFacts
  <1>3. SubSeq(t, 1, i - 1) = <<"a">>
    BY <1>2 DEF Role
  <1>4. i = 2 /\ t[1] = "a" /\ Len(t) \in Nat /\ Len(t) >= 2
    <2>1. PICK v : v = SubSeq(t, 1, i - 1)
      OBVIOUS
    <2>2. /\ Len(t) \in Nat /\ 1 \in Nat \ {0} /\ i - 1 \in Nat
          /\ 1 <= (i - 1) + 1 /\ i - 1 <= Len(t)
      OBVIOUS
    <2>3. IsPart(v, t, 1, i - 1)
      BY <2>1, <2>2, SubSeqIs, Zenon
    <2>4. Len(<<"a">>) = 1 /\ <<"a">>[1] = "a"
      OBVIOUS
    <2>5. Len(v) = 1 /\ v[1] = "a"
      BY <1>3, <2>1, <2>4, Zenon
    <2>6. i = 2
      <3>1. Len(v) = ((i - 1) - 1) + 1
        BY <2>3, Zenon DEF IsPart
      <3>2. ((i - 1) - 1) + 1 = 1
        BY <2>5, <3>1, Zenon
      <3> QED
        BY <3>2
    <2>7. 1 \in 1 .. ((i - 1) - 1) + 1 /\ (1 - 1) + 1 = 1
      BY <2>6
    <2>8. v[1] = t[(1 - 1) + 1]
      BY <2>3, <2>7, Zenon DEF IsPart
    <2> QED
      BY <2>2, <2>5, <2>6, <2>7, <2>8
  <1>5. PICK r : r = SubSeq(t, 3, Len(t))
    OBVIOUS
  <1>6. r \in Seq(R) /\ Len(r) = Len(t) - 2 /\ \A k \in 1 .. Len(t) - 2 : r[k] = t[k + 2]
    <2>1. 3 \in Nat \ {0} /\ 3 <= Len(t) + 1 /\ Len(t) <= Len(t)
      BY <1>4
    <2>2. r \in Seq(R) /\ IsPart(r, t, 3, Len(t))
      BY <1>4, <1>5, <2>1, SubSeqIs, Zenon
    <2> QED
      BY SMTT(30), <1>4, <2>2 DEF IsPart
  <1>7. PICK s : s = Path(r)
    OBVIOUS
  <1>8. /\ s \in Seq(R) /\ Len(s) = Len(t) /\ s[1] = "a" /\ s[2] = "/"
        /\ \A k \in 3 .. Len(t) : s[k] = r[k - 2]
    BY <1>4, <1>6, <1>7, URIFacts
  <1>9. ASSUME NEW k \in 1 .. Len(s)
        PROVE  s[k] = t[k]
    <2>1. k = 1 \/ k = 2 \/ (k \in 3 .. Len(t) /\ k - 2 \in 1 .. Len(t) - 2 /\ (k - 2) + 2 = k)
      BY <1>4, <1>8
    <2> QED
      BY <1>1, <1>4, <1>6, <1>8, <2>1
  <1>10. s = t
    BY <1>8, <1>9, SameElements
  <1>11. SplitInTwo(t)[2] = r
    BY <1>2, <1>4, <1>5
  <1> QED
    BY <1>6, <1>7, <1>10, <1>11

\* A name that Sign accepts comes back from the certificate's URI, and ParsePrincipal
\* reads no path that Principal.URI would not have written, for paths of any length
\* and over any characters.
THEOREM PrincipalsRoundTrip ==
    ASSUME NEW S, label \in Seq(S)
    PROVE  PrincipalRoundTrip
  <1>1. PICK R : R = S \cup {"a", "/"}
    OBVIOUS
  <1>2. "a" \in R /\ "/" \in R /\ label \in Seq(R)
    <2>1. \A x : x \in S => x \in R
      BY <1>1
    <2> QED
      BY <1>1, <2>1
  <1>3. ParsePrincipal(URI(label)) =
            IF "/" \notin Range(label) /\ label # <<>> THEN <<Role, label>> ELSE <<>>
    <2>1. URI(label) = <<"/">> \o Path(label) /\ Path(label) \in Seq(R)
      BY <1>2, URIFacts
    <2>2. PICK t \in Seq(R) : t = Path(label)
      BY <2>1
    <2>3. ParsePrincipal(<<"/">> \o t) =
              IF SplitInTwo(t) # <<>> /\ SplitInTwo(t)[1] = Role /\ SplitInTwo(t)[2] # <<>>
              THEN SplitInTwo(t) ELSE <<>>
      BY <1>2, ParseFacts
    <2>4. /\ SplitInTwo(t) # <<>> => "/" \notin Range(label)
          /\ "/" \notin Range(label) => SplitInTwo(t) = <<Role, label>>
      BY <1>2, <2>2, PathSplits
    <2>5. /\ <<Role, label>> # <<>> /\ <<Role, label>>[1] = Role
          /\ <<Role, label>>[2] = label
      OBVIOUS
    <2> QED
      BY <2>1, <2>2, <2>3, <2>4, <2>5, Zenon
  <1>4. ASSUME validateLabel(label)
        PROVE  "/" \notin Range(label) /\ label # <<>>
    <2>1. label # <<>> /\ \A i \in 1 .. Len(label) : label[i] \in LabelChars
      BY <1>2, <1>4, ValidatorFacts
    <2>2. DOMAIN label = 1 .. Len(label) /\ "/" \notin LabelChars
      BY <1>2 DEF LabelChars, Alnum
    <2> QED
      BY <2>1, <2>2 DEF Range
  <1>5. ASSUME ParsePrincipal(<<"/">> \o label) # <<>>
        PROVE  URI(ParsePrincipal(<<"/">> \o label)[2]) = <<"/">> \o label
    <2>1. /\ SplitInTwo(label) # <<>> /\ SplitInTwo(label)[1] = Role
          /\ ParsePrincipal(<<"/">> \o label) = SplitInTwo(label)
      BY <1>2, <1>5, ParseFacts
    <2>2. PICK r \in Seq(R) : r = SplitInTwo(label)[2] /\ Path(r) = label
      BY SMTT(30), <1>2, <2>1, SplitIsPath
    <2>3. URI(r) = <<"/">> \o Path(r)
      BY <1>2, URIFacts
    <2> QED
      BY <2>1, <2>2, <2>3
  <1> QED
    BY <1>3, <1>4, <1>5 DEF PrincipalRoundTrip

-----------------------------------------------------------------------------
(***************************************************************************)
(* Advert.                                                                 *)
(***************************************************************************)

\* The key of record at i occurs there first.
IsFirst(record, key, i) ==
    /\ i \in DOMAIN record /\ record[i][1] = key
    /\ \A k \in DOMAIN record : record[k][1] = key => i <= k

LEMMA LookupFacts ==
    ASSUME NEW R, NEW record \in Seq(R), NEW key
    PROVE  /\ \A i : IsFirst(record, key, i) => Lookup(record, key) = record[i][2]
           /\ (\A i \in DOMAIN record : record[i][1] # key) => Lookup(record, key) = Empty
           /\ Lookup(record, key) # Empty => \E i : IsFirst(record, key, i)
  <1> DEFINE at == {i \in DOMAIN record : record[i][1] = key}
  <1>1. at \subseteq Nat
    OBVIOUS
  <1>2. ASSUME NEW i, IsFirst(record, key, i)
        PROVE  Lookup(record, key) = record[i][2]
    <2>1. i \in at /\ \A k \in at : i <= k
      BY <1>2 DEF IsFirst
    <2>2. \A m \in at : (\A k \in at : m <= k) => m = i
      <3> SUFFICES ASSUME NEW m \in at, \A k \in at : m <= k PROVE m = i
        OBVIOUS
      <3>1. m <= i /\ i <= m /\ m \in Nat /\ i \in Nat
        BY <1>1, <2>1
      <3> QED
        BY <3>1
    <2>3. (CHOOSE m \in at : \A k \in at : m <= k) = i
      <3> HIDE DEF at
      <3> QED
        BY <2>1, <2>2
    <2>4. at # {}
      BY <2>1
    <2> QED
      BY <2>3, <2>4 DEF Lookup
  <1>3. ASSUME \A i \in DOMAIN record : record[i][1] # key
        PROVE  Lookup(record, key) = Empty
    <2>1. at = {}
      BY <1>3
    <2> QED
      BY <2>1 DEF Lookup
  <1>4. ASSUME Lookup(record, key) # Empty
        PROVE  \E i : IsFirst(record, key, i)
    <2>1. at # {}
      BY <1>4 DEF Lookup
    <2>2. PICK i \in at : \A k \in at : i <= k
      <3> HIDE DEF at
      <3> QED
        BY <1>1, <2>1, LeastMember, Zenon
    <2> QED
      BY <2>2 DEF IsFirst
  <1> QED
    BY <1>2, <1>3, <1>4

\* The ports that the strings stand for, and back.
LEMMA PortFacts ==
    \A n \in {1, MaxPort} : Itoa(n) # Empty /\ Atoi(Itoa(n)) = n /\ n \in Port /\ n > 0
  <1>1. MaxPort \in Nat /\ MaxPort > 1
    BY SMT DEF MaxPort
  <1>2. Atoi("1") = 1 /\ Atoi("65535") = MaxPort /\ Atoi(Empty) = -1
    <2>1. Atoi("1") = 1 /\ Atoi("65535") = MaxPort
      BY SMT DEF Atoi
    <2>2. Empty # "0" /\ Empty # "1" /\ Empty # "65535" /\ Empty # "65536"
      BY Zenon DEF Empty
    <2>3. Atoi(Empty) = -1
      BY <2>2, SMT DEF Atoi
    <2> QED
      BY <2>1, <2>3
  <1>3. ASSUME NEW n \in {1, MaxPort}
        PROVE  Itoa(n) # Empty /\ Atoi(Itoa(n)) = n /\ n \in Port /\ n > 0
    <2>1. \E s \in PortStrings : Atoi(s) = n
      <3>1. "1" \in PortStrings /\ "65535" \in PortStrings
        BY DEF PortStrings
      <3>2. n = 1 \/ n = MaxPort
        OBVIOUS
      <3> QED
        BY <1>2, <3>1, <3>2, Zenon
    <2>2. Atoi(Itoa(n)) = n
      BY <2>1, SMT DEF Itoa
    <2>3. n \in Port /\ n > 0 /\ n # -1
      BY <1>1, SMT DEF Port
    <2> QED
      BY <1>2, <2>2, <2>3, Zenon
  <1> QED
    BY <1>3, Zenon

\* What TXT writes for a, with what a later version appended, reads as a.
LEMMA TXTFacts ==
    ASSUME NEW S, NEW more \in Seq(S), NEW a,
           a.grpc \in {1, MaxPort}, a.pair \in {0, 1, MaxPort}, IsLater(more, TXT(a))
    PROVE  /\ Lookup(TXT(a) \o more, "node_id") = a.node
           /\ Lookup(TXT(a) \o more, "mesh_id") = a.mesh
           /\ Lookup(TXT(a) \o more, "grpc_port") = Itoa(a.grpc)
           /\ Lookup(TXT(a) \o more, "pair_port") = IF a.pair = 0 THEN Empty ELSE Itoa(a.pair)
           /\ Lookup(TXT(a) \o more, "fingerprint") = a.fp
  <1>1. PICK n, m, g, p, f :
            /\ n = <<"node_id", a.node>> /\ m = <<"mesh_id", a.mesh>>
            /\ g = <<"grpc_port", Itoa(a.grpc)>> /\ p = <<"pair_port", Itoa(a.pair)>>
            /\ f = <<"fingerprint", a.fp>>
    OBVIOUS
  <1>2. /\ n[1] = "node_id" /\ n[2] = a.node /\ m[1] = "mesh_id" /\ m[2] = a.mesh
        /\ g[1] = "grpc_port" /\ g[2] = Itoa(a.grpc) /\ p[1] = "pair_port" /\ p[2] = Itoa(a.pair)
        /\ f[1] = "fingerprint" /\ f[2] = a.fp
    BY SMTT(30), <1>1
  <1>3. PICK R : R = S \cup {n, m, g, p, f}
    OBVIOUS
  <1>4. PICK base, opt1, opt2 :
            /\ base = <<n, m, g>>
            /\ opt1 = IF a.pair > 0 THEN <<p>> ELSE <<>>
            /\ opt2 = IF a.fp # Empty THEN <<f>> ELSE <<>>
    OBVIOUS
  <1>5. /\ base \in Seq(R) /\ Len(base) = 3 /\ base[1] = n /\ base[2] = m /\ base[3] = g
        /\ opt1 \in Seq(R) /\ opt2 \in Seq(R) /\ more \in Seq(R)
    <2>1. n \in R /\ m \in R /\ g \in R /\ p \in R /\ f \in R /\ \A x \in S : x \in R
      BY <1>3
    <2>2. base \in Seq(R) /\ Len(base) = 3 /\ base[1] = n /\ base[2] = m /\ base[3] = g
      BY <1>4, <2>1
    <2>3. opt1 \in Seq(R) /\ opt2 \in Seq(R)
      BY <1>4, <2>1
    <2>4. more \in Seq(R)
      BY <2>1
    <2> QED
      BY <2>2, <2>3, <2>4
  <1>6. PICK v, r, w : v = base \o opt1 /\ r = v \o opt2 /\ w = r \o more
    OBVIOUS
  <1>7. TXT(a) = r
    BY <1>1, <1>4, <1>6, Zenon DEF TXT
  <1>8. v \in Seq(R) /\ IsConcat(v, base, opt1)
    BY <1>5, <1>6, ConcatIs, Zenon
  <1>9. r \in Seq(R) /\ IsConcat(r, v, opt2)
    BY <1>5, <1>6, <1>8, ConcatIs, Zenon
  <1>10. w \in Seq(R) /\ IsConcat(w, r, more)
    BY <1>5, <1>6, <1>9, ConcatIs, Zenon
  <1>11. /\ Len(v) = IF a.pair > 0 THEN 4 ELSE 3
         /\ v[1] = n /\ v[2] = m /\ v[3] = g /\ (a.pair > 0 => v[4] = p)
    <2>1. CASE a.pair > 0
      <3>1. Len(opt1) = 1 /\ opt1[1] = p
        BY <1>4, <2>1
      <3> QED
        BY <1>5, <1>8, <2>1, <3>1 DEF IsConcat
    <2>2. CASE ~(a.pair > 0)
      <3>1. Len(opt1) = 0
        BY <1>4, <2>2
      <3> QED
        BY <1>5, <1>8, <2>2, <3>1 DEF IsConcat
    <2> QED
      BY <2>1, <2>2
  <1>12. /\ Len(r) = IF a.fp # Empty THEN Len(v) + 1 ELSE Len(v)
         /\ \A i \in 1 .. Len(v) : r[i] = v[i]
         /\ a.fp # Empty => r[Len(v) + 1] = f
    <2>1. CASE a.fp # Empty
      <3>1. Len(opt2) = 1 /\ opt2[1] = f
        BY <1>4, <2>1
      <3> QED
        BY <1>9, <1>11, <2>1, <3>1 DEF IsConcat
    <2>2. CASE ~(a.fp # Empty)
      <3>1. Len(opt2) = 0
        BY <1>4, <2>2
      <3> QED
        BY <1>9, <1>11, <2>2, <3>1 DEF IsConcat
    <2> QED
      BY SMTT(30), <2>1, <2>2
  <1>13. /\ DOMAIN w = 1 .. Len(r) + Len(more) /\ DOMAIN r = 1 .. Len(r) /\ Len(r) \in Nat
         /\ \A i \in 1 .. Len(r) : w[i] = r[i]
         /\ Len(more) \in Nat /\ \A i \in 1 .. Len(more) : w[Len(r) + i] = more[i]
    <2>1. DOMAIN w = 1 .. Len(w) /\ DOMAIN r = 1 .. Len(r) /\ Len(r) \in Nat /\ Len(more) \in Nat
      BY <1>9, <1>10
    <2> QED
      BY <1>10, <2>1 DEF IsConcat
  <1>14. \A key \in Keys : (\A i \in 1 .. Len(r) : r[i][1] # key)
                              => \A i \in DOMAIN w : w[i][1] # key
    <2> SUFFICES ASSUME NEW key \in Keys, \A i \in 1 .. Len(r) : r[i][1] # key,
                        NEW i \in DOMAIN w
                 PROVE  w[i][1] # key
      OBVIOUS
    <2>1. CASE i <= Len(r)
      BY <1>13, <2>1
    <2>2. CASE i > Len(r)
      <3>1. i - Len(r) \in 1 .. Len(more) /\ Len(r) + (i - Len(r)) = i
        BY <1>13, <2>2
      <3>2. DOMAIN more = 1 .. Len(more)
        OBVIOUS
      <3>3. w[i] = more[i - Len(r)]
        BY <1>13, <3>1
      <3>4. more[i - Len(r)][1] # key
        BY <1>7, <1>13, <3>1, <3>2 DEF IsLater
      <3> QED
        BY <3>3, <3>4
    <2> QED
      BY <1>13, <2>1, <2>2
  <1>15. \A i \in 1 .. Len(r) : /\ i = 1 => w[i] = n
                                /\ i = 2 => w[i] = m
                                /\ i = 3 => w[i] = g
                                /\ i = 4 /\ a.pair > 0 => w[i] = p
                                /\ i = 4 /\ ~(a.pair > 0) => w[i] = f
                                /\ i > 4 => w[i] = f /\ i = 5 /\ a.pair > 0
                                /\ w[i] = r[i]
    <2>1. ASSUME NEW i \in 1 .. Len(r)
          PROVE  (i = Len(v) + 1 /\ a.fp # Empty) \/ i \in 1 .. Len(v)
      BY <1>11, <1>12
    <2> QED
      BY SMTT(30), <1>11, <1>12, <1>13, <2>1
  <1>16. Len(r) >= 3 /\ \A k \in DOMAIN w : k \in Nat /\ k >= 1 /\ (k <= Len(r) => k \in 1 .. Len(r))
    BY SMTT(30), <1>11, <1>12, <1>13
  <1>17. IsFirst(w, "node_id", 1) /\ IsFirst(w, "mesh_id", 2) /\ IsFirst(w, "grpc_port", 3)
    <2>1. w[1] = n /\ w[2] = m /\ w[3] = g /\ {1, 2, 3} \subseteq DOMAIN w
      BY <1>13, <1>15, <1>16
    <2>2. \A k \in DOMAIN w : k = 1 \/ k = 2 \/ k >= 3
      BY <1>16
    <2> QED
      BY <1>2, <1>16, <2>1, <2>2 DEF IsFirst
  <1>18. Lookup(w, "pair_port") = IF a.pair = 0 THEN Empty ELSE Itoa(a.pair)
    <2>1. a.pair = 0 <=> ~(a.pair > 0)
      BY SMTT(30), PortFacts
    <2>2. CASE a.pair > 0
      <3>1. 4 \in 1 .. Len(r) /\ 4 \in DOMAIN w /\ w[4] = p
        BY <1>11, <1>12, <1>13, <1>15, <2>2
      <3>2. \A k \in DOMAIN w : k = 1 \/ k = 2 \/ k = 3 \/ k >= 4
        BY SMTT(30), <1>16
      <3>3. IsFirst(w, "pair_port", 4)
        BY <1>2, <1>15, <1>16, <3>1, <3>2 DEF IsFirst
      <3> QED
        BY <1>2, <1>10, <2>1, <2>2, <3>1, <3>3, LookupFacts
    <2>3. CASE ~(a.pair > 0)
      <3>1. \A i \in 1 .. Len(r) : i = 1 \/ i = 2 \/ i = 3 \/ i = 4
        BY <1>11, <1>12, <2>3
      <3>2. \A i \in 1 .. Len(r) : r[i][1] # "pair_port"
        BY <1>2, <1>15, <2>3, <3>1
      <3>3. \A i \in DOMAIN w : w[i][1] # "pair_port"
        BY <1>14, <3>2 DEF Keys
      <3> QED
        BY <1>10, <2>1, <2>3, <3>3, LookupFacts
    <2> QED
      BY <2>2, <2>3
  <1>19. Lookup(w, "fingerprint") = a.fp
    <2>1. \A i \in 1 .. Len(v) : w[i][1] # "fingerprint"
      <3>1. \A i \in 1 .. Len(v) : i = 1 \/ i = 2 \/ i = 3 \/ (i = 4 /\ a.pair > 0)
        BY <1>11
      <3>2. \A i \in 1 .. Len(v) : i \in 1 .. Len(r)
        BY SMTT(30), <1>11, <1>12
      <3> QED
        BY <1>2, <1>15, <3>1, <3>2
    <2>2. CASE a.fp # Empty
      <3>1. Len(r) \in DOMAIN w /\ w[Len(r)] = f /\ Len(r) = Len(v) + 1
        BY <1>11, <1>12, <1>13, <2>2
      <3>2. \A k \in DOMAIN w : k \in 1 .. Len(v) \/ Len(r) <= k
        BY <1>11, <1>16, <3>1
      <3>3. IsFirst(w, "fingerprint", Len(r))
        BY <1>2, <2>1, <3>1, <3>2 DEF IsFirst
      <3> QED
        BY <1>2, <1>10, <3>1, <3>3, LookupFacts
    <2>3. CASE a.fp = Empty
      <3>1. \A i \in 1 .. Len(r) : r[i][1] # "fingerprint"
        BY <1>12, <1>13, <2>1, <2>3
      <3>2. \A i \in DOMAIN w : w[i][1] # "fingerprint"
        BY SMTT(30), <1>14, <3>1 DEF Keys
      <3> QED
        BY <1>10, <2>3, <3>2, LookupFacts
    <2> QED
      BY <2>2, <2>3
  <1>20. /\ Lookup(w, "node_id") = a.node /\ Lookup(w, "mesh_id") = a.mesh
         /\ Lookup(w, "grpc_port") = Itoa(a.grpc)
    <2>1. w[1] = n /\ w[2] = m /\ w[3] = g
      BY <1>13, <1>15, <1>16
    <2> QED
      BY <1>2, <1>10, <1>17, <2>1, LookupFacts
  <1> QED
    BY <1>6, <1>7, <1>18, <1>19, <1>20, Zenon

\* A peer reads with ParseTXT what TXT wrote, whatever later versions append to the
\* record: any number of new keys and of known ones again.
THEOREM AnnouncementsAreRead ==
    ASSUME NEW S, txt \in Seq(S)
    PROVE  AnnouncementIsRead
  <1> SUFFICES ASSUME NEW a \in Announced, IsLater(txt, TXT(a))
               PROVE  /\ ParseTXTError(TXT(a) \o txt) = "none"
                      /\ ParseTXT(TXT(a) \o txt) = a
    BY DEF AnnouncementIsRead
  <1>1. /\ a \in [node : NodeIDs, mesh : MeshIDs, grpc : {1, MaxPort},
                  pair : {0, 1, MaxPort}, fp : Fingerprints \cup {Empty}]
        /\ a.node \in NodeIDs /\ a.mesh \in MeshIDs
        /\ a.grpc \in {1, MaxPort} /\ a.pair \in {0, 1, MaxPort}
    BY DEF Announced
  <1>2. a.node # Empty /\ a.mesh # Empty
    BY <1>1, AdvertAssumption
  <1>3. PICK w : w = TXT(a) \o txt
    OBVIOUS
  <1>4. /\ Lookup(w, "node_id") = a.node /\ Lookup(w, "mesh_id") = a.mesh
        /\ Lookup(w, "grpc_port") = Itoa(a.grpc)
        /\ Lookup(w, "pair_port") = IF a.pair = 0 THEN Empty ELSE Itoa(a.pair)
        /\ Lookup(w, "fingerprint") = a.fp
    BY SMTT(30), <1>1, <1>3, TXTFacts
  <1>5. Itoa(a.grpc) # Empty /\ Atoi(Itoa(a.grpc)) = a.grpc /\ a.grpc \in Port
    BY <1>1, PortFacts
  <1>6. a.pair # 0 => /\ Itoa(a.pair) # Empty /\ Atoi(Itoa(a.pair)) = a.pair
                      /\ a.pair \in Port
    BY <1>1, PortFacts
  <1>7. ParseTXTError(w) = "none"
    BY <1>2, <1>4, <1>5, <1>6, Zenon DEF ParseTXTError
  <1>8. ParseTXT(w) = Advertisement(a.node, a.mesh, a.grpc, a.pair, a.fp)
    BY <1>4, <1>5, <1>6, Zenon DEF ParseTXT
  <1>9. Advertisement(a.node, a.mesh, a.grpc, a.pair, a.fp) = a
    BY <1>1 DEF Advertisement
  <1> QED
    BY <1>3, <1>7, <1>8, <1>9
=============================================================================
