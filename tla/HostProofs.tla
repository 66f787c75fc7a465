----------------------------- MODULE HostProofs -----------------------------
(***************************************************************************)
(* Proofs about Formats and Interfaces, for codes, host names and tables   *)
(* of interfaces of any length: what a host prints or announces about      *)
(* itself is what works for the one who types, dials or browses for it.    *)
(***************************************************************************)
EXTENDS Formats, Interfaces, DataTheorems

-----------------------------------------------------------------------------
(***************************************************************************)
(* Formats.                                                                *)
(***************************************************************************)

\* The domain is repeated at the end of the first m characters of s.
Repeats(s, m) ==
    m >= 4 /\ s[m - 3] = "." /\ s[m - 2] = "local" /\ s[m - 1] = "." /\ s[m] = "local"

LEMMA RepeatsFacts ==
    ASSUME NEW S, NEW s \in Seq(S), NEW m \in Int, m <= Len(s)
    PROVE  HasSuffix(SubSeq(s, 1, m), Domain \o Domain) <=> Repeats(s, m)
  <1>1. PICK w, t : w = SubSeq(s, 1, m) /\ t = Domain \o Domain
    OBVIOUS
  <1>2. PICK R, d : R = {".", "local"} /\ d = Domain
    OBVIOUS
  <1>21. d \in Seq(R) /\ Len(d) = 2 /\ d[1] = "." /\ d[2] = "local"
    BY <1>2 DEF Domain
  <1>22. t \in Seq(R) /\ IsConcat(t, d, d)
    BY <1>1, <1>2, <1>21, ConcatIs, Zenon
  <1>3. Len(t) = 4 /\ t[1] = "." /\ t[2] = "local" /\ t[3] = "." /\ t[4] = "local"
    BY <1>21, <1>22 DEF IsConcat
  <1>4. CASE m < 0
    <2>1. w = <<>>
      BY <1>1, <1>4
    <2>2. Len(w) = 0
      BY <2>1
    <2> QED
      BY <1>1, <1>3, <1>4, <2>2 DEF HasSuffix, Repeats
  <1>5. CASE m >= 0
    <2>1. m \in Nat /\ 1 \in Nat \ {0} /\ 1 <= m + 1
      BY <1>5
    <2>2. w \in Seq(S) /\ IsPart(w, s, 1, m)
      BY <1>1, <2>1, SubSeqIs, Zenon
    <2>3. Len(w) = m /\ \A i \in 1 .. m : w[i] = s[i]
      BY <2>1, <2>2 DEF IsPart
    <2>4. CASE m < 4
      BY <1>1, <1>3, <2>3, <2>4 DEF HasSuffix, Repeats
    <2>5. CASE m >= 4
      <3>1. PICK v : v = SubSeq(w, (Len(w) - Len(t)) + 1, Len(w))
        OBVIOUS
      <3>2. PICK k : k = (Len(w) - Len(t)) + 1
        OBVIOUS
      <3>3. /\ k = m - 3 /\ k \in Nat \ {0} /\ Len(w) \in Nat /\ k <= Len(w) + 1
            /\ Len(w) <= Len(w) /\ v = SubSeq(w, k, Len(w))
        BY <1>3, <2>1, <2>3, <2>5, <3>1, <3>2
      <3>4. v \in Seq(S) /\ IsPart(v, w, k, Len(w))
        BY <2>2, <3>3, SubSeqIs, Zenon
      <3>5. /\ Len(v) = 4 /\ v[1] = s[m - 3] /\ v[2] = s[m - 2]
            /\ v[3] = s[m - 1] /\ v[4] = s[m]
        BY <2>1, <2>3, <2>5, <3>3, <3>4 DEF IsPart
      <3>6. v = t <=> v[1] = t[1] /\ v[2] = t[2] /\ v[3] = t[3] /\ v[4] = t[4]
        <4>1. PICK Q : Q = S \cup R
          OBVIOUS
        <4>2. v \in Seq(Q) /\ t \in Seq(Q)
          BY <1>22, <3>4, <4>1
        <4>3. ASSUME v[1] = t[1] /\ v[2] = t[2] /\ v[3] = t[3] /\ v[4] = t[4]
              PROVE  v = t
          <5>1. \A i \in 1 .. Len(v) : i = 1 \/ i = 2 \/ i = 3 \/ i = 4
            BY <3>5
          <5>2. Len(v) = Len(t) /\ \A i \in 1 .. Len(v) : v[i] = t[i]
            BY <1>3, <3>5, <4>3, <5>1
          <5> QED
            BY <4>2, <5>2, SameElements, Zenon
        <4> QED
          BY <4>3
      <3>7. HasSuffix(w, t) <=> v = t
        BY <1>3, <2>3, <2>5, <3>1 DEF HasSuffix
      <3> QED
        BY <1>1, <1>3, <2>5, <3>5, <3>6, <3>7, SMTT(30) DEF Repeats
    <2> QED
      BY <2>1, <2>4, <2>5
  <1> QED
    BY <1>4, <1>5

\* The loop of normalizeHost on s ends after k turns.
Turns(s, k) ==
    /\ k \in 0 .. Len(s) /\ ~Repeats(s, Len(s) - 2 * k)
    /\ \A j \in 0 .. Len(s) : ~Repeats(s, Len(s) - 2 * j) => k <= j

LEMMA NormalizeFacts ==
    ASSUME NEW S, NEW s \in Seq(S), NEW h, s = TrimSuffix(h, <<".">>)
    PROVE  \E k : Turns(s, k) /\ normalizeHost(h) = SubSeq(s, 1, Len(s) - 2 * k)
  <1> DEFINE ends == {n \in 0 .. Len(s) :
                         ~HasSuffix(SubSeq(s, 1, Len(s) - n * Len(Domain)), Domain \o Domain)}
             first == CHOOSE n \in ends : \A m \in ends : n <= m
  <1>1. Len(s) \in Nat
    OBVIOUS
  <1>2. Len(Domain) = 2
    BY DEF Domain
  <1>3. ASSUME NEW n \in 0 .. Len(s)
        PROVE  /\ Len(s) - n * Len(Domain) = Len(s) - 2 * n
               /\ n \in ends <=> ~Repeats(s, Len(s) - 2 * n)
    <2>1. PICK m : m = Len(s) - n * Len(Domain)
      OBVIOUS
    <2>2. m = Len(s) - 2 * n /\ m \in Int /\ m <= Len(s)
      BY <1>1, <1>2, <2>1
    <2>3. HasSuffix(SubSeq(s, 1, m), Domain \o Domain) <=> Repeats(s, m)
      BY <2>2, RepeatsFacts
    <2>4. n \in ends <=> ~HasSuffix(SubSeq(s, 1, m), Domain \o Domain)
      BY <2>1, Zenon
    <2> QED
      BY <2>1, <2>2, <2>3, <2>4, Zenon
  <1>4. ends \subseteq 0 .. Len(s)
    BY Zenon
  <1>5. normalizeHost(h) = SubSeq(s, 1, Len(s) - first * Len(Domain))
    BY Zenon DEF normalizeHost
  <1> HIDE DEF ends
  <1>6. Len(s) \in ends
    <2>1. Len(s) \in 0 .. Len(s) /\ ~Repeats(s, Len(s) - 2 * Len(s))
      BY <1>1 DEF Repeats
    <2> QED
      BY <1>3, <2>1
  <1>7. \E n \in ends : \A m \in ends : n <= m
    <2>1. ends \subseteq Nat /\ ends # {}
      BY <1>1, <1>4, <1>6
    <2> QED
      BY <2>1, LeastMember, Zenon
  <1>8. first \in ends /\ \A m \in ends : first <= m
    BY <1>7, Zenon
  <1> HIDE DEF first
  <1>9. Turns(s, first)
    BY <1>3, <1>4, <1>8 DEF Turns
  <1>10. Len(s) - first * Len(Domain) = Len(s) - 2 * first
    BY <1>3, <1>4, <1>8
  <1> QED
    BY <1>5, <1>9, <1>10, Zenon

\* TrimSuffix removes a final dot.
LEMMA FinalDot ==
    ASSUME NEW S, NEW h \in Seq(S), NEW n \in Nat, Len(h) = n + 1
    PROVE  TrimSuffix(h, <<".">>) = IF h[n + 1] = "." THEN SubSeq(h, 1, n) ELSE h
  <1>1. PICK t : t = <<".">>
    OBVIOUS
  <1>2. t \in Seq({"."}) /\ Len(t) = 1 /\ t[1] = "."
    BY <1>1
  <1>3. PICK w : w = SubSeq(h, (Len(h) - Len(t)) + 1, Len(h))
    OBVIOUS
  <1>4. PICK k, m : k = (Len(h) - Len(t)) + 1 /\ m = Len(h)
    OBVIOUS
  <1>5. /\ k = n + 1 /\ m = n + 1 /\ k \in Nat \ {0} /\ m \in Nat /\ k <= m + 1 /\ m <= Len(h)
        /\ w = SubSeq(h, k, m)
    BY <1>2, <1>3, <1>4
  <1>6. w \in Seq(S) /\ IsPart(w, h, k, m)
    BY <1>5, SubSeqIs, Zenon
  <1>7. Len(w) = 1 /\ w[1] = h[n + 1]
    BY <1>5, <1>6 DEF IsPart
  <1>8. w = t <=> h[n + 1] = "."
    <2>1. PICK Q : Q = S \cup {"."}
      OBVIOUS
    <2>2. w \in Seq(Q) /\ t \in Seq(Q)
      BY <1>2, <1>6, <2>1
    <2>3. ASSUME h[n + 1] = "." PROVE w = t
      <3>1. Len(w) = Len(t) /\ \A i \in 1 .. Len(w) : w[i] = t[i]
        BY <1>2, <1>7, <2>3
      <3> QED
        BY <2>2, <3>1, SameElements, Zenon
    <2> QED
      BY <1>2, <1>7, <2>3
  <1>9. HasSuffix(h, t) <=> h[n + 1] = "."
    BY <1>2, <1>3, <1>8 DEF HasSuffix
  <1>10. Len(h) - Len(t) = n
    BY <1>2
  <1> QED
    BY <1>1, <1>9, <1>10, Zenon DEF TrimSuffix

\* A host name of any length that ends with the domain is normalized to the same name
\* when zeroconf repeats the domain once more, with or without a final dot
\* (normalizeHost of internal/discovery/mdns.go).
THEOREM HostNamesAreStable ==
    ASSUME NEW S, text \in Seq(S)
    PROVE  HostNameIsStable
  <1> SUFFICES ASSUME HasSuffix(text, Domain), NEW dot \in {<<>>, <<".">>}
               PROVE  normalizeHost(text \o Domain \o dot) = normalizeHost(text)
    BY Zenon DEF HostNameIsStable
  <1>1. PICK t, d, n : t = text /\ d = Domain /\ n = Len(text)
    OBVIOUS
  <1>2. PICK Q : Q = S \cup {".", "local"}
    OBVIOUS
  <1>3. /\ t \in Seq(Q) /\ n \in Nat /\ Len(t) = n
        /\ d \in Seq(Q) /\ Len(d) = 2 /\ d[1] = "." /\ d[2] = "local"
    BY <1>1, <1>2 DEF Domain
  <1>4. n >= 2 /\ t[n - 1] = "." /\ t[n] = "local"
    <2>1. n >= 2 /\ SubSeq(t, (n - 2) + 1, n) = d
      BY <1>1, <1>3 DEF HasSuffix
    <2>2. PICK w, k : w = SubSeq(t, k, n) /\ k = (n - 2) + 1
      OBVIOUS
    <2>3. k = n - 1 /\ k \in Nat \ {0} /\ n \in Nat /\ k <= n + 1 /\ n <= Len(t)
      BY <1>3, <2>1, <2>2
    <2>4. IsPart(w, t, k, n)
      BY <1>3, <2>2, <2>3, SubSeqIs, Zenon
    <2>5. w[1] = t[n - 1] /\ w[2] = t[n]
      BY <2>1, <2>3, <2>4 DEF IsPart
    <2>6. w = d
      BY <2>1, <2>2, Zenon
    <2> QED
      BY <1>3, <2>1, <2>5, <2>6
  <1>5. PICK u : u = t \o d
    OBVIOUS
  <1>6. u \in Seq(Q) /\ IsConcat(u, t, d)
    BY <1>3, <1>5, ConcatIs, Zenon
  <1>7. /\ Len(u) = n + 2 /\ (\A i \in 1 .. n : u[i] = t[i])
        /\ u[n + 1] = "." /\ u[n + 2] = "local"
    BY <1>3, <1>6 DEF IsConcat
  <1>8. TrimSuffix(t, <<".">>) = t
    <2>1. n - 1 \in Nat /\ Len(t) = (n - 1) + 1 /\ ~(t[(n - 1) + 1] = ".")
      BY <1>3, <1>4
    <2> QED
      BY <1>3, <2>1, FinalDot
  <1>9. TrimSuffix(u \o dot, <<".">>) = u
    <2>1. CASE dot = <<>>
      <3>1. u \o dot = u
        BY <1>6, <2>1
      <3>2. n + 1 \in Nat /\ Len(u) = (n + 1) + 1 /\ ~(u[(n + 1) + 1] = ".")
        BY <1>3, <1>7
      <3>3. TrimSuffix(u, <<".">>) = u
        BY <1>6, <3>2, FinalDot
      <3> QED
        BY <3>1, <3>3
    <2>2. CASE dot = <<".">>
      <3>1. PICK v, m : v = u \o dot /\ m = n + 2
        OBVIOUS
      <3>2. dot \in Seq(Q) /\ Len(dot) = 1 /\ dot[1] = "."
        BY <1>2, <2>2
      <3>3. v \in Seq(Q) /\ IsConcat(v, u, dot)
        BY <1>6, <3>1, <3>2, ConcatIs, Zenon
      <3>4. m \in Nat /\ Len(v) = m + 1 /\ v[m + 1] = "." /\ \A i \in 1 .. m : v[i] = u[i]
        BY <1>3, <1>7, <3>1, <3>2, <3>3 DEF IsConcat
      <3>5. TrimSuffix(v, <<".">>) = SubSeq(v, 1, m)
        BY <3>3, <3>4, FinalDot
      <3>6. PICK w : w = SubSeq(v, 1, m)
        OBVIOUS
      <3>7. 1 \in Nat \ {0} /\ 1 <= m + 1 /\ m <= Len(v)
        BY <3>4
      <3>8. w \in Seq(Q) /\ IsPart(w, v, 1, m)
        BY <3>3, <3>4, <3>6, <3>7, SubSeqIs, Zenon
      <3>9. Len(w) = Len(u) /\ \A i \in 1 .. Len(w) : w[i] = u[i]
        <4>1. Len(w) = m /\ \A i \in 1 .. m : w[i] = v[i]
          BY <3>4, <3>8 DEF IsPart
        <4> QED
          BY <1>7, <3>1, <3>4, <4>1
      <3>10. w = u
        BY <1>6, <3>8, <3>9, SameElements, Zenon
      <3> QED
        BY <3>1, <3>5, <3>6, <3>10
    <2> QED
      BY <2>1, <2>2
  <1>10. PICK k : Turns(t, k) /\ normalizeHost(t) = SubSeq(t, 1, Len(t) - 2 * k)
    BY <1>3, <1>8, NormalizeFacts
  <1>11. PICK l : Turns(u, l) /\ normalizeHost(u \o dot) = SubSeq(u, 1, Len(u) - 2 * l)
    BY <1>6, <1>9, NormalizeFacts
  <1>12. \A m \in Int : m <= n => (Repeats(u, m) <=> Repeats(t, m))
    BY <1>3, <1>7 DEF Repeats
  <1>13. Repeats(u, n + 2)
    BY <1>3, <1>4, <1>7 DEF Repeats
  <1>14. /\ k \in 0 .. n /\ ~Repeats(t, n - 2 * k)
         /\ \A j \in 0 .. n : ~Repeats(t, n - 2 * j) => k <= j
    BY <1>3, <1>10 DEF Turns
  <1>15. /\ l \in 0 .. n + 2 /\ ~Repeats(u, (n + 2) - 2 * l)
         /\ \A j \in 0 .. n + 2 : ~Repeats(u, (n + 2) - 2 * j) => l <= j
    BY <1>3, <1>7, <1>11 DEF Turns
  <1>16. l = k + 1
    <2>1. l # 0
      <3>1. l = 0 => (n + 2) - 2 * l = n + 2
        BY <1>3
      <3> QED
        BY <1>13, <1>15, <3>1
    <2>2. l <= k + 1
      <3>1. k + 1 \in 0 .. n + 2 /\ (n + 2) - 2 * (k + 1) = n - 2 * k /\ n - 2 * k \in Int /\ n - 2 * k <= n
        BY <1>3, <1>14
      <3>2. ~Repeats(u, (n + 2) - 2 * (k + 1))
        BY <1>12, <1>14, <3>1
      <3> QED
        BY <1>15, <3>1, <3>2
    <2>3. k <= l - 1
      <3>1. l - 1 \in 0 .. n + 1 /\ (n + 2) - 2 * l = n - 2 * (l - 1) /\ n - 2 * (l - 1) \in Int
            /\ n - 2 * (l - 1) <= n
        BY <1>3, <1>15, <2>1
      <3>2. ~Repeats(t, n - 2 * (l - 1))
        BY <1>12, <1>15, <3>1
      <3>3. CASE l - 1 <= n
        BY <1>14, <3>1, <3>2, <3>3
      <3>4. CASE l - 1 > n
        BY <1>3, <1>14, <3>1, <3>4
      <3> QED
        BY <1>3, <3>1, <3>3, <3>4
    <2> QED
      BY <1>14, <1>15, <2>2, <2>3
  <1>17. n - 2 * k \in Nat
    <2>1. CASE k = 0
      BY <1>3, <2>1
    <2>2. CASE k # 0
      <3>1. k - 1 \in 0 .. n /\ ~(k <= k - 1)
        BY <1>3, <1>14, <2>2
      <3>2. Repeats(t, n - 2 * (k - 1))
        BY <1>14, <3>1
      <3>3. n - 2 * (k - 1) >= 4
        BY <3>2 DEF Repeats
      <3> QED
        BY <1>3, <1>14, <3>3
    <2> QED
      BY <2>1, <2>2
  <1>18. PICK m \in Nat : m = n - 2 * k
    BY <1>17
  <1>19. m = Len(t) - 2 * k /\ m = Len(u) - 2 * l /\ m <= n
    BY <1>3, <1>7, <1>14, <1>16, <1>18
  <1>20. PICK v, w : v = SubSeq(t, 1, m) /\ w = SubSeq(u, 1, m)
    OBVIOUS
  <1>21. 1 \in Nat \ {0} /\ 1 <= m + 1 /\ m <= Len(t) /\ m <= Len(u)
    BY SMTT(30), <1>3, <1>7, <1>19
  <1>22. v \in Seq(Q) /\ IsPart(v, t, 1, m)
    BY <1>3, <1>20, <1>21, SubSeqIs, Zenon
  <1>23. w \in Seq(Q) /\ IsPart(w, u, 1, m)
    BY <1>6, <1>20, <1>21, SubSeqIs, Zenon
  <1>24. Len(w) = Len(v) /\ \A i \in 1 .. Len(w) : w[i] = v[i]
    BY <1>3, <1>7, <1>19, <1>22, <1>23 DEF IsPart
  <1>25. w = v
    BY <1>22, <1>23, <1>24, SameElements, Zenon
  <1>26. normalizeHost(t) = v /\ normalizeHost(u \o dot) = w
    BY <1>10, <1>11, <1>19, <1>20
  <1> QED
    BY <1>1, <1>5, <1>25, <1>26, Zenon

\* Division undoes multiplication.
LEMMA DivisionFacts ==
    ASSUME NEW b \in Nat \ {0}, NEW v \in Nat, NEW d \in 0 .. b - 1
    PROVE  /\ b * v + d \in Nat
           /\ (b * v + d) \div b = v /\ (b * v + d) % b = d
  <1>1. b * v \in Nat
    OBVIOUS
  <1>2. PICK n \in Nat : n = b * v + d
    BY <1>1
  <1>3. PICK q, r : q = n \div b /\ r = n % b
    OBVIOUS
  <1>4. q \in Nat /\ r \in 0 .. b - 1 /\ n = b * q + r
    BY <1>3
  <1>5. q = v
    <2>1. ASSUME q >= v + 1 PROVE FALSE
      <3>1. b * q >= b * (v + 1)
        BY <1>4, <2>1
      <3>2. b * (v + 1) = b * v + b
        OBVIOUS
      <3>3. b * q \in Nat
        BY <1>4
      <3> QED
        BY <1>1, <1>2, <1>4, <3>1, <3>2, <3>3
    <2>2. ASSUME v >= q + 1 PROVE FALSE
      <3>1. b * v >= b * (q + 1)
        BY <1>4, <2>2
      <3>2. b * (q + 1) = b * q + b
        BY <1>4
      <3>3. b * q \in Nat
        BY <1>4
      <3> QED
        BY <1>1, <1>2, <1>4, <3>1, <3>2, <3>3
    <2> QED
      BY <1>4, <2>1, <2>2
  <1>6. r = d
    BY <1>1, <1>2, <1>4, <1>5
  <1> QED
    BY <1>2, <1>3, <1>5, <1>6

LEMMA RestsFacts ==
    ASSUME NEW n \in Nat
    PROVE  /\ Rests(n) \in [0 .. CodeDigits -> Nat] /\ Rests(n)[0] = n
           /\ \A i \in 1 .. CodeDigits : Rests(n)[i] = Rests(n)[i - 1] \div Len(Digits)
  <1>1. PICK b : b = Len(Digits)
    OBVIOUS
  <1>2. b \in Nat \ {0} /\ CodeDigits \in Nat
    BY SMTT(30), <1>1, FormatsAssumption
  <1> DEFINE turn(f, i) == IF i = 0 THEN n ELSE f[i - 1] \div b
  <1>3. PICK f : f \in [0 .. CodeDigits -> Nat] /\ f[0] = n
                 /\ \A i \in 1 .. CodeDigits : f[i] = f[i - 1] \div b
    <2> DEFINE next(v) == v \div b
               G == [i \in Nat |-> [v \in Nat |-> next(v)]]
    <2>0. \A v \in Nat : next(v) \in Nat
      BY <1>2
    <2>1. G \in [Nat -> [Nat -> Nat]] /\ \A i \in Nat, v \in Nat : G[i][v] = next(v)
      <3> HIDE DEF next
      <3> QED
        BY <2>0
    <2> HIDE DEF G
    <2>2. PICK D, a, m : D = Nat /\ a = n /\ m = CodeDigits
      OBVIOUS
    <2>3. a \in D /\ G \in [Nat -> [D -> D]] /\ m \in Nat
      BY <1>2, <2>1, <2>2
    <2>4. PICK f : f \in Recursions(D, a, G, m)
      <3>1. Recursions(D, a, G, m) # {}
        BY <2>3, Recursion
      <3> QED
        BY <3>1, Zenon
    <2>5. ASSUME NEW i \in 1 .. CodeDigits
          PROVE  f[i] = f[i - 1] \div b
      <3>1. i \in Nat /\ f[i - 1] \in Nat /\ f[i] = G[i][f[i - 1]]
        BY <1>2, <2>2, <2>4, SMTT(30) DEF Recursions
      <3> QED
        BY <2>1, <3>1
    <2> QED
      BY <2>2, <2>4, <2>5 DEF Recursions
  <1>4. f = [i \in 0 .. CodeDigits |-> turn(f, i)]
    <2>1. ASSUME NEW i \in 0 .. CodeDigits
          PROVE  f[i] = turn(f, i)
      <3>1. i = 0 \/ i \in 1 .. CodeDigits
        BY <1>2
      <3> QED
        BY <1>3, <3>1
    <2> HIDE DEF turn
    <2> QED
      BY <1>3, <2>1
  <1> DEFINE rest == CHOOSE g : g = [i \in 0 .. CodeDigits |-> turn(g, i)]
  <1>5. rest = [i \in 0 .. CodeDigits |-> turn(rest, i)]
    <2> HIDE DEF turn
    <2> QED
      BY <1>4
  <1>6. Rests(n) = rest
    BY <1>1 DEF Rests
  <1> HIDE DEF rest
  <1>7. rest[0] = n /\ \A i \in 1 .. CodeDigits : rest[i] = rest[i - 1] \div b
    <2>1. \A i \in 0 .. CodeDigits : rest[i] = turn(rest, i)
      <3> HIDE DEF turn
      <3> QED
        BY <1>5
    <2> QED
      BY <1>2, <2>1
  <1>8. \A i \in 0 .. CodeDigits : rest[i] \in Nat
    <2> DEFINE T == {i \in Nat : i <= CodeDigits => rest[i] \in Nat}
    <2>1. 0 \in T
      BY <1>7
    <2>2. ASSUME NEW i \in Nat, i \in T
          PROVE  i + 1 \in T
      <3>1. CASE i + 1 <= CodeDigits
        <4>1. i + 1 \in 1 .. CodeDigits /\ (i + 1) - 1 = i /\ i <= CodeDigits
          BY <1>2, <3>1
        <4>2. rest[i] \in Nat /\ rest[i + 1] = rest[i] \div b
          BY <1>7, <2>2, <4>1
        <4> QED
          BY <1>2, <4>2
      <3> QED
        BY <3>1
    <2>3. \A i \in Nat : i \in T
      <3> HIDE DEF T
      <3> QED
        BY <2>1, <2>2, Induction
    <2> QED
      BY <2>3
  <1>9. rest \in [0 .. CodeDigits -> Nat]
    BY <1>5, <1>8
  <1> QED
    BY <1>1, <1>6, <1>7, <1>9

LEMMA CodeSpaceFacts ==
    \E power \in [0 .. CodeDigits -> Nat] :
        /\ power[0] = 1 /\ \A i \in 1 .. CodeDigits : power[i] = Len(Digits) * power[i - 1]
        /\ codeSpace = power[CodeDigits]
  <1>1. PICK b : b = Len(Digits)
    OBVIOUS
  <1>2. b \in Nat \ {0} /\ CodeDigits \in Nat
    BY <1>1, FormatsAssumption
  <1> DEFINE turn(f, i) == IF i = 0 THEN 1 ELSE b * f[i - 1]
  <1>3. PICK f : f \in [0 .. CodeDigits -> Nat] /\ f[0] = 1
                 /\ \A i \in 1 .. CodeDigits : f[i] = b * f[i - 1]
    <2> DEFINE next(v) == b * v
               G == [i \in Nat |-> [v \in Nat |-> next(v)]]
    <2>0. \A v \in Nat : next(v) \in Nat
      BY <1>2
    <2>1. G \in [Nat -> [Nat -> Nat]] /\ \A i \in Nat, v \in Nat : G[i][v] = next(v)
      <3> HIDE DEF next
      <3> QED
        BY <2>0
    <2> HIDE DEF G
    <2>2. PICK D, a, m : D = Nat /\ a = 1 /\ m = CodeDigits
      OBVIOUS
    <2>3. a \in D /\ G \in [Nat -> [D -> D]] /\ m \in Nat
      BY <1>2, <2>1, <2>2
    <2>4. PICK f : f \in Recursions(D, a, G, m)
      <3>1. Recursions(D, a, G, m) # {}
        BY <2>3, Recursion
      <3> QED
        BY <3>1, Zenon
    <2>5. ASSUME NEW i \in 1 .. CodeDigits
          PROVE  f[i] = b * f[i - 1]
      <3>1. i \in Nat /\ f[i - 1] \in Nat /\ f[i] = G[i][f[i - 1]]
        BY <1>2, <2>2, <2>4, SMTT(30) DEF Recursions
      <3> QED
        BY <2>1, <3>1
    <2> QED
      BY <2>2, <2>4, <2>5 DEF Recursions
  <1>4. f = [i \in 0 .. CodeDigits |-> turn(f, i)]
    <2>1. ASSUME NEW i \in 0 .. CodeDigits
          PROVE  f[i] = turn(f, i)
      <3>1. i = 0 \/ i \in 1 .. CodeDigits
        BY <1>2
      <3> QED
        BY <1>3, <3>1
    <2> HIDE DEF turn
    <2> QED
      BY <1>3, <2>1
  <1> DEFINE power == CHOOSE g : g = [i \in 0 .. CodeDigits |-> turn(g, i)]
  <1>5. power = [i \in 0 .. CodeDigits |-> turn(power, i)]
    <2> HIDE DEF turn
    <2> QED
      BY <1>4
  <1>6. codeSpace = power[CodeDigits]
    BY <1>1 DEF codeSpace
  <1> HIDE DEF power
  <1>7. power[0] = 1 /\ \A i \in 1 .. CodeDigits : power[i] = b * power[i - 1]
    <2>1. \A i \in 0 .. CodeDigits : power[i] = turn(power, i)
      <3> HIDE DEF turn
      <3> QED
        BY <1>5
    <2> QED
      BY <1>2, <2>1
  <1>8. \A i \in 0 .. CodeDigits : power[i] \in Nat
    <2> DEFINE T == {i \in Nat : i <= CodeDigits => power[i] \in Nat}
    <2>1. 0 \in T
      BY <1>7
    <2>2. ASSUME NEW i \in Nat, i \in T
          PROVE  i + 1 \in T
      <3>1. CASE i + 1 <= CodeDigits
        <4>1. i + 1 \in 1 .. CodeDigits /\ (i + 1) - 1 = i /\ i <= CodeDigits
          BY <1>2, <3>1
        <4>2. power[i] \in Nat /\ power[i + 1] = b * power[i]
          BY <1>7, <2>2, <4>1
        <4> QED
          BY <1>2, <4>2
      <3> QED
        BY <3>1
    <2>3. \A i \in Nat : i \in T
      <3> HIDE DEF T
      <3> QED
        BY <2>1, <2>2, Induction
    <2> QED
      BY <2>3
  <1>9. power \in [0 .. CodeDigits -> Nat]
    BY <1>5, <1>8
  <1> QED
    BY <1>1, <1>6, <1>7, <1>9

\* For any alphabet of digits and any length, the strings that ValidateCodeFormat lets
\* through are exactly the codes that GenerateCode makes, leading zeros included.
THEOREM TypedCodesArePrintable ==
    ASSUME NEW S, text \in Seq(S)
    PROVE  TypedIsPrintable
  <1>1. PICK b, k, t : b = Len(Digits) /\ k = CodeDigits /\ t = text
    OBVIOUS
  <1>2. b \in Nat \ {0} /\ k \in Nat /\ t \in Seq(S) /\ Len(t) \in Nat /\ DOMAIN t = 1 .. Len(t)
    BY <1>1, FormatsAssumption
  <1>3. DOMAIN Digits = 1 .. b
    BY <1>1, FormatsAssumption
  <1>4. ASSUME ValidateCodeFormat(t) PROVE t \in Printed
    <2>1. Len(t) = k /\ \A i \in 1 .. k : \E d \in 0 .. b - 1 : t[i] = Digits[1 + d]
      <3>1. Len(t) = k
        BY <1>1, <1>4 DEF ValidateCodeFormat
      <3>2. ASSUME NEW i \in 1 .. k
            PROVE  \E d \in 0 .. b - 1 : t[i] = Digits[1 + d]
        <4>1. t[i] \in Range(Digits)
          BY <1>2, <1>4, <3>1 DEF ValidateCodeFormat, Range
        <4>2. PICK j \in 1 .. b : t[i] = Digits[j]
          BY <1>3, <4>1 DEF Range
        <4>3. j - 1 \in 0 .. b - 1 /\ 1 + (j - 1) = j
          BY <1>2
        <4> QED
          BY <4>2, <4>3
      <3> QED
        BY <3>1, <3>2
    <2> DEFINE d == [i \in 1 .. k |-> CHOOSE e \in 0 .. b - 1 : t[i] = Digits[1 + e]]
    <2>2. \A i \in 1 .. k : d[i] \in 0 .. b - 1 /\ t[i] = Digits[1 + d[i]]
      BY <2>1
    <2> HIDE DEF d
    <2>3. PICK val : val \in [0 .. k -> Nat] /\ val[0] = 0
                     /\ \A i \in 1 .. k : val[i] = b * val[i - 1] + d[i]
      <3> DEFINE next(i, v) == IF i \in 1 .. k THEN b * v + d[i] ELSE v
                 G == [i \in Nat |-> [v \in Nat |-> next(i, v)]]
      <3>1. \A i \in Nat, v \in Nat : next(i, v) \in Nat
        <4>1. ASSUME NEW i \in 1 .. k, NEW v \in Nat
              PROVE  b * v + d[i] \in Nat
          BY SMTT(30), <1>2, <2>2, DivisionFacts
        <4> QED
          BY <4>1
      <3>2. G \in [Nat -> [Nat -> Nat]] /\ \A i \in Nat, v \in Nat : G[i][v] = next(i, v)
        <4> HIDE DEF next
        <4> QED
          BY <3>1
      <3> HIDE DEF G
      <3>3. PICK D, a : D = Nat /\ a = 0
        OBVIOUS
      <3>4. a \in D /\ G \in [Nat -> [D -> D]] /\ k \in Nat
        BY <1>2, <3>2, <3>3
      <3>5. PICK f : f \in Recursions(D, a, G, k)
        <4>1. Recursions(D, a, G, k) # {}
          BY <3>4, Recursion
        <4> QED
          BY <4>1, Zenon
      <3>6. ASSUME NEW i \in 1 .. k
            PROVE  f[i] = b * f[i - 1] + d[i]
        <4>1. i \in Nat /\ f[i - 1] \in Nat /\ f[i] = G[i][f[i - 1]]
          BY <1>2, <3>3, <3>5, SMTT(30) DEF Recursions
        <4>2. f[i] = next(i, f[i - 1])
          <5> HIDE DEF next
          <5> QED
            BY <3>2, <4>1
        <4> QED
          BY <4>2
      <3> QED
        BY <3>3, <3>5, <3>6, Zenon DEF Recursions
    <2>4. PICK power \in [0 .. k -> Nat] :
              /\ power[0] = 1 /\ \A i \in 1 .. k : power[i] = b * power[i - 1]
              /\ codeSpace = power[k]
      BY <1>1, CodeSpaceFacts
    <2>5. val[k] < power[k]
      <3> DEFINE T == {i \in Nat : i <= k => val[i] < power[i]}
      <3>1. 0 \in T
        BY <2>3, <2>4
      <3>2. ASSUME NEW i \in Nat, i \in T
            PROVE  i + 1 \in T
        <4>1. CASE i + 1 <= k
          <5>1. i + 1 \in 1 .. k /\ (i + 1) - 1 = i /\ i <= k /\ i \in 0 .. k
            BY SMTT(30), <1>2, <4>1
          <5>2. PICK v \in Nat, p \in Nat, e \in 0 .. b - 1 :
                    v = val[i] /\ p = power[i] /\ e = d[i + 1]
            BY <2>2, <2>3, <2>4, <5>1
          <5>3. v < p /\ val[i + 1] = b * v + e /\ power[i + 1] = b * p
            BY <2>3, <2>4, <3>2, <5>1, <5>2
          <5>4. b * v \in Nat /\ b * p \in Nat /\ b * p >= b * (v + 1) /\ b * (v + 1) = b * v + b
            BY <1>2, <5>3
          <5>5. b * v + e < b * p
            BY <1>2, <5>4
          <5> QED
            BY <5>3, <5>5
        <4> QED
          BY <4>1
      <3>3. k \in T
        <4> HIDE DEF T
        <4> QED
          BY <1>2, <3>1, <3>2, Induction
      <3> QED
        BY <1>2, <3>3
    <2>6. PICK n \in Nat : n = val[k]
      BY <1>2, <2>3
    <2>7. n \in 0 .. codeSpace - 1
      BY <1>2, <2>4, <2>5, <2>6
    <2>8. PICK rest : rest = Rests(n)
      OBVIOUS
    <2>9. /\ rest \in [0 .. k -> Nat] /\ rest[0] = n
          /\ \A i \in 1 .. k : rest[i] = rest[i - 1] \div b
      BY <1>1, <2>8, RestsFacts
    <2>10. ASSUME NEW j \in 1 .. k
           PROVE  val[j] \div b = val[j - 1] /\ val[j] % b = d[j]
      <3>0. j - 1 \in 0 .. k
        BY <1>2
      <3>1. val[j - 1] \in Nat /\ d[j] \in 0 .. b - 1
        BY <2>2, <2>3, <3>0
      <3>2. PICK v \in Nat, e \in 0 .. b - 1 : v = val[j - 1] /\ e = d[j]
        BY <3>1, Zenon
      <3>3. val[j] = b * v + e
        BY <2>3, <3>2
      <3>4. (b * v + e) \div b = v /\ (b * v + e) % b = e
        BY <1>2, DivisionFacts
      <3> QED
        BY <3>2, <3>3, <3>4, Zenon
    <2>11. \A i \in 0 .. k : rest[i] = val[k - i]
      <3> DEFINE T == {i \in Nat : i <= k => rest[i] = val[k - i]}
      <3>1. 0 \in T
        BY <1>2, <2>6, <2>9
      <3>2. ASSUME NEW i \in Nat, i \in T
            PROVE  i + 1 \in T
        <4>1. CASE i + 1 <= k
          <5>1. /\ i + 1 \in 1 .. k /\ (i + 1) - 1 = i /\ i <= k
                /\ k - i \in 1 .. k /\ (k - i) - 1 = k - (i + 1)
            BY <1>2, <4>1
          <5>2. rest[i + 1] = rest[i] \div b
            BY <2>9, <5>1
          <5>3. rest[i] = val[k - i]
            BY <3>2, <5>1
          <5>4. val[k - i] \div b = val[k - (i + 1)]
            BY <2>10, <5>1
          <5> QED
            BY <5>2, <5>3, <5>4
        <4> QED
          BY <4>1
      <3>3. \A i \in Nat : i \in T
        <4> HIDE DEF T
        <4> QED
          BY <3>1, <3>2, Induction
      <3> QED
        BY <3>3
    <2>12. \A i \in 1 .. k : DigitOf(n, k - i) = t[i]
      <3> SUFFICES ASSUME NEW i \in 1 .. k
                   PROVE  DigitOf(n, k - i) = t[i]
        OBVIOUS
      <3>1. k - i \in 0 .. k /\ k - (k - i) = i
        BY <1>2
      <3>2. rest[k - i] = val[i]
        BY SMTT(30), <2>11, <3>1
      <3>3. rest[k - i] % b = d[i]
        BY <2>10, <3>2
      <3>4. DigitOf(n, k - i) = Digits[1 + (rest[k - i] % b)]
        BY <1>1, <2>8, Zenon DEF DigitOf
      <3> QED
        BY <2>2, <3>3, <3>4
    <2>13. t = GenerateCode(n)
      <3>1. t = [i \in 1 .. k |-> t[i]]
        BY <1>2, <2>1
      <3>2. [i \in 1 .. k |-> t[i]] = [i \in 1 .. k |-> DigitOf(n, k - i)]
        BY <2>12
      <3> QED
        BY <1>1, <3>1, <3>2, Zenon DEF GenerateCode
    <2> QED
      BY <2>7, <2>13, Zenon DEF Printed
  <1>5. ASSUME t \in Printed PROVE ValidateCodeFormat(t)
    <2>1. PICK n \in 0 .. codeSpace - 1 : t = GenerateCode(n)
      BY <1>5, Zenon DEF Printed
    <2>2. n \in Nat
      OBVIOUS
    <2>3. PICK rest : rest = Rests(n)
      OBVIOUS
    <2>4. rest \in [0 .. k -> Nat]
      BY <1>1, <2>2, <2>3, RestsFacts
    <2>5. t = [i \in 1 .. k |-> DigitOf(n, k - i)]
      BY <1>1, <2>1, Zenon DEF GenerateCode
    <2>6. ASSUME NEW i \in 1 .. k PROVE DigitOf(n, k - i) \in Range(Digits)
      <3>1. PICK v \in Nat : v = rest[k - i]
        BY <1>2, <2>4
      <3>2. v % b \in 0 .. b - 1
        BY <1>2
      <3>3. 1 + (v % b) \in 1 .. b
        BY <1>2, <3>2
      <3>4. DigitOf(n, k - i) = Digits[1 + (v % b)]
        BY <1>1, <2>3, <3>1, Zenon DEF DigitOf
      <3> QED
        BY <1>3, <3>3, <3>4 DEF Range
    <2>7. Len(t) = k
      BY <1>2, <2>5
    <2>8. \A i \in 1 .. k : t[i] = DigitOf(n, k - i)
      BY <2>5
    <2> QED
      BY <1>1, <1>2, <2>6, <2>7, <2>8 DEF ValidateCodeFormat, Range
  <1> QED
    BY <1>1, <1>4, <1>5 DEF TypedIsPrintable

-----------------------------------------------------------------------------
(***************************************************************************)
(* Interfaces.                                                             *)
(***************************************************************************)

\* AddressesOf has the addresses of the interfaces and no others.
LEMMA AddressesFacts ==
    ASSUME NEW F, NEW A, NEW ifaces \in Seq([flags : F, addrs : Seq(A)])
    PROVE  /\ AddressesOf(ifaces) \in Seq(A)
           /\ \A i \in DOMAIN ifaces : Range(ifaces[i].addrs) \subseteq Range(AddressesOf(ifaces))
  <1>1. PICK k : k = Len(ifaces)
    OBVIOUS
  <1>2. k \in Nat /\ DOMAIN ifaces = 1 .. k /\ \A n \in 1 .. k : ifaces[n].addrs \in Seq(A)
    <2>1. PICK R : R = [flags : F, addrs : Seq(A)]
      OBVIOUS
    <2>2. \A r \in R : r.addrs \in Seq(A)
      BY <2>1
    <2>3. ifaces \in Seq(R)
      BY <2>1
    <2>4. k \in Nat /\ DOMAIN ifaces = 1 .. k /\ \A n \in 1 .. k : ifaces[n] \in R
      BY <1>1, <2>3
    <2> QED
      BY <2>2, <2>4, Zenon
  <1> DEFINE turn(f, n) == IF n = 0 THEN <<>> ELSE f[n - 1] \o ifaces[n].addrs
  <1>3. PICK f : f \in [0 .. k -> Seq(A)] /\ f[0] = <<>>
                 /\ \A n \in 1 .. k : f[n] = f[n - 1] \o ifaces[n].addrs
    <2> DEFINE next(n, v) == IF n \in 1 .. k THEN v \o ifaces[n].addrs ELSE v
               G == [n \in Nat |-> [v \in Seq(A) |-> next(n, v)]]
    <2>0. \A n \in Nat, v \in Seq(A) : next(n, v) \in Seq(A)
      BY <1>2
    <2>1. G \in [Nat -> [Seq(A) -> Seq(A)]] /\ \A n \in Nat, v \in Seq(A) : G[n][v] = next(n, v)
      <3> HIDE DEF next
      <3> QED
        BY <2>0
    <2> HIDE DEF G
    <2>2. PICK D, a : D = Seq(A) /\ a = <<>>
      OBVIOUS
    <2>3. a \in D /\ G \in [Nat -> [D -> D]] /\ k \in Nat
      BY <1>2, <2>1, <2>2
    <2>4. PICK f : f \in Recursions(D, a, G, k)
      <3>1. Recursions(D, a, G, k) # {}
        BY <2>3, Recursion
      <3> QED
        BY <3>1, Zenon
    <2>5. ASSUME NEW n \in 1 .. k
          PROVE  f[n] = f[n - 1] \o ifaces[n].addrs
      <3>0. n \in Nat /\ n - 1 \in 0 .. k
        BY <2>3
      <3>a. f \in [0 .. k -> D] /\ \A j \in 1 .. k : f[j] = G[j][f[j - 1]]
        BY <2>4, Zenon DEF Recursions
      <3>1. n \in Nat /\ f[n - 1] \in D /\ f[n] = G[n][f[n - 1]]
        BY <3>0, <3>a
      <3>2. f[n] = next(n, f[n - 1])
        <4> HIDE DEF next
        <4> QED
          BY <2>1, <2>2, <3>1
      <3> QED
        BY <3>2
    <2> QED
      BY <2>2, <2>4, <2>5, Zenon DEF Recursions
  <1>4. f = [n \in 0 .. k |-> turn(f, n)]
    <2>1. ASSUME NEW n \in 0 .. k
          PROVE  f[n] = turn(f, n)
      <3>1. n = 0 \/ n \in 1 .. k
        BY <1>2
      <3> QED
        BY <1>3, <3>1
    <2> HIDE DEF turn
    <2> QED
      BY <1>3, <2>1
  <1> DEFINE addrs == CHOOSE g : g = [n \in 0 .. k |-> turn(g, n)]
  <1>5. addrs = [n \in 0 .. k |-> turn(addrs, n)]
    <2> HIDE DEF turn
    <2> QED
      BY <1>4
  <1>6. AddressesOf(ifaces) = addrs[k]
    BY <1>1 DEF AddressesOf
  <1> HIDE DEF addrs
  <1>7. addrs[0] = <<>> /\ \A n \in 1 .. k : addrs[n] = addrs[n - 1] \o ifaces[n].addrs
    <2>1. \A n \in 0 .. k : addrs[n] = turn(addrs, n)
      <3> HIDE DEF turn
      <3> QED
        BY <1>5
    <2>2. addrs[0] = turn(addrs, 0)
      BY <1>2, <2>1
    <2>3. ASSUME NEW n \in 1 .. k PROVE addrs[n] = addrs[n - 1] \o ifaces[n].addrs
      <3>1. n \in 0 .. k /\ ~(n = 0)
        BY <1>2
      <3> QED
        BY <2>1, <3>1, Zenon
    <2> QED
      BY <2>2, <2>3, Zenon
  <1> DEFINE Ok(n) == /\ addrs[n] \in Seq(A)
                      /\ \A i \in 1 .. n : Range(ifaces[i].addrs) \subseteq Range(addrs[n])
             T == {n \in Nat : n <= k => Ok(n)}
  <1>8. 0 \in T
    <2>1. <<>> \in Seq(A) /\ 1 .. 0 = {}
      OBVIOUS
    <2> QED
      BY <1>7, <2>1
  <1>9. ASSUME NEW n \in Nat, n \in T
        PROVE  n + 1 \in T
    <2> SUFFICES ASSUME n + 1 <= k PROVE Ok(n + 1)
      OBVIOUS
    <2>1. Ok(n) /\ n + 1 \in 1 .. k /\ (n + 1) - 1 = n
      BY <1>2, <1>9
    <2>2. PICK v, t, w : v = addrs[n] /\ t = ifaces[n + 1].addrs /\ w = addrs[n + 1]
      OBVIOUS
    <2>3. v \in Seq(A) /\ t \in Seq(A) /\ w = v \o t
      BY <1>2, <1>7, <2>1, <2>2
    <2>4. w \in Seq(A) /\ IsConcat(w, v, t)
      BY <2>3, ConcatIs, Zenon
    <2>5. ASSUME NEW i \in 1 .. n + 1 PROVE Range(ifaces[i].addrs) \subseteq Range(w)
      <3>1. CASE i = n + 1
        BY <2>2, <2>4, <3>1 DEF IsConcat
      <3>2. CASE i \in 1 .. n
        BY <2>1, <2>2, <2>4, <3>2 DEF IsConcat
      <3> QED
        BY <3>1, <3>2
    <2> QED
      BY <2>2, <2>4, <2>5
  <1>10. k \in T
    <2> HIDE DEF T
    <2> QED
      BY <1>2, <1>8, <1>9, Induction
  <1> QED
    BY <1>2, <1>6, <1>10

\* What the interfaces that are used without --ifaces look like.
LEMMA DefaultFacts ==
    ASSUME NEW F, NEW A, NEW all \in Seq([flags : F, addrs : Seq(A)])
    PROVE  /\ DefaultInterfaces(all) \in Seq([flags : F, addrs : Seq(A)])
           /\ \A i \in DOMAIN DefaultInterfaces(all) :
                 /\ usable(DefaultInterfaces(all)[i])
                 /\ DefaultInterfaces(all)[i].addrs # <<>>
  <1>1. PICK R, S, d : /\ R = [flags : F, addrs : Seq(A)] /\ d = DefaultInterfaces(all)
                       /\ S = {ifi \in Range(all) : usable(ifi) /\ ifi.addrs # <<>>}
    OBVIOUS
  <1>2. d = Filter(all, S)
    BY <1>1, Zenon DEF DefaultInterfaces
  <1>3. d \in Seq(R) /\ d \in Seq(S)
    BY <1>1, <1>2, FilterFacts
  <1>4. \A i \in DOMAIN d : d[i] \in S
    BY <1>3
  <1> QED
    BY <1>1, <1>3, <1>4, Zenon

\* The addresses that are announced, by family.
LEMMA FamilyFacts ==
    ASSUME NEW A, NEW addrs \in Seq(A)
    PROVE  /\ V4(addrs) \in Seq(A) /\ Range(V4(addrs)) = {a \in Range(addrs) : a.v4}
           /\ V6(addrs) \in Seq(A) /\ Range(V6(addrs)) = {a \in Range(addrs) : ~a.v4}
           /\ addrs # <<>> /\ addrs[1].v4 => V4(addrs) # <<>> /\ V4(addrs)[1] = addrs[1]
  <1>1. PICK S, T : S = {a \in Range(addrs) : a.v4} /\ T = {a \in Range(addrs) : ~a.v4}
    OBVIOUS
  <1>2. V4(addrs) = Filter(addrs, S) /\ V6(addrs) = Filter(addrs, T)
    BY <1>1, Zenon DEF V4, V6
  <1>3. S \subseteq Range(addrs) /\ T \subseteq Range(addrs)
    BY <1>1, Zenon
  <1>4. /\ Filter(addrs, S) \in Seq(A) /\ Range(Filter(addrs, S)) = Range(addrs) \cap S
        /\ addrs # <<>> /\ addrs[1] \in S
              => Filter(addrs, S) # <<>> /\ Filter(addrs, S)[1] = addrs[1]
    BY FilterFacts
  <1>5. Filter(addrs, T) \in Seq(A) /\ Range(Filter(addrs, T)) = Range(addrs) \cap T
    BY FilterFacts
  <1>6. addrs # <<>> => addrs[1] \in Range(addrs)
    BY DEF Range
  <1>7. addrs # <<>> /\ addrs[1].v4 => addrs[1] \in S
    BY <1>1, <1>6, Zenon
  <1>8. Range(addrs) \cap S = S /\ Range(addrs) \cap T = T
    BY <1>3
  <1> QED
    BY <1>1, <1>2, <1>4, <1>5, <1>7, <1>8, Zenon

\* What of the addresses comes first, and that none is left out.
LEMMA AnnouncedFacts ==
    ASSUME NEW F, NEW A, NEW ifaces \in Seq([flags : F, addrs : Seq(A)]), NEW known,
           known = AddressesAnnounced(ifaces)
    PROVE  /\ known \in Seq(A)
           /\ V4(known) # <<>> => /\ V4(AddressesOf(ifaces)) # <<>> /\ known # <<>>
                                  /\ V4(known)[1] = V4(AddressesOf(ifaces))[1]
           /\ AddressesOf(ifaces) # <<>> => known # <<>>
  <1>1. PICK all, v4, v6 : all = AddressesOf(ifaces) /\ v4 = V4(all) /\ v6 = V6(all)
    OBVIOUS
  <1>2. all \in Seq(A)
    BY <1>1, AddressesFacts
  <1>3. /\ v4 \in Seq(A) /\ Range(v4) = {a \in Range(all) : a.v4}
        /\ v6 \in Seq(A) /\ Range(v6) = {a \in Range(all) : ~a.v4}
    BY <1>1, <1>2, FamilyFacts
  <1>4. known = v4 \o v6
    BY <1>1, Zenon DEF AddressesAnnounced
  <1>5. known \in Seq(A) /\ IsConcat(known, v4, v6)
    BY <1>3, <1>4, ConcatIs, Zenon
  <1>6. Range(known) = Range(v4) \cup Range(v6) /\ Len(known) = Len(v4) + Len(v6)
        /\ \A i \in 1 .. Len(v4) : known[i] = v4[i]
    BY <1>5 DEF IsConcat
  <1>7. PICK w : w = V4(known)
    OBVIOUS
  <1>8. /\ w \in Seq(A) /\ Range(w) = {a \in Range(known) : a.v4}
        /\ known # <<>> /\ known[1].v4 => w # <<>> /\ w[1] = known[1]
    BY <1>5, <1>7, FamilyFacts
  <1>9. \A s \in Seq(A) : /\ s # <<>> => Len(s) >= 1 /\ s[1] \in Range(s)
                          /\ Range(s) # {} => s # <<>>
    BY DEF Range
  <1>10. ASSUME w # <<>> PROVE v4 # <<>> /\ known # <<>> /\ w[1] = v4[1]
    <2>1. w[1] \in Range(w)
      BY <1>8, <1>9, <1>10
    <2>2. w[1] \in Range(known) /\ w[1].v4
      BY <1>8, <2>1, Zenon
    <2>3. w[1] \in Range(v4)
      BY <1>3, <1>6, <2>2, Zenon
    <2>4. v4 # <<>> /\ known # <<>>
      BY <1>3, <1>5, <1>9, <2>2, <2>3
    <2>5. Len(v4) >= 1 /\ v4[1] \in Range(v4)
      BY <1>3, <1>9, <2>4
    <2>6. known[1] = v4[1]
      BY <1>3, <1>6, <2>5
    <2>7. v4[1].v4
      BY <1>3, <2>5, Zenon
    <2> QED
      BY <1>8, <2>4, <2>6, <2>7
  <1>11. ASSUME all # <<>> PROVE known # <<>>
    <2>1. all[1] \in Range(all)
      BY <1>2, <1>9, <1>11
    <2>2. all[1] \in Range(v4) \/ all[1] \in Range(v6)
      BY <1>3, <2>1, Zenon
    <2>3. Range(known) # {}
      BY <1>6, <2>2
    <2> QED
      BY <1>5, <1>9, <2>3
  <1> QED
    BY <1>1, <1>5, <1>7, <1>10, <1>11

\* On a host with any number of interfaces, each with any number of addresses, the
\* host that meshctl pair prints is the one that a joiner dials after discovery.
THEOREM PrintedHostsAreDiscovered ==
    ASSUME NEW F, NEW A, table \in Seq([flags : F, addrs : Seq(A)])
    PROVE  PrintedHostIsDiscovered
  <1>1. PICK ifaces, known : ifaces = Chosen(NoNames, table) /\ known = AddressesAnnounced(ifaces)
    OBVIOUS
  <1>2. ifaces = DefaultInterfaces(table)
    BY <1>1, Zenon DEF Chosen
  <1>3. ifaces \in Seq([flags : F, addrs : Seq(A)])
    BY <1>2, DefaultFacts
  <1>4. PICK v4, w : v4 = V4(AddressesOf(ifaces)) /\ w = V4(known)
    OBVIOUS
  <1>5. known \in Seq(A) /\ (w # <<>> => v4 # <<>> /\ known # <<>> /\ w[1] = v4[1])
    BY <1>1, <1>3, <1>4, AnnouncedFacts
  <1> SUFFICES ASSUME w # <<>>
               PROVE  hostPort(known) = <<lanIPv4(table)>>
    BY <1>1, <1>4 DEF PrintedHostIsDiscovered
  <1>6. lanIPv4(table) = v4[1]
    BY <1>2, <1>4, <1>5, Zenon DEF lanIPv4
  <1>7. hostPort(known) = <<Head(w \o known)>>
    BY <1>4, <1>5, Zenon DEF hostPort
  <1>8. Head(w \o known) = w[1]
    <2>1. w \in Seq(A)
      BY <1>4, <1>5, FamilyFacts
    <2> QED
      BY <1>5, <2>1
  <1> QED
    BY <1>5, <1>6, <1>7, <1>8

\* On a host with any number of interfaces, a meshd without --ifaces that gets past
\* Start announces an address, and none of a tunnel or of the loopback.
THEOREM StartedIsDialled ==
    ASSUME NEW F, NEW A, table \in Seq([flags : F, addrs : Seq(A)])
    PROVE  StartedIsReachable
  <1>1. PICK ifaces, known : ifaces = Chosen(NoNames, table) /\ known = AddressesAnnounced(ifaces)
    OBVIOUS
  <1>2. ifaces = DefaultInterfaces(table)
    BY <1>1, Zenon DEF Chosen
  <1>3. /\ ifaces \in Seq([flags : F, addrs : Seq(A)])
        /\ \A i \in DOMAIN ifaces : usable(ifaces[i]) /\ ifaces[i].addrs # <<>>
    BY <1>2, DefaultFacts
  <1> SUFFICES ASSUME StartError(ifaces) = "none"
               PROVE  /\ hostPort(known) # <<>>
                      /\ \A i \in DOMAIN ifaces :
                            {"loopback", "pointToPoint"} \cap ifaces[i].flags = {}
    BY <1>1, Zenon DEF StartedIsReachable
  <1>4. ifaces # <<>>
    BY DEF StartError
  <1>5. known # <<>>
    <2>1. PICK R, addrs : R = [flags : F, addrs : Seq(A)] /\ addrs = ifaces[1].addrs
      OBVIOUS
    <2>2. 1 \in DOMAIN ifaces /\ ifaces[1] \in R
      <3>1. ifaces \in Seq(R)
        BY <1>3, <2>1
      <3> QED
        BY <1>4, <3>1
    <2>3. addrs \in Seq(A) /\ addrs # <<>>
      BY <1>3, <2>1, <2>2
    <2>4. addrs[1] \in Range(addrs)
      BY <2>3 DEF Range
    <2>5. AddressesOf(ifaces) \in Seq(A) /\ Range(addrs) \subseteq Range(AddressesOf(ifaces))
      BY <1>3, <2>1, <2>2, AddressesFacts
    <2>6. PICK all : all = AddressesOf(ifaces)
      OBVIOUS
    <2>7. all \in Seq(A) /\ Range(all) # {}
      BY <2>4, <2>5, <2>6
    <2>8. all # <<>>
      BY <2>7 DEF Range
    <2>9. ifaces \in Seq([flags : F, addrs : Seq(A)])
      BY <1>3
    <2>10. AddressesOf(ifaces) # <<>> => known # <<>>
      BY <1>1, <2>9, AnnouncedFacts
    <2> QED
      BY <2>6, <2>8, <2>10
  <1>6. hostPort(known) # <<>>
    BY <1>5 DEF hostPort
  <1> QED
    BY <1>3, <1>6 DEF usable

\* The same of an --ifaces of any length: what parseIfaces accepts is used, and it
\* alone.
LEMMA GivenFacts ==
    ASSUME NEW S, table \in Seq(S), NEW names \in Seq(Nat), names # <<>>,
           parseIfacesError(names, table) = "none"
    PROVE  /\ StartError(Chosen(names, table)) = "none"
           /\ \A ifi \in Range(Chosen(names, table)) :
                 \E i \in DOMAIN names : names[i] # 0 /\ ifi = table[names[i]]
  <1>1. PICK given : given = Filter(names, Range(names) \ {0})
    OBVIOUS
  <1>2. given \in Seq(Nat) /\ Range(given) = Range(names) \cap (Range(names) \ {0})
    BY <1>1, FilterFacts
  <1>3. \E i \in DOMAIN names : names[i] # 0
    BY DEF parseIfacesError, NoNames
  <1>4. given # <<>>
    <2>1. PICK i \in DOMAIN names : names[i] # 0
      BY <1>3
    <2>2. names[i] \in Range(given)
      BY <1>2, <2>1 DEF Range
    <2>3. DOMAIN given # {}
      BY <2>2, Zenon DEF Range
    <2> QED
      BY <1>2, <2>3
  <1>5. Chosen(names, table) = [i \in DOMAIN given |-> table[given[i]]]
    BY <1>1, Zenon DEF Chosen, parseIfaces, NoNames
  <1>6. Chosen(names, table) # <<>>
    BY <1>2, <1>4, <1>5
  <1>7. \A j \in DOMAIN given : \E i \in DOMAIN names : names[i] # 0 /\ given[j] = names[i]
    BY <1>2 DEF Range
  <1> QED
    BY <1>5, <1>6, <1>7 DEF StartError, Range

\* An --ifaces of two names that parseIfaces accepts is used, and it alone
\* (GivenFacts has the same for a list of any length).
THEOREM GivenNamesAreUsed ==
    ASSUME NEW S, table \in Seq(S)
    PROVE  GivenIfacesAreUsed
  <1> SUFFICES ASSUME NEW names \in [1 .. 2 -> 0 .. MaxIfaces],
                      parseIfacesError(names, table) = "none"
               PROVE  /\ StartError(Chosen(names, table)) = "none"
                      /\ \A ifi \in Range(Chosen(names, table)) :
                            \E i \in DOMAIN names : names[i] # 0 /\ ifi = table[names[i]]
    BY Zenon DEF GivenIfacesAreUsed
  <1>1. names \in Seq(Nat) /\ names # <<>>
    <2>1. names \in [1 .. 2 -> Nat] /\ 2 \in Nat
      BY InterfacesAssumption
    <2>2. PICK k \in Nat : k = 2
      OBVIOUS
    <2>3. names \in [1 .. k -> Nat]
      BY <2>1, <2>2
    <2>4. names \in Seq(Nat) /\ Len(names) = k
      BY <2>3
    <2> QED
      BY <2>2, <2>4
  <1> QED
    BY <1>1, GivenFacts, SMTT(30)
=============================================================================
