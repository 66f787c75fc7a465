---------------------------- MODULE DataTheorems ----------------------------
(***************************************************************************)
(* Facts about maps, counters and slices that several proofs need, for any *)
(* keys, values and lengths, and the induction they rest on.               *)
(***************************************************************************)
EXTENDS Maps, Slices, NaturalsInduction, WellFoundedInduction, FiniteSetTheorems,
        TLAPS

\* A member of PartialFunctions is a function with its domain in S and its
\* values in T.
LEMMA PartialFunctionElim ==
    ASSUME NEW S, NEW T, NEW f \in PartialFunctions(S, T)
    PROVE  /\ DOMAIN f \subseteq S
           /\ f \in [DOMAIN f -> T]
           /\ \A x \in DOMAIN f : f[x] \in T
  BY DEF PartialFunctions

\* A function with its domain in S and its values in T is one of them.
LEMMA PartialFunctionIntro ==
    ASSUME NEW S, NEW T, NEW D \in SUBSET S, NEW f \in [D -> T]
    PROVE  f \in PartialFunctions(S, T)
  BY DEF PartialFunctions

\* Deleting entries from a map leaves a map of the same type.
LEMMA RestrictType ==
    ASSUME NEW S, NEW T, NEW f \in PartialFunctions(S, T),
           NEW D \in SUBSET DOMAIN f
    PROVE  /\ Restrict(f, D) \in PartialFunctions(S, T)
           /\ DOMAIN Restrict(f, D) = D
           /\ \A x \in D : Restrict(f, D)[x] = f[x]
  <1>1. Restrict(f, D) \in [D -> T]
    BY PartialFunctionElim DEF Restrict
  <1>2. D \in SUBSET S
    BY PartialFunctionElim
  <1>3. QED
    BY <1>1, <1>2, PartialFunctionIntro DEF Restrict

\* Storing an entry of the right type keeps the type.
LEMMA PutType ==
    ASSUME NEW S, NEW T, NEW f \in PartialFunctions(S, T),
           NEW k \in S, NEW v \in T
    PROVE  /\ Put(f, k, v) \in PartialFunctions(S, T)
           /\ DOMAIN Put(f, k, v) = DOMAIN f \cup {k}
           /\ Put(f, k, v)[k] = v
           /\ \A x \in DOMAIN f \ {k} : Put(f, k, v)[x] = f[x]
  <1>1. Put(f, k, v) \in [DOMAIN f \cup {k} -> T]
    BY PartialFunctionElim DEF Put
  <1>2. DOMAIN f \cup {k} \in SUBSET S
    BY PartialFunctionElim
  <1>3. QED
    BY <1>1, <1>2, PartialFunctionIntro DEF Put

\* The map without entries.
LEMMA EmptyType ==
    ASSUME NEW S, NEW T
    PROVE  /\ EmptyMap \in PartialFunctions(S, T)
           /\ DOMAIN EmptyMap = {}
  <1>1. EmptyMap \in [{} -> T]
    BY DEF EmptyMap
  <1>2. QED
    BY <1>1, PartialFunctionIntro DEF EmptyMap

-----------------------------------------------------------------------------

\* A set grows by at most one with an element.
LEMMA AddOne ==
    ASSUME NEW S, NEW x, IsFiniteSet(S)
    PROVE  /\ Cardinality(S) \in Nat
           /\ Cardinality(S \cup {x}) \in Nat
           /\ Cardinality(S \cup {x}) <= Cardinality(S) + 1
  <1>1. Cardinality(S) \in Nat
    BY FS_CardinalityType
  <1>2. Cardinality(S \cup {x}) =
           IF x \in S THEN Cardinality(S) ELSE Cardinality(S) + 1
    BY FS_AddElement
  <1>3. QED
    BY <1>1, <1>2

-----------------------------------------------------------------------------
(***************************************************************************)
(* Induction over the naturals, as facts about sets.                       *)
(***************************************************************************)

\* A set of naturals that is not empty has a least member.
LEMMA LeastMember ==
    ASSUME NEW T, T \subseteq Nat, T # {}
    PROVE  \E x \in T : \A y \in T : x <= y
  <1>1. \A y, x \in Nat : <<y, x>> \in OpToRel(<, Nat) <=> y < x
    BY Zenon DEF OpToRel
  <1>2. PICK R : R = OpToRel(<, Nat)
    OBVIOUS
  <1>3. \A y, x \in Nat : <<y, x>> \in R <=> y < x
    BY <1>1, <1>2, Zenon
  <1>4. IsWellFoundedOn(R, Nat)
    BY <1>2, NatLessThanWellFounded, Zenon
  <1>5. PICK x \in T : \A y \in T : ~(<<y, x>> \in R)
    BY <1>4, WFMin, Zenon
  <1>6. ASSUME NEW y \in T
        PROVE  x <= y
    <2>1. x \in Nat /\ y \in Nat
      OBVIOUS
    <2>2. ~(y < x)
      BY <1>3, <1>5, <2>1, Zenon
    <2> QED
      BY <2>1, <2>2
  <1> QED
    BY <1>6

\* A set that has 0, and n + 1 with every n of its, has every natural.
LEMMA Induction ==
    ASSUME NEW T, 0 \in T, \A n \in Nat : n \in T => n + 1 \in T
    PROVE  \A n \in Nat : n \in T
  <1> SUFFICES ASSUME Nat \ T # {} PROVE FALSE
    OBVIOUS
  <1>1. PICK x \in Nat \ T : \A y \in Nat \ T : x <= y
    BY LeastMember
  <1>2. x # 0 /\ x - 1 \in Nat /\ (x - 1) + 1 = x
    OBVIOUS
  <1>3. x - 1 \in T
    BY <1>1, <1>2
  <1> QED
    BY <1>2, <1>3

\* The functions that start with a and go from n - 1 to n by G.
Recursions(D, a, G, m) ==
    {f \in [0 .. m -> D] : f[0] = a /\ \A n \in 1 .. m : f[n] = G[n][f[n - 1]]}

\* There is such a function.
LEMMA Recursion ==
    ASSUME NEW D, NEW a \in D, NEW G \in [Nat -> [D -> D]], NEW m \in Nat
    PROVE  Recursions(D, a, G, m) # {}
  <1> DEFINE Ok(k) == \E f \in [0 .. k -> D] :
                         f[0] = a /\ \A n \in 1 .. k : f[n] = G[n][f[n - 1]]
             T == {k \in Nat : Ok(k)}
  <1>1. Ok(0)
    <2>1. /\ [n \in 0 .. 0 |-> a] \in [0 .. 0 -> D]
          /\ [n \in 0 .. 0 |-> a][0] = a /\ 1 .. 0 = {}
      OBVIOUS
    <2> QED
      BY <2>1
  <1>2. ASSUME NEW k \in Nat, Ok(k)
        PROVE  Ok(k + 1)
    <2>1. PICK f \in [0 .. k -> D] : f[0] = a /\ \A n \in 1 .. k : f[n] = G[n][f[n - 1]]
      BY <1>2
    <2> DEFINE g == [n \in 0 .. k + 1 |-> IF n = k + 1 THEN G[n][f[k]] ELSE f[n]]
    <2>2. g \in [0 .. k + 1 -> D] /\ g[0] = a
      BY <2>1
    <2>3. ASSUME NEW n \in 1 .. k + 1
          PROVE  g[n] = G[n][g[n - 1]]
      <3>1. n - 1 \in 0 .. k /\ n - 1 \in 0 .. k + 1 /\ n - 1 # k + 1 /\ n \in 0 .. k + 1
        OBVIOUS
      <3>2. g[n - 1] = f[n - 1]
        BY <3>1
      <3>3. CASE n = k + 1
        BY <3>1, <3>2, <3>3
      <3>4. CASE n # k + 1
        BY <2>1, <3>1, <3>2, <3>4
      <3> QED
        BY <3>3, <3>4
    <2> QED
      BY <2>2, <2>3
  <1>3. 0 \in T /\ \A k \in Nat : k \in T => k + 1 \in T
    <2> HIDE DEF Ok
    <2> QED
      BY <1>1, <1>2
  <1>4. m \in T
    <2> HIDE DEF T
    <2> QED
      BY <1>3, Induction
  <1> QED
    BY <1>4 DEF Recursions

-----------------------------------------------------------------------------
(***************************************************************************)
(* Filter.                                                                 *)
(***************************************************************************)

LEMMA SameElements ==
    ASSUME NEW R, NEW s \in Seq(R), NEW t \in Seq(R), Len(s) = Len(t),
           \A i \in 1 .. Len(s) : s[i] = t[i]
    PROVE  s = t
  <1>1. s \in [1 .. Len(s) -> R] /\ t \in [1 .. Len(s) -> R]
    OBVIOUS
  <1> QED
    BY <1>1

LEMMA ConcatFacts ==
    ASSUME NEW R, NEW s \in Seq(R), NEW t \in Seq(R)
    PROVE  /\ s \o t \in Seq(R) /\ Len(s \o t) = Len(s) + Len(t)
           /\ \A i \in 1 .. Len(s) : (s \o t)[i] = s[i]
           /\ \A i \in 1 .. Len(t) : (s \o t)[Len(s) + i] = t[i]
           /\ Range(s \o t) = Range(s) \cup Range(t)
  <1>1. /\ s \o t \in Seq(R) /\ Len(s \o t) = Len(s) + Len(t) /\ Len(s) \in Nat /\ Len(t) \in Nat
        /\ DOMAIN s = 1 .. Len(s) /\ DOMAIN t = 1 .. Len(t)
        /\ DOMAIN (s \o t) = 1 .. Len(s) + Len(t)
    OBVIOUS
  <1>2. \A i \in 1 .. Len(s) : (s \o t)[i] = s[i]
    OBVIOUS
  <1>3. \A i \in 1 .. Len(t) : (s \o t)[Len(s) + i] = t[i]
    OBVIOUS
  <1>4. ASSUME NEW x \in Range(s \o t)
        PROVE  x \in Range(s) \cup Range(t)
    <2>1. PICK i \in 1 .. Len(s) + Len(t) : x = (s \o t)[i]
      BY <1>1 DEF Range
    <2>2. CASE i \in 1 .. Len(s)
      BY <1>1, <1>2, <2>1, <2>2 DEF Range
    <2>3. CASE i \notin 1 .. Len(s)
      <3>1. i - Len(s) \in 1 .. Len(t) /\ Len(s) + (i - Len(s)) = i
        BY <1>1, <2>3
      <3> QED
        BY <1>1, <1>3, <2>1, <3>1 DEF Range
    <2> QED
      BY <2>2, <2>3
  <1>5. ASSUME NEW x \in Range(s) \cup Range(t)
        PROVE  x \in Range(s \o t)
    <2>1. CASE x \in Range(s)
      <3>1. PICK i \in 1 .. Len(s) : x = s[i]
        BY <1>1, <2>1 DEF Range
      <3>2. i \in 1 .. Len(s) + Len(t)
        BY <1>1
      <3> QED
        BY <1>1, <1>2, <3>1, <3>2 DEF Range
    <2>2. CASE x \in Range(t)
      <3>1. PICK i \in 1 .. Len(t) : x = t[i]
        BY <1>1, <2>2 DEF Range
      <3>2. Len(s) + i \in 1 .. Len(s) + Len(t)
        BY <1>1
      <3> QED
        BY <1>1, <1>3, <3>1, <3>2 DEF Range
    <2> QED
      BY <2>1, <2>2
  <1> QED
    BY <1>1, <1>2, <1>3, <1>4, <1>5

\* w is s followed by t.
IsConcat(w, s, t) ==
    /\ Len(w) = Len(s) + Len(t)
    /\ \A i \in 1 .. Len(s) : w[i] = s[i]
    /\ \A i \in 1 .. Len(t) : w[Len(s) + i] = t[i]
    /\ Range(w) = Range(s) \cup Range(t)

LEMMA ConcatIs ==
    ASSUME NEW R, NEW s \in Seq(R), NEW t \in Seq(R), NEW w, w = s \o t
    PROVE  w \in Seq(R) /\ IsConcat(w, s, t)
  BY ConcatFacts DEF IsConcat

\* w is the part of s from m to n.
IsPart(w, s, m, n) ==
    Len(w) = (n - m) + 1 /\ \A i \in 1 .. (n - m) + 1 : w[i] = s[(m - 1) + i]

LEMMA SubSeqIs ==
    ASSUME NEW R, NEW s \in Seq(R), NEW m \in Nat \ {0}, NEW n \in Nat, m <= n + 1,
           n <= Len(s), NEW w, w = SubSeq(s, m, n)
    PROVE  w \in Seq(R) /\ IsPart(w, s, m, n)
  <1>1. (n - m) + 1 \in Nat /\ \A i \in 1 .. (n - m) + 1 : (m - 1) + i \in 1 .. Len(s)
    OBVIOUS
  <1>2. SubSeq(s, m, n) = [i \in 1 .. (n - m) + 1 |-> s[(m - 1) + i]]
    OBVIOUS
  <1>3. w \in [1 .. (n - m) + 1 -> R]
    BY <1>1, <1>2
  <1>4. w \in Seq(R) /\ Len(w) = (n - m) + 1
    BY <1>1, <1>3
  <1> QED
    BY <1>1, <1>2, <1>4 DEF IsPart

LEMMA AppendFacts ==
    ASSUME NEW R, NEW s \in Seq(R), NEW x \in R
    PROVE  /\ Append(s, x) \in Seq(R) /\ Append(s, x) # <<>>
           /\ Range(Append(s, x)) = Range(s) \cup {x}
           /\ s = <<>> => Append(s, x)[1] = x
           /\ s # <<>> => Append(s, x)[1] = s[1]
  <1>1. /\ Append(s, x) \in Seq(R) /\ Append(s, x) # <<>> /\ Len(s) \in Nat
        /\ DOMAIN s = 1 .. Len(s) /\ DOMAIN Append(s, x) = 1 .. Len(s) + 1
        /\ \A i \in 1 .. Len(s) : Append(s, x)[i] = s[i]
        /\ Append(s, x)[Len(s) + 1] = x
    OBVIOUS
  <1>2. Range(Append(s, x)) = Range(s) \cup {x}
    <2>1. \A i \in 1 .. Len(s) + 1 : i \in 1 .. Len(s) \/ i = Len(s) + 1
      BY <1>1
    <2>2. ASSUME NEW y \in Range(Append(s, x))
          PROVE  y \in Range(s) \cup {x}
      BY <1>1, <2>1 DEF Range
    <2>3. ASSUME NEW y \in Range(s)
          PROVE  y \in Range(Append(s, x))
      BY <1>1 DEF Range
    <2>4. x \in Range(Append(s, x))
      BY <1>1 DEF Range
    <2> QED
      BY <2>2, <2>3, <2>4
  <1>3. s # <<>> => Len(s) > 0
    OBVIOUS
  <1> QED
    BY <1>1, <1>2, <1>3

\* The result after each turn of Filter's loop.
FilterTurns(s, S, R) ==
    {out \in [0 .. Len(s) -> Seq(R)] :
        /\ out[0] = <<>>
        /\ \A n \in 1 .. Len(s) :
              out[n] = IF s[n] \in S THEN Append(out[n - 1], s[n]) ELSE out[n - 1]}

LEMMA FilterLoop ==
    ASSUME NEW S, NEW R, NEW s \in Seq(R)
    PROVE  \E out \in FilterTurns(s, S, R) : Filter(s, S) = out[Len(s)]
  <1> DEFINE turn(out, n) == IF n = 0 THEN <<>>
                             ELSE IF s[n] \in S THEN Append(out[n - 1], s[n]) ELSE out[n - 1]
             next(n, v) == IF n \in 1 .. Len(s) /\ s[n] \in S THEN Append(v, s[n]) ELSE v
  <1>1. Len(s) \in Nat /\ <<>> \in Seq(R) /\ \A n \in Nat, v \in Seq(R) : next(n, v) \in Seq(R)
    OBVIOUS
  <1>2. PICK f \in [0 .. Len(s) -> Seq(R)] :
            f[0] = <<>> /\ \A n \in 1 .. Len(s) : f[n] = next(n, f[n - 1])
    <2> DEFINE G == [n \in Nat |-> [v \in Seq(R) |-> next(n, v)]]
    <2> HIDE DEF next
    <2>1. /\ G \in [Nat -> [Seq(R) -> Seq(R)]]
          /\ \A n \in Nat, v \in Seq(R) : G[n][v] = next(n, v)
      BY <1>1
    <2> HIDE DEF G
    <2>2. PICK D, a, m : D = Seq(R) /\ a = <<>> /\ m = Len(s)
      OBVIOUS
    <2>3. a \in D /\ G \in [Nat -> [D -> D]] /\ m \in Nat
      BY <1>1, <2>1, <2>2
    <2>4. PICK f : f \in Recursions(D, a, G, m)
      BY <2>3, Recursion, Zenon
    <2>5. ASSUME NEW n \in 1 .. Len(s)
          PROVE  f[n] = next(n, f[n - 1])
      <3>1. n \in Nat /\ f[n - 1] \in Seq(R)
        BY <2>2, <2>4, SMTT(30) DEF Recursions
      <3> QED
        BY <2>1, <2>2, <2>4, <3>1, SMTT(30) DEF Recursions
    <2> QED
      BY <2>2, <2>4, <2>5 DEF Recursions
  <1>3. \A n \in 1 .. Len(s) :
            f[n] = IF s[n] \in S THEN Append(f[n - 1], s[n]) ELSE f[n - 1]
    BY <1>2
  <1>4. f = [n \in 0 .. Len(s) |-> turn(f, n)]
    <2>1. ASSUME NEW n \in 0 .. Len(s)
          PROVE  f[n] = turn(f, n)
      <3>1. n = 0 \/ n \in 1 .. Len(s)
        BY <1>1
      <3> QED
        BY <1>2, <1>3, <3>1
    <2> HIDE DEF turn
    <2> QED
      BY <2>1
  <1> DEFINE out == CHOOSE g : g = [n \in 0 .. Len(s) |-> turn(g, n)]
  <1>5. out = [n \in 0 .. Len(s) |-> turn(out, n)]
    <2> HIDE DEF turn
    <2> QED
      BY <1>4
  <1>6. Filter(s, S) = out[Len(s)]
    BY DEF Filter
  <1> HIDE DEF out
  <1>7. out[0] = <<>> /\ \A n \in 1 .. Len(s) :
            out[n] = IF s[n] \in S THEN Append(out[n - 1], s[n]) ELSE out[n - 1]
    <2>1. \A n \in 0 .. Len(s) : out[n] = turn(out, n)
      <3> HIDE DEF turn
      <3> QED
        BY <1>5
    <2> QED
      BY <1>1, <2>1
  <1>8. \A n \in 0 .. Len(s) : out[n] = f[n]
    <2> DEFINE T == {n \in Nat : n <= Len(s) => out[n] = f[n]}
    <2>1. 0 \in T
      BY <1>2, <1>7
    <2>2. ASSUME NEW n \in Nat, n \in T
          PROVE  n + 1 \in T
      <3>1. CASE n + 1 <= Len(s)
        <4>1. n + 1 \in 1 .. Len(s) /\ (n + 1) - 1 = n /\ n <= Len(s)
          BY <3>1, <1>1
        <4> QED
          BY <1>3, <1>7, <2>2, <4>1
      <3> QED
        BY <3>1
    <2>3. \A n \in Nat : n \in T
      <3> HIDE DEF T
      <3> QED
        BY <2>1, <2>2, Induction
    <2> QED
      BY <2>3
  <1>9. out = f
    BY <1>5, <1>8
  <1> QED
    BY <1>6, <1>7, <1>9 DEF FilterTurns

\* Filter returns elements of s that are in S, all of them, and keeps the first first.
LEMMA FilterFacts ==
    ASSUME NEW S, NEW R, NEW s \in Seq(R)
    PROVE  /\ Filter(s, S) \in Seq(R) /\ Filter(s, S) \in Seq(S)
           /\ Range(Filter(s, S)) = Range(s) \cap S
           /\ s # <<>> /\ s[1] \in S => Filter(s, S) # <<>> /\ Filter(s, S)[1] = s[1]
  <1>1. PICK out \in FilterTurns(s, S, R) : Filter(s, S) = out[Len(s)]
    BY FilterLoop, Zenon
  <1>0. /\ out \in [0 .. Len(s) -> Seq(R)] /\ out[0] = <<>>
        /\ \A n \in 1 .. Len(s) :
              out[n] = IF s[n] \in S THEN Append(out[n - 1], s[n]) ELSE out[n - 1]
    BY DEF FilterTurns
  <1> DEFINE Ok(n) == /\ \A x : x \in Range(out[n]) <=> \E i \in 1 .. n : s[i] = x /\ x \in S
                      /\ n > 0 /\ s[1] \in S => out[n] # <<>> /\ out[n][1] = s[1]
             T == {n \in Nat : n <= Len(s) => Ok(n)}
  <1>2. 0 \in T
    BY <1>0 DEF Range
  <1>3. ASSUME NEW n \in Nat, n \in T
        PROVE  n + 1 \in T
    <2> SUFFICES ASSUME n + 1 <= Len(s) PROVE Ok(n + 1)
      OBVIOUS
    <2>1. Ok(n) /\ n + 1 \in 1 .. Len(s) /\ (n + 1) - 1 = n /\ n \in 0 .. Len(s)
      BY <1>3
    <2>2. PICK q \in Seq(R), x \in R : q = out[n] /\ x = s[n + 1]
      BY <1>0, <2>1
    <2>3. out[n + 1] = IF x \in S THEN Append(q, x) ELSE q
      BY <1>0, <2>1, <2>2
    <2>4. \A y : (\E i \in 1 .. n + 1 : s[i] = y /\ y \in S)
                     <=> (\E i \in 1 .. n : s[i] = y /\ y \in S) \/ (y = x /\ x \in S)
      BY <2>2
    <2>5. \A y : y \in Range(out[n + 1]) <=> y \in Range(q) \/ (y = x /\ x \in S)
      BY <2>3, AppendFacts
    <2>6. ASSUME s[1] \in S PROVE out[n + 1] # <<>> /\ out[n + 1][1] = s[1]
      <3>1. CASE n = 0
        <4>1. q = <<>> /\ x = s[1]
          BY <1>0, <2>2, <3>1
        <4> QED
          BY <2>3, <2>6, <4>1, AppendFacts
      <3>2. CASE n > 0
        <4>1. q # <<>> /\ q[1] = s[1]
          BY <2>1, <2>2, <2>6, <3>2
        <4> QED
          BY <2>3, <4>1, AppendFacts
      <3> QED
        BY <3>1, <3>2
    <2> QED
      BY <2>1, <2>2, <2>4, <2>5, <2>6
  <1>4. Len(s) \in T /\ Len(s) \in Nat
    <2> HIDE DEF T
    <2> QED
      BY <1>2, <1>3, Induction
  <1>5. Ok(Len(s))
    BY <1>4
  <1>6. Filter(s, S) \in Seq(R)
    BY <1>0, <1>1, <1>4
  <1>7. Range(Filter(s, S)) = Range(s) \cap S
    BY <1>1, <1>5 DEF Range
  <1>8. Filter(s, S) \in Seq(S)
    <2>1. \A i \in 1 .. Len(Filter(s, S)) : Filter(s, S)[i] \in S
      BY <1>6, <1>7 DEF Range
    <2> QED
      BY <1>6, <2>1
  <1>9. s # <<>> => Len(s) > 0
    OBVIOUS
  <1> QED
    BY <1>1, <1>5, <1>6, <1>7, <1>8, <1>9
=============================================================================
