-------------------------------- MODULE Maps --------------------------------
(***************************************************************************)
(* Go maps as partial functions: the keys are the domain.                  *)
(***************************************************************************)
EXTENDS FiniteSets, Functions

PartialFunctions(S, T) == UNION {[D -> T] : D \in SUBSET S}

EmptyMap == [x \in {} |-> 0]

\* len(m)
Count(f) == Cardinality(DOMAIN f)

\* m[k] = v
Put(f, k, v) == [x \in DOMAIN f \cup {k} |-> IF x = k THEN v ELSE f[x]]

\* delete(m, k)
Delete(f, k) == Restrict(f, DOMAIN f \ {k})
=============================================================================
