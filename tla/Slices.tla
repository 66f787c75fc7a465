------------------------------- MODULE Slices -------------------------------
(***************************************************************************)
(* A loop over a slice that several functions have: the elements that pass *)
(* a test are appended to the result, one after the other.                 *)
(***************************************************************************)
EXTENDS Integers, Sequences

\* The elements of s that are in S, in their order.
Filter(s, S) ==
    LET out[n \in 0 .. Len(s)] ==
            IF n = 0 THEN <<>>
            ELSE IF s[n] \in S THEN Append(out[n - 1], s[n]) ELSE out[n - 1]
    IN  out[Len(s)]
=============================================================================
