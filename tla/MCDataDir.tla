----------------------------- MODULE MCDataDir -----------------------------
\* Three executions of meshctl over one directory, one name to choose.
EXTENDS DataDir, TLC

Symmetry == Permutations(Runs)
=============================================================================
