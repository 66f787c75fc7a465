------------------------------ MODULE MCPairer ------------------------------
\* Small instances of Pairer: two goroutines that may overlap anywhere.
EXTENDS Pairer
=============================================================================
