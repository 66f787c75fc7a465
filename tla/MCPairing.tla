----------------------------- MODULE MCPairing -----------------------------
\* Two joiners and a mesh initialised twice.
EXTENDS Pairing, TLC

CONSTANTS j1, j2

OwnNames == j1 :> "n1" @@ j2 :> "n2"

\* host:port, and a form that gRPC dials and net.SplitHostPort does not split.
BothAddrs == {<<"host", "pair">>, <<"dns", "///host", "pair">>}
=============================================================================
