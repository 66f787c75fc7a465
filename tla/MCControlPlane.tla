--------------------------- MODULE MCControlPlane ---------------------------
\* A mesh initialised twice, with certificates that expire within the horizon: the
\* node's first, then the administrator's, then the CA.
EXTENDS ControlPlane

\* Half a second, a second, one and a half, the maximum and a second more, minus
\* one second, and one second more than a uint32 of width 8 holds.
MCDurations == {1, 2, 3, 8, 10, -2, 18}
=============================================================================
