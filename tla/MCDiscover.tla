----------------------------- MODULE MCDiscover -----------------------------
\* Three peers, each of which may restart as a coordinator or as a plain node.
EXTENDS Discover

CONSTANT x

MCAds == {[attr |-> 0, addrs |-> <<x>>], [attr |-> 7444, addrs |-> <<x>>]}
=============================================================================
