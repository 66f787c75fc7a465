------------------------------- MODULE MCMDNS -------------------------------
\* Small instances of MDNS: a node, two peers, announcements that differ in the
\* attributes, in the addresses and in the order of the addresses.
EXTENDS MDNS

CONSTANTS a, b, x, y

MCAds == {[attr |-> a, addrs |-> <<x>>],
          [attr |-> a, addrs |-> <<y>>],
          [attr |-> b, addrs |-> <<y, x>>]}

\* The addresses of a node with two interfaces, in either order.
MCReorderedAds == {[attr |-> a, addrs |-> <<x, y>>], [attr |-> a, addrs |-> <<y, x>>]}
=============================================================================
