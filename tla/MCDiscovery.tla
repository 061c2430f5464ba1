--------------------------- MODULE MCDiscovery ----------------------------
(* NodeDiscovery for model checking. *)
EXTENDS NodeDiscovery

\* The addresses a node names as neighbours are interchangeable; the nodes to
\* bootstrap from are told apart by the order of the sockets.
IpSymmetry == Permutations(Ips)
===========================================================================
