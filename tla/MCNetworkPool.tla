--------------------------- MODULE MCNetworkPool ---------------------------
(* Bounds for checking NetworkPool with TLC; the clients and network names *)
(* are sets of model values given in each .cfg.                            *)
EXTENDS NetworkPool

\* Two /24 candidates, the second overlapped by a network outside the pool
\* whose subnet is not that /24 (say 10.20.1.128/25): two concurrent
\* auto-allocations pick the same one, and an allocation after the first
\* keeps picking the overlapped one until its retries run out.
MCSubnets == {0, 1}
\* A caller may also name subnet 0 explicitly, which collides with auto.
MCExplicit == {0}
MCForeign == {[covers |-> {1}, exact |-> FALSE]}

\* A foreign network over the first candidate that is not its /24 (say
\* 10.20.0.0/23 or 10.20.0.128/25), the second candidate free.
MCForeignLow == {[covers |-> {0}, exact |-> FALSE]}

\* Network names are interchangeable uuids.
MCSymmetry == Permutations(NetNames)
=============================================================================
