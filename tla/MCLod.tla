------------------------------- MODULE MCLod -------------------------------
(***************************************************************************)
(* Values for the constants of the LOD models.                             *)
(***************************************************************************)
EXTENDS LodProperties, TLC

CONSTANTS p1, p2, t1, k1, k2

\* Every proxy and tile has a key of its own.
OwnKeys == [p \in Proxies |-> [t \in Tiles |-> IF p = p1 THEN k1 ELSE k2]]

\* The proxies use the same key template.
SameKey == [p \in Proxies |-> [t \in Tiles |-> k1]]

\* Requests are interchangeable.
RequestSymmetry == Permutations(Requests)
=============================================================================
