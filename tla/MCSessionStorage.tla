-------------------------- MODULE MCSessionStorage --------------------------
(***************************************************************************)
(* Instances of SessionStorage: two owners, one of whom has two key ids, so*)
(* that a purge through one id meets a session joined with the other; or   *)
(* one owner of two sessions.                                              *)
(***************************************************************************)
EXTENDS SessionStorage, TLC

CONSTANTS k1, k2, k3, pkA, pkB, s1, s2, node

OneKeyId == {k1}
ThreeKeyIds == {k1, k2, k3}
OwnersOf1 == (k1 :> pkA)
OwnersOf3 == (k1 :> pkA) @@ (k2 :> pkA) @@ (k3 :> pkB)

OneSession == {s1}
TwoSessions == {s1, s2}
NoNodes == (s1 :> {})
NodesOf2 == (s1 :> {node}) @@ (s2 :> {node})

\* Interchangeable names: both key ids of one owner, and two sessions on one node.
SiblingIds == Permutations({k1, k2})
Sessions2 == Permutations({s1, s2})
=============================================================================
