--------------------------- MODULE MCKeyLifecycle ---------------------------
(***************************************************************************)
(* Three keys and one label: enough for a key, the key that takes over its *)
(* label after it expired, and a bystander.                                *)
(***************************************************************************)
EXTENDS KeyLifecycle, TLC

SomeTtls == {0, 2}

KeySymmetry == Permutations(KeyIds)
=============================================================================
