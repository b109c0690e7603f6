--------------------------- MODULE MCMailboxPlane ---------------------------
(***************************************************************************)
(* An instance of MailboxPlane: two key ids of one member and the key of   *)
(* the creator.                                                            *)
(***************************************************************************)
EXTENDS MailboxPlane, TLC

CONSTANTS k1, k2, kc, alice, carol

TwoOwners == (k1 :> alice) @@ (k2 :> alice) @@ (kc :> carol)

KeySymmetry == Permutations({k1, k2})
=============================================================================
