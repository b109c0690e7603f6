------------------------------ MODULE MCParts ------------------------------
(***************************************************************************)
(* An instance of Parts: one process with a pool of one client, two with   *)
(* room for the set-up.                                                    *)
(***************************************************************************)
EXTENDS Parts, TLC

CONSTANTS i1, i2, i3

OneSmallPool == (i1 :> 1) @@ (i2 :> 2) @@ (i3 :> 2)

FiveReports == -5
=============================================================================
