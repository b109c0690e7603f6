--------------------------- MODULE MCMessageReads ---------------------------
(***************************************************************************)
(* An instance of MessageReads; requests are interchangeable.              *)
(***************************************************************************)
EXTENDS MessageReads, TLC

RequestSymmetry == Permutations(Requests)
=============================================================================
