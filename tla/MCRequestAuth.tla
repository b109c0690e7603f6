--------------------------- MODULE MCRequestAuth ---------------------------
(***************************************************************************)
(* Instances of RequestAuth.  One key; a nonce that is sent on two routes; *)
(* requests stamped at different times; a request that does not verify.    *)
(***************************************************************************)
EXTENDS RequestAuth

Request(n, route, ts, ok) ==
  [keyId |-> "k", nonce |-> n, route |-> route, ts |-> ts, authentic |-> ok]

BusyRequests ==
  { Request("n1", "push", 2, TRUE), Request("n2", "push", 2, TRUE),
    Request("n3", "push", 2, TRUE), Request("n1", "pull", 3, TRUE),
    Request("n5", "push", 2, FALSE) }
=============================================================================
