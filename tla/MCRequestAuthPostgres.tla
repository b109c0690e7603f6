----------------------- MODULE MCRequestAuthPostgres -----------------------
(***************************************************************************)
(* Two instances with one request in flight each.  One nonce is sent on    *)
(* two routes, so that a second request can collide on the global key      *)
(* only; a third request keeps the sweep counters moving.                  *)
(***************************************************************************)
EXTENDS RequestAuthPostgres

Request(n, route, ts, ok) ==
  [keyId |-> "k", nonce |-> n, route |-> route, ts |-> ts, authentic |-> ok]

MixedRequests ==
  { Request("n1", "push", 1, TRUE), Request("n1", "pull", 1, TRUE),
    Request("n2", "push", 5, TRUE), Request("n3", "push", 1, FALSE) }
=============================================================================
