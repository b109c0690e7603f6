-------------------------- MODULE ReplayProtection --------------------------
(***************************************************************************)
(* What the request-authentication layer promises, whichever nonce store   *)
(* stands behind it: a nonce is single use for as long as any request that *)
(* carries it could still be inside its timestamp window.  A request that  *)
(* was served is therefore never served again.                             *)
(***************************************************************************)
EXTENDS Integers

CONSTANTS
  Requests,     \* the signed requests that clients ever produce
  SkewMs,       \* options.requestSignatureSkewMs
  GraceMs       \* longest time between the timestamp check and the consumption

VARIABLES
  now,          \* the server's clock
  served        \* how many times each request was let through

vars == <<now, served>>

SameNonce(r, s) == r.keyId = s.keyId /\ r.nonce = s.nonce

\* The last instant at which a copy of r can still be let through.
Deadline(r) == r.ts + SkewMs + GraceMs

InWindow(r) == r.ts - SkewMs <= now /\ now <= Deadline(r)

NonceInUse(r) ==
  \E s \in Requests : SameNonce(r, s) /\ served[s] > 0 /\ now <= Deadline(s)

Init ==
  /\ now = 0
  /\ served = [r \in Requests |-> 0]

Serve(r) ==
  /\ r.authentic
  /\ InWindow(r)
  /\ ~ NonceInUse(r)
  /\ served' = [served EXCEPT ![r] = 1]
  /\ UNCHANGED now

Elapse == now' \in Nat /\ now' > now /\ UNCHANGED served

Next == Elapse \/ \E r \in Requests : Serve(r)

Spec == Init /\ [][Next]_vars
=============================================================================
