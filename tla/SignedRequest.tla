--------------------------- MODULE SignedRequest ---------------------------
(***************************************************************************)
(* What request-auth.ts does before and around a nonce store: the checks   *)
(* of verifyRequestSignature, the two store keys of a request and the rows *)
(* both stores keep under them.                                            *)
(*                                                                         *)
(* A request is a delivered copy of a message a client signed, so the same *)
(* request may arrive any number of times.  "route" is the method with the *)
(* normalized path; "authentic" is the body-hash comparison together with  *)
(* the signature check; names and nonces are taken in canonical form.      *)
(***************************************************************************)
EXTENDS Integers, FiniteSets

CONSTANTS
  Requests,      \* the requests that may be delivered
  SkewMs,        \* options.requestSignatureSkewMs
  NonceTtlMs     \* options.requestNonceTtlMs

AnyRoute == "*"

RequestShape(r) ==
  /\ DOMAIN r = {"keyId", "nonce", "route", "ts", "authentic"}
  /\ r.ts \in Int
  /\ r.authentic \in BOOLEAN
  /\ r.route # AnyRoute

ASSUME RequestsAssumption == \A r \in Requests : RequestShape(r)

ASSUME WindowAssumption == SkewMs \in Nat /\ NonceTtlMs \in Nat

-----------------------------------------------------------------------------
ScopeKey(r)  == [keyId |-> r.keyId, route |-> r.route, nonce |-> r.nonce]
GlobalKey(r) == [keyId |-> r.keyId, route |-> AnyRoute, nonce |-> r.nonce]

Keys == {ScopeKey(r) : r \in Requests} \cup {GlobalKey(r) : r \in Requests}

IsGlobal(key) == key.route = AnyRoute

GlobalOf(key) == [key EXCEPT !.route = AnyRoute]

Distance(a, b) == IF a < b THEN b - a ELSE a - b

FreshPastOnly(r, t) == t - r.ts <= SkewMs

\* The timestamp check, on both sides of the server's clock.
Fresh(r, t) == Distance(t, r.ts) <= SkewMs

VerifiedUnsigned(r, t) == Fresh(r, t)

\* The checks that come before the nonce is consumed.
Verified(r, t) == Fresh(r, t) /\ r.authentic

NonceExpired(t) == t - NonceTtlMs

\* The expiry the entry gets: Date.now() of the checks plus the nonce TTL.
NonceExpiry(t) == t + NonceTtlMs

\* cleanup(): rows whose expiry has come are deleted.
Unexpired(rows, t) == {row \in rows : row.expiresAt > t}

ScopeTaken(r, rows) == \E row \in rows : row.key = ScopeKey(r)

NonceTaken(r, rows) ==
  \E row \in rows : row.key \in {ScopeKey(r), GlobalKey(r)}

ServedOnceMore(n) == IF n = 0 THEN 1 ELSE 2
=============================================================================
