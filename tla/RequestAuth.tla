---------------------------- MODULE RequestAuth ----------------------------
(***************************************************************************)
(* Signed-request verification over the in-memory nonce store              *)
(* (MemoryRequestNonceStore in server/request-nonce-store.ts).             *)
(*                                                                         *)
(* verifyRequestSignature runs to completion without giving up the event   *)
(* loop: the memory store's consume has no await, so one request is one    *)
(* step.  The Map keeps its keys in insertion order, which trim() relies   *)
(* on: a row carries the position it was inserted at.                      *)
(***************************************************************************)
EXTENDS SignedRequest

CONSTANTS
  CacheMax,      \* options.requestNonceCacheMax
  MaxTime,       \* bound: the clock stops here
  MaxInserted,   \* bound: rows ever inserted
  MaxRestarts    \* bound: process restarts

ASSUME OptionsAssumption ==
  /\ CacheMax \in Nat
  /\ MaxTime \in Nat
  /\ MaxInserted \in Nat
  /\ MaxRestarts \in Nat

VARIABLES
  now,         \* Date.now()
  used,        \* MemoryRequestNonceStore.used, a set of rows
  inserted,    \* rows inserted so far: the insertion order of the Map
  served,      \* history: how often a request was let through (2 = repeatedly)
  lost,        \* history: global keys dropped from the store before they expired
  restarts     \* process restarts so far

vars == <<now, used, inserted, served, lost, restarts>>

-----------------------------------------------------------------------------
Row == [key : Keys, expiresAt : Nat, at : Nat]

GlobalKeysOf(rows) == {row.key : row \in {x \in rows : IsGlobal(x.key)}}

RowAt(key, position) ==
  [key |-> key, expiresAt |-> NonceExpiry(now), at |-> position]

PairGlobalFirst(r) ==
  {RowAt(GlobalKey(r), inserted), RowAt(ScopeKey(r), inserted + 1)}

\* The two rows of one consumption, scoped key first.
Pair(r) ==
  {RowAt(ScopeKey(r), inserted), RowAt(GlobalKey(r), inserted + 1)}

TrimTarget == (CacheMax * 95) \div 100

NewerThan(row, rows) == {x \in rows : x.at > row.at}
OlderThan(row, rows) == {x \in rows : x.at < row.at}

TrimNewest(rows) ==
  IF Cardinality(rows) <= CacheMax THEN rows
  ELSE {row \in rows : Cardinality(OlderThan(row, rows)) < TrimTarget}

\* trim(): once over the limit, delete from the oldest on until the target is met.
Trim(rows) ==
  IF Cardinality(rows) <= CacheMax THEN rows
  ELSE {row \in rows : Cardinality(NewerThan(row, rows)) < TrimTarget}

-----------------------------------------------------------------------------
Init ==
  /\ now = 0
  /\ used = {}
  /\ inserted = 0
  /\ served = [r \in Requests |-> 0]
  /\ lost = {}
  /\ restarts = 0

\* A verified request whose nonce is free: both rows go in and it is served.
AcceptRequest(r) ==
  LET live   == Unexpired(used, now)
      filled == live \cup Pair(r)
      kept   == Trim(filled)
  IN /\ Verified(r, now)
     /\ ~ NonceTaken(r, live)
     /\ inserted + 2 <= MaxInserted
     /\ used' = kept
     /\ inserted' = inserted + 2
     /\ served' = [served EXCEPT ![r] = ServedOnceMore(@)]
     /\ lost' = lost \cup (GlobalKeysOf(filled) \ GlobalKeysOf(kept))
     /\ UNCHANGED <<now, restarts>>

\* "Replay detected": the store has been swept, nothing else changes.
RejectReplay(r) ==
  /\ Verified(r, now)
  /\ NonceTaken(r, Unexpired(used, now))
  /\ used' = Unexpired(used, now)
  /\ UNCHANGED <<now, inserted, served, lost, restarts>>

\* A request that fails an earlier check never reaches the store.
RejectUnverified(r) ==
  /\ ~ Verified(r, now)
  /\ UNCHANGED vars

Tick ==
  /\ now < MaxTime
  /\ now' = now + 1
  /\ UNCHANGED <<used, inserted, served, lost, restarts>>

\* The store is a field of the process: a restart empties it.
Restart ==
  /\ restarts < MaxRestarts
  /\ restarts' = restarts + 1
  /\ used' = {}
  /\ lost' = lost \cup GlobalKeysOf(Unexpired(used, now))
  /\ UNCHANGED <<now, inserted, served>>

Next ==
  \/ \E r \in Requests : AcceptRequest(r) \/ RejectReplay(r) \/ RejectUnverified(r)
  \/ Tick
  \/ Restart

Spec == Init /\ [][Next]_vars

-----------------------------------------------------------------------------
\* Types of the state; every row was inserted before the next one will be.
TypeOK ==
  /\ now \in 0..MaxTime
  /\ used \subseteq Row
  /\ inserted \in Nat
  /\ served \in [Requests -> 0..2]
  /\ lost \subseteq Keys
  /\ restarts \in Nat

\* Assumption of the replay results: a nonce outlives every copy of its
\* request.  The two options are independent in the code; a copy stamped
\* SkewMs ahead of the server stays fresh for twice the skew.
TtlCoversWindow == NonceTtlMs > 2 * SkewMs

\* A request is let through a second time only after its global nonce row was
\* dropped early, by trim() or by a restart: expiry alone never reopens it.
ReplayNeedsLostNonce ==
  TtlCoversWindow => \A r \in Requests : served[r] > 1 => GlobalKey(r) \in lost

\* trim() cuts a scope/global pair only after its scoped half: while the
\* scoped row is there the key-global row is there too, with the same expiry.
ScopeNeverOutlivesGlobal ==
  \A row \in used : ~ IsGlobal(row.key) =>
     \E g \in used : g.key = GlobalOf(row.key) /\ g.expiresAt = row.expiresAt

\* A failing request burns no nonce: every stored row belongs to an authentic
\* request that was let through.
StoredNonceWasServed ==
  \A row \in used : \E r \in Requests :
     r.authentic /\ served[r] > 0 /\ row.key \in {ScopeKey(r), GlobalKey(r)}

\* However full the store, the nonce just consumed survives its own trim().
ConsumedNonceSurvivesTrim ==
  [][\A r \in Requests : inserted' # inserted /\ served'[r] # served[r] =>
        GlobalKey(r) \in GlobalKeysOf(used')]_vars

\* The strict reading of "replayed nonces are rejected": at most once, always.
NoReplay == \A r \in Requests : served[r] <= 1

\* ReplayProtection without a wait between the check and the consumption.
Promise == INSTANCE ReplayProtection WITH GraceMs <- 0

\* The memory store implements ReplayProtection for as long as no live nonce
\* has been lost: trim() and a restart are the only ways out of the promise.
KeepsPromise ==
  Promise!Init /\ [][lost = {} => Promise!Next \/ UNCHANGED Promise!vars]_vars
=============================================================================
