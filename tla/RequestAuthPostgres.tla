------------------------ MODULE RequestAuthPostgres ------------------------
(***************************************************************************)
(* Signed-request verification over PostgresRequestNonceStore: several     *)
(* server instances share one table, and a request waits between its       *)
(* checks and the transaction that consumes its nonce (ensureReady,        *)
(* pool.connect, BEGIN and the queries are awaited).                       *)
(*                                                                         *)
(* The transaction is one step: the primary key on nonce_key orders        *)
(* conflicting inserts and ROLLBACK undoes the sweep that precedes them.   *)
(***************************************************************************)
EXTENDS SignedRequest

CONSTANTS
  Instances,       \* server processes that share the database
  Slots,           \* requests one process can have in flight
  ConsumeDelayMax, \* environment: longest wait between checks and transaction
  CleanupEvery,    \* a process sweeps the table on every n-th consumption
  MaxTime,         \* bound: the clock stops here
  MaxFaults        \* bound: failed queries, failed schema set-ups and restarts

ASSUME DeploymentAssumption ==
  /\ ConsumeDelayMax \in Nat
  /\ CleanupEvery \in Nat \ {0}
  /\ MaxTime \in Nat
  /\ MaxFaults \in Nat

Handlers == Instances \X Slots

VARIABLES
  now,        \* Date.now(), the same on all instances
  table,      \* voryx_request_nonces
  pending,    \* handlers between their checks and the end of consume
  ready,      \* ensureReady's memoised promise, per instance
  sweepIn,    \* consumptions until the instance's next sweep (cleanupCounter)
  served,     \* history: how often a request was let through (2 = repeatedly)
  faults      \* faults so far

vars == <<now, table, pending, ready, sweepIn, served, faults>>

-----------------------------------------------------------------------------
Row == [key : Keys, expiresAt : Nat]

Waiting == [handler : Handlers, req : Requests, createdAt : Nat]

InstanceOf(w) == w.handler[1]

InsertedRows(w) ==
  {[key |-> key, expiresAt |-> NonceExpiry(w.createdAt)] :
      key \in {ScopeKey(w.req), GlobalKey(w.req)}}

Swept(w) ==
  IF sweepIn[InstanceOf(w)] = 0 THEN Unexpired(table, w.createdAt) ELSE table

FreeRows(w) ==
  {row \in InsertedRows(w) : \A old \in Swept(w) : old.key # row.key}

SomeRowInserted(w) == FreeRows(w) # {}

\* INSERT .. ON CONFLICT DO NOTHING reported two rows.
BothRowsInserted(w) == FreeRows(w) = InsertedRows(w)

CountDownOnly(i) == sweepIn' = [sweepIn EXCEPT ![i] = @ - 1]

\* cleanupCounter++ % 1000, here counted down.
CountSweep(i) ==
  sweepIn' = [sweepIn EXCEPT ![i] = IF @ = 0 THEN CleanupEvery - 1 ELSE @ - 1]

Fault == faults < MaxFaults /\ faults' = faults + 1

-----------------------------------------------------------------------------
Init ==
  /\ now = 0
  /\ table = {}
  /\ pending = {}
  /\ ready = [i \in Instances |-> "none"]
  /\ sweepIn = [i \in Instances |-> 0]
  /\ served = [r \in Requests |-> 0]
  /\ faults = 0

\* The checks pass and the handler goes on to consume the nonce.
VerifyRequest(h, r) ==
  /\ \A w \in pending : w.handler # h
  /\ Verified(r, now)
  /\ pending' = pending \cup {[handler |-> h, req |-> r, createdAt |-> now]}
  /\ UNCHANGED <<now, table, ready, sweepIn, served, faults>>

\* A request that fails an earlier check never reaches the store.
RejectUnverified(r) ==
  /\ ~ Verified(r, now)
  /\ UNCHANGED vars

\* First use of the store: create the table, sweep it, remember the outcome.
SetUpSchema(i) ==
  /\ ready[i] = "none"
  /\ \E w \in pending : InstanceOf(w) = i
  /\ ready' = [ready EXCEPT ![i] = "ok"]
  /\ table' = Unexpired(table, now)
  /\ UNCHANGED <<now, pending, sweepIn, served, faults>>

\* A failed set-up is remembered too: the promise is never replaced.
FailSchema(i) ==
  /\ ready[i] = "none"
  /\ \E w \in pending : InstanceOf(w) = i
  /\ Fault
  /\ ready' = [ready EXCEPT ![i] = "failed"]
  /\ UNCHANGED <<now, table, pending, sweepIn, served>>

\* Both rows inserted and committed: the request is let through.
CommitConsume(w) ==
  /\ ready[InstanceOf(w)] = "ok"
  /\ BothRowsInserted(w)
  /\ table' = Swept(w) \cup FreeRows(w)
  /\ served' = [served EXCEPT ![w.req] = ServedOnceMore(@)]
  /\ CountSweep(InstanceOf(w))
  /\ pending' = pending \ {w}
  /\ UNCHANGED <<now, ready, faults>>

\* Any conflict rolls back: "Replay detected", the table is as it was.
RollBackConsume(w) ==
  /\ ready[InstanceOf(w)] = "ok"
  /\ ~ BothRowsInserted(w)
  /\ CountSweep(InstanceOf(w))
  /\ pending' = pending \ {w}
  /\ UNCHANGED <<now, table, ready, served, faults>>

\* A query throws (or there was never a table): the request is not served.
\* The failure may come before or after the sweep was counted, and a COMMIT
\* whose answer is lost has still stored the rows.
FailConsume(w) ==
  LET i == InstanceOf(w) IN
  /\ \/ /\ ready[i] = "failed"
        /\ UNCHANGED <<table, sweepIn, faults>>
     \/ /\ ready[i] = "ok"
        /\ Fault
        /\ \/ UNCHANGED <<table, sweepIn>>
           \/ CountSweep(i) /\ UNCHANGED table
           \/ /\ CountSweep(i)
              /\ BothRowsInserted(w)
              /\ table' = Swept(w) \cup FreeRows(w)
  /\ pending' = pending \ {w}
  /\ UNCHANGED <<now, ready, served>>

\* A process dies with its handlers; the table stays.
Restart(i) ==
  /\ Fault
  /\ pending' = {w \in pending : InstanceOf(w) # i}
  /\ ready' = [ready EXCEPT ![i] = "none"]
  /\ sweepIn' = [sweepIn EXCEPT ![i] = 0]
  /\ UNCHANGED <<now, table, served>>

Tick ==
  /\ now < MaxTime
  /\ \A w \in pending : now < w.createdAt + ConsumeDelayMax
  /\ now' = now + 1
  /\ UNCHANGED <<table, pending, ready, sweepIn, served, faults>>

Next ==
  \/ \E h \in Handlers, r \in Requests : VerifyRequest(h, r)
  \/ \E r \in Requests : RejectUnverified(r)
  \/ \E i \in Instances : SetUpSchema(i) \/ FailSchema(i) \/ Restart(i)
  \/ \E w \in pending : CommitConsume(w) \/ RollBackConsume(w) \/ FailConsume(w)
  \/ Tick

Spec == Init /\ [][Next]_vars

-----------------------------------------------------------------------------
\* Types of the state; a handler serves one request at a time.
TypeOK ==
  /\ now \in 0..MaxTime
  /\ table \subseteq Row
  /\ pending \subseteq Waiting
  /\ \A v, w \in pending : v.handler = w.handler => v = w
  /\ ready \in [Instances -> {"none", "ok", "failed"}]
  /\ sweepIn \in [Instances -> 0..(CleanupEvery - 1)]
  /\ served \in [Requests -> 0..2]
  /\ faults \in Nat

\* Assumption of the replay results: the rows outlive the timestamp window
\* and the longest wait of a handler that already passed its checks.
TtlCoversWait == NonceTtlMs > 2 * SkewMs + ConsumeDelayMax

\* "Both nonce rows must be inserted": no sweep, conflict, lost commit or
\* restart leaves one row of a pair, or two rows under one key.
PairsStayWhole ==
  \A row \in table :
    /\ \A other \in table : other.key = row.key => other = row
    /\ IF IsGlobal(row.key)
       THEN \E s \in table : /\ ~ IsGlobal(s.key)
                             /\ GlobalOf(s.key) = row.key
                             /\ s.expiresAt = row.expiresAt
       ELSE \E g \in table : g.key = GlobalOf(row.key) /\ g.expiresAt = row.expiresAt

\* The shared table keeps the promise of ReplayProtection across instances,
\* restarts, failed queries and sweeps, with the wait as grace.
Promise == INSTANCE ReplayProtection WITH GraceMs <- ConsumeDelayMax

KeepsPromise == Promise!Spec
=============================================================================
