----------------------------- MODULE SchemaLock -----------------------------
(***************************************************************************)
(* The set-up of a Postgres store: ensureReady of the three stores and the *)
(* advisory lock of postgres-schema-lock.ts beneath it.                    *)
(*                                                                         *)
(* Each instance of the server has a pool of its own.  The lock is held by *)
(* one client of that pool while the statements of the set-up ask the same *)
(* pool for another; a query that gets no client fails after               *)
(* connectionTimeoutMillis.  The promise of the set-up is kept whatever    *)
(* becomes of it, so only a restart tries again.                           *)
(*                                                                         *)
(* External: the database, which gives the lock to one session at a time   *)
(* and takes it back when the session ends, and pg.Pool.                   *)
(***************************************************************************)
EXTENDS Integers

CONSTANTS
  Instances,    \* server processes
  PoolMax,      \* Instances -> VORYX_..._PG_POOL_MAX
  Statements,   \* queries of one set-up
  MaxFaults     \* bound: failed queries and crashes

VARIABLES
  setup,    \* how far each instance's ready promise has come
  todo,     \* statements left of each set-up
  outcome,  \* what work() came to
  holder,   \* the session that holds the lock
  faulted,  \* history: instances that met a fault
  troubles  \* faults so far

vars == <<setup, todo, outcome, holder, faulted, troubles>>

Nobody == "nobody"
Orphan == "orphan"   \* a session whose client is gone

-----------------------------------------------------------------------------
Init ==
  /\ setup = [i \in Instances |-> "idle"]
  /\ todo = [i \in Instances |-> Statements]
  /\ outcome = [i \in Instances |-> "ready"]
  /\ holder = Nobody
  /\ faulted = {}
  /\ troubles = 0

\* The first request that needs the store calls ensureReady.
Begin(i) ==
  /\ setup[i] = "idle"
  /\ setup' = [setup EXCEPT ![i] = "connect"]
  /\ UNCHANGED <<todo, outcome, holder, faulted, troubles>>

\* pool.connect()
Connect(i) ==
  /\ setup[i] = "connect"
  /\ setup' = [setup EXCEPT ![i] = "lock"]
  /\ UNCHANGED <<todo, outcome, holder, faulted, troubles>>

\* pg_advisory_lock waits, without a limit, until the lock is free.
TakeLock(i) ==
  /\ setup[i] = "lock"
  /\ holder = Nobody
  /\ holder' = i
  /\ setup' = [setup EXCEPT ![i] = "work"]
  /\ UNCHANGED <<todo, outcome, faulted, troubles>>

\* A statement of work() runs on a second client of the pool ...
Statement(i) ==
  /\ setup[i] = "work"
  /\ PoolMax[i] > 1
  /\ todo' = [todo EXCEPT ![i] = @ - 1]
  /\ setup' = [setup EXCEPT ![i] = IF todo[i] = 1 THEN "unlock" ELSE "work"]
  /\ UNCHANGED <<outcome, holder, faulted, troubles>>

\* ... or waits in vain for one, and work() throws.
StarveStatement(i) ==
  /\ setup[i] = "work"
  /\ PoolMax[i] = 1
  /\ setup' = [setup EXCEPT ![i] = "unlock"]
  /\ outcome' = [outcome EXCEPT ![i] = "failed"]
  /\ UNCHANGED <<todo, holder, faulted, troubles>>

UnlockOnSuccess(i) ==
  /\ setup[i] = "unlock"
  /\ holder' = IF outcome[i] = "ready" THEN Nobody ELSE holder
  /\ setup' = [setup EXCEPT ![i] = outcome[i]]
  /\ UNCHANGED <<todo, outcome, faulted, troubles>>

\* The finally block, after success and failure alike.
Unlock(i) ==
  /\ setup[i] = "unlock"
  /\ holder' = Nobody
  /\ setup' = [setup EXCEPT ![i] = outcome[i]]
  /\ UNCHANGED <<todo, outcome, faulted, troubles>>

-----------------------------------------------------------------------------
Fault(i) ==
  /\ troubles < MaxFaults
  /\ troubles' = troubles + 1
  /\ faulted' = faulted \cup {i}

Abandoned(i) == IF holder = i THEN Orphan ELSE holder

\* pool.connect() or the wait for the lock fails: the promise is rejected.
FailLock(i) ==
  /\ setup[i] \in {"connect", "lock"}
  /\ Fault(i)
  /\ setup' = [setup EXCEPT ![i] = "failed"]
  /\ UNCHANGED <<todo, outcome, holder>>

\* A statement fails: work() throws and finally comes next.
FailStatement(i) ==
  /\ setup[i] = "work"
  /\ Fault(i)
  /\ setup' = [setup EXCEPT ![i] = "unlock"]
  /\ outcome' = [outcome EXCEPT ![i] = "failed"]
  /\ UNCHANGED <<todo, holder>>

\* The unlock fails with its connection: that is ignored and the client released.
FailUnlock(i) ==
  /\ setup[i] = "unlock"
  /\ Fault(i)
  /\ holder' = Orphan
  /\ setup' = [setup EXCEPT ![i] = outcome[i]]
  /\ UNCHANGED <<todo, outcome>>

\* A process dies and starts again.
Crash(i) ==
  /\ setup[i] # "idle"
  /\ Fault(i)
  /\ holder' = Abandoned(i)
  /\ setup' = [setup EXCEPT ![i] = "idle"]
  /\ todo' = [todo EXCEPT ![i] = Statements]
  /\ outcome' = [outcome EXCEPT ![i] = "ready"]

\* The database notices that a client is gone.
EndSession ==
  /\ holder = Orphan
  /\ holder' = Nobody
  /\ UNCHANGED <<setup, todo, outcome, faulted, troubles>>

Proceed(i) ==
  Connect(i) \/ TakeLock(i) \/ Statement(i) \/ StarveStatement(i) \/ Unlock(i)

Disturb(i) == FailLock(i) \/ FailStatement(i) \/ FailUnlock(i) \/ Crash(i)

Next ==
  \/ \E i \in Instances : Begin(i) \/ Proceed(i) \/ Disturb(i)
  \/ EndSession

-----------------------------------------------------------------------------
\* A set-up that begins becomes ready, whatever happens to the set-ups of other
\* instances that have the lock before it, unless it meets a fault itself or
\* its pool has no client to spare for the statements.
SetUpSucceeds ==
  \A i \in Instances :
    setup[i] = "connect" ~>
      \/ setup[i] = "ready"
      \/ i \in faulted
      \/ PoolMax[i] = 1 /\ setup[i] = "failed"
=============================================================================
