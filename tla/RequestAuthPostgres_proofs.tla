--------------------- MODULE RequestAuthPostgres_proofs ---------------------
(***************************************************************************)
(* Proofs about RequestAuthPostgres, for every number of instances and     *)
(* slots, every set of requests and every choice of skew, nonce TTL, wait  *)
(* and sweep interval.                                                     *)
(***************************************************************************)
EXTENDS RequestAuthPostgres, TLAPS

-----------------------------------------------------------------------------
(* The inductive invariant *)

\* A handler that waits passed its checks, not longer ago than the wait allows.
WaitsAreShort ==
  \A w \in pending :
    /\ Verified(w.req, w.createdAt)
    /\ w.createdAt <= now
    /\ now <= w.createdAt + ConsumeDelayMax

\* The last instant at which a copy of r can still be let through.
Deadline(r) == r.ts + SkewMs + ConsumeDelayMax

\* A served request is past its deadline, or its global row outlives that.
CoveredBy(rows) ==
  TtlCoversWait => \A r \in Requests : served[r] > 0 =>
     \/ now > Deadline(r)
     \/ \E row \in rows : row.key = GlobalKey(r) /\ row.expiresAt > Deadline(r)

Covered == CoveredBy(table)

\* PairsStayWhole, of any set of rows.
Paired(rows) ==
  \A row \in rows :
    /\ \A other \in rows : other.key = row.key => other = row
    /\ IF IsGlobal(row.key)
       THEN \E s \in rows : /\ ~ IsGlobal(s.key)
                            /\ GlobalOf(s.key) = row.key
                            /\ s.expiresAt = row.expiresAt
       ELSE \E g \in rows : g.key = GlobalOf(row.key) /\ g.expiresAt = row.expiresAt

IInv ==
  /\ TypeOK
  /\ PairsStayWhole
  /\ WaitsAreShort
  /\ Covered

-----------------------------------------------------------------------------
(* Facts about the operators *)

\* The two keys of a request are distinct, and the global one is the scoped
\* one without its route.
LEMMA KeyFacts ==
  ASSUME NEW r \in Requests
  PROVE  /\ ScopeKey(r) \in Keys
         /\ GlobalKey(r) \in Keys
         /\ IsGlobal(GlobalKey(r))
         /\ ~ IsGlobal(ScopeKey(r))
         /\ GlobalOf(ScopeKey(r)) = GlobalKey(r)
         /\ ScopeKey(r) # GlobalKey(r)
<1>1. r.route # AnyRoute
  BY RequestsAssumption DEF RequestShape
<1>2. QED
  BY <1>1 DEF ScopeKey, GlobalKey, Keys, IsGlobal, GlobalOf

\* The arithmetic the proofs need: everything that is compared is a number.
LEMMA Numbers ==
  ASSUME TypeOK
  PROVE  /\ now \in Nat /\ SkewMs \in Nat /\ NonceTtlMs \in Nat /\ ConsumeDelayMax \in Nat
         /\ \A r \in Requests : r.ts \in Int /\ Deadline(r) \in Int
         /\ \A row \in table : row.expiresAt \in Nat
         /\ \A w \in pending : w.createdAt \in Nat /\ w.req \in Requests
                               /\ w.handler \in Handlers /\ InstanceOf(w) \in Instances
BY RequestsAssumption, WindowAssumption, DeploymentAssumption
   DEF TypeOK, RequestShape, Deadline, Row, Waiting, Handlers, InstanceOf

\* A sweep takes both rows of a pair or neither, since they expire together,
\* and a sweep whose time has come drops no row that still covers a request.
LEMMA SweepFacts ==
  ASSUME IInv, NEW t \in Nat, t <= now
  PROVE  /\ Unexpired(table, t) \subseteq table
         /\ Paired(Unexpired(table, t))
         /\ CoveredBy(Unexpired(table, t))
<1>1. Unexpired(table, t) \subseteq table
  BY DEF Unexpired
<1>2. \A row \in Unexpired(table, t) :
        \A other \in table : other.expiresAt = row.expiresAt => other \in Unexpired(table, t)
  BY DEF Unexpired
<1>3. Paired(Unexpired(table, t))
  BY <1>1, <1>2 DEF IInv, PairsStayWhole, Paired
<1>4. CoveredBy(Unexpired(table, t))
  <2> SUFFICES ASSUME TtlCoversWait, NEW r \in Requests, served[r] > 0, ~ (now > Deadline(r))
               PROVE  \E row \in Unexpired(table, t) :
                        row.key = GlobalKey(r) /\ row.expiresAt > Deadline(r)
    BY DEF CoveredBy
  <2>1. PICK row \in table : row.key = GlobalKey(r) /\ row.expiresAt > Deadline(r)
    BY DEF IInv, Covered, CoveredBy
  <2>2. row.expiresAt > t
    BY <2>1, Numbers DEF IInv
  <2>3. QED
    BY <2>1, <2>2 DEF Unexpired
<1>5. QED
  BY <1>1, <1>3, <1>4

\* So does the sweep that a waiting handler may start its transaction with.
LEMMA SweptFacts ==
  ASSUME IInv, NEW w \in pending
  PROVE  Swept(w) \subseteq table /\ Paired(Swept(w)) /\ CoveredBy(Swept(w))
<1>1. w.createdAt \in Nat /\ w.createdAt <= now
  BY Numbers DEF IInv, WaitsAreShort
<1>2. CASE sweepIn[InstanceOf(w)] = 0
  BY <1>1, <1>2, SweepFacts DEF Swept
<1>3. CASE sweepIn[InstanceOf(w)] # 0
  BY <1>3 DEF Swept, IInv, PairsStayWhole, Paired, Covered
<1>4. QED
  BY <1>2, <1>3

\* A transaction that inserts both rows adds a whole pair under free keys.
LEMMA InsertFacts ==
  ASSUME IInv, NEW w \in pending, BothRowsInserted(w)
  PROVE  /\ Swept(w) \cup FreeRows(w) \subseteq Row
         /\ Paired(Swept(w) \cup FreeRows(w))
         /\ CoveredBy(Swept(w) \cup FreeRows(w))
<1> DEFINE s == [key |-> ScopeKey(w.req), expiresAt |-> NonceExpiry(w.createdAt)]
           g == [key |-> GlobalKey(w.req), expiresAt |-> NonceExpiry(w.createdAt)]
<1>1. w.req \in Requests /\ NonceExpiry(w.createdAt) \in Nat
  BY Numbers DEF IInv, NonceExpiry
<1>2. FreeRows(w) = {s, g} /\ \A row \in {s, g}, old \in Swept(w) : old.key # row.key
  <2>1. InsertedRows(w) = {s, g}
    BY DEF InsertedRows
  <2>2. QED
    BY <2>1 DEF BothRowsInserted, FreeRows
<1>3. {s, g} \subseteq Row
  BY <1>1, KeyFacts DEF Row
<1>4. Paired({s, g})
  BY <1>1, KeyFacts DEF Paired
<1>5. Paired(Swept(w) \cup {s, g})
  BY <1>2, <1>4, SweptFacts DEF Paired
<1>6. CoveredBy(Swept(w) \cup {s, g})
  BY SweptFacts DEF CoveredBy
<1>7. QED
  BY <1>2, <1>3, <1>5, <1>6, SweptFacts DEF IInv, TypeOK

\* The row just inserted outlives the deadline of its request.
LEMMA InsertedRowCovers ==
  ASSUME IInv, NEW w \in pending, TtlCoversWait
  PROVE  NonceExpiry(w.createdAt) > Deadline(w.req)
<1>1. w.req.ts - SkewMs <= w.createdAt
  BY Numbers DEF IInv, WaitsAreShort, Verified, Fresh, Distance
<1>2. QED
  BY <1>1, Numbers DEF IInv, TtlCoversWait, NonceExpiry, Deadline

\* The sweep counter stays in its range.
LEMMA CountSweepType ==
  ASSUME TypeOK, NEW i \in Instances, CountSweep(i)
  PROVE  sweepIn' \in [Instances -> 0..(CleanupEvery - 1)]
BY DeploymentAssumption DEF TypeOK, CountSweep

-----------------------------------------------------------------------------
(* The invariant is inductive *)

\* The invariant holds of what a process starts with.
LEMMA InitIInv == Init => IInv
BY DeploymentAssumption
   DEF Init, IInv, TypeOK, PairsStayWhole, WaitsAreShort, Covered, CoveredBy

\* A request that passes its checks starts to wait.
LEMMA VerifyKeepsIInv ==
  ASSUME IInv, NEW h \in Handlers, NEW r \in Requests, VerifyRequest(h, r)
  PROVE  IInv'
<1> DEFINE new == [handler |-> h, req |-> r, createdAt |-> now]
<1>1. /\ pending' = pending \cup {new} /\ Verified(r, now)
      /\ \A w \in pending : w.handler # h
      /\ UNCHANGED <<now, table, ready, sweepIn, served, faults>>
  BY DEF VerifyRequest
<1>2. TypeOK'
  <2>1. new \in Waiting /\ new.handler = h
    BY Numbers DEF IInv, Waiting
  <2>2. \A v, w \in pending' : v.handler = w.handler => v = w
    BY <1>1, <2>1 DEF IInv, TypeOK
  <2>3. QED
    BY <1>1, <2>1, <2>2 DEF IInv, TypeOK
<1>3. WaitsAreShort'
  <2>1. now <= now + ConsumeDelayMax
    BY Numbers DEF IInv
  <2>2. QED
    BY <1>1, <2>1, Numbers DEF IInv, WaitsAreShort
<1>4. QED
  BY <1>1, <1>2, <1>3 DEF IInv, PairsStayWhole, Covered, CoveredBy

\* The set-up of the schema sweeps the table.
LEMMA SetUpKeepsIInv ==
  ASSUME IInv, NEW i \in Instances, SetUpSchema(i)
  PROVE  IInv'
<1>1. /\ ready' = [ready EXCEPT ![i] = "ok"] /\ table' = Unexpired(table, now)
      /\ UNCHANGED <<now, pending, sweepIn, served, faults>>
  BY DEF SetUpSchema
<1>2. table' \subseteq table /\ Paired(table') /\ CoveredBy(table')
  BY <1>1, SweepFacts, Numbers DEF IInv
<1>3. TypeOK'
  BY <1>1, <1>2 DEF IInv, TypeOK
<1>4. QED
  BY <1>1, <1>2, <1>3 DEF IInv, PairsStayWhole, Paired, WaitsAreShort, Covered, CoveredBy

\* Both rows went in and the request is let through.
LEMMA CommitKeepsIInv ==
  ASSUME IInv, NEW w \in pending, CommitConsume(w)
  PROVE  IInv'
<1>1. /\ BothRowsInserted(w) /\ table' = Swept(w) \cup FreeRows(w)
      /\ served' = [served EXCEPT ![w.req] = ServedOnceMore(@)]
      /\ CountSweep(InstanceOf(w)) /\ pending' = pending \ {w}
      /\ UNCHANGED <<now, ready, faults>>
  BY DEF CommitConsume
<1>2. table' \subseteq Row /\ Paired(table') /\ CoveredBy(table')
  BY <1>1, InsertFacts
<1>3. w.req \in Requests /\ InstanceOf(w) \in Instances
  BY Numbers DEF IInv
<1>4. TypeOK'
  <2>1. served' \in [Requests -> 0..2]
    BY <1>1, <1>3 DEF IInv, TypeOK, ServedOnceMore
  <2>2. sweepIn' \in [Instances -> 0..(CleanupEvery - 1)]
    BY <1>1, <1>3, CountSweepType DEF IInv
  <2>3. QED
    BY <1>1, <1>2, <2>1, <2>2 DEF IInv, TypeOK
<1>5. Covered'
  <2> SUFFICES ASSUME TtlCoversWait, NEW r \in Requests, served'[r] > 0, ~ (now > Deadline(r))
               PROVE  \E row \in table' : row.key = GlobalKey(r) /\ row.expiresAt > Deadline(r)
    BY <1>1 DEF Covered, CoveredBy, TtlCoversWait, Deadline
  <2>1. CASE r = w.req
    <3> DEFINE g == [key |-> GlobalKey(r), expiresAt |-> NonceExpiry(w.createdAt)]
    <3>1. g \in table'
      BY <1>1, <2>1 DEF BothRowsInserted, InsertedRows
    <3>2. g.expiresAt > Deadline(r)
      BY <2>1, InsertedRowCovers
    <3>3. QED
      BY <3>1, <3>2
  <2>2. CASE r # w.req
    <3>1. served[r] > 0
      BY <1>1, <2>2 DEF IInv, TypeOK
    <3>2. QED
      BY <1>2, <3>1 DEF CoveredBy
  <2>3. QED
    BY <2>1, <2>2
<1>6. QED
  BY <1>1, <1>2, <1>4, <1>5 DEF IInv, PairsStayWhole, Paired, WaitsAreShort

\* A conflict undoes the sweep as well: only the handler and the count change.
LEMMA RollBackKeepsIInv ==
  ASSUME IInv, NEW w \in pending, RollBackConsume(w)
  PROVE  IInv'
<1>1. /\ CountSweep(InstanceOf(w)) /\ pending' = pending \ {w}
      /\ UNCHANGED <<now, table, ready, served, faults>>
  BY DEF RollBackConsume
<1>2. sweepIn' \in [Instances -> 0..(CleanupEvery - 1)]
  BY <1>1, CountSweepType, Numbers DEF IInv
<1>3. TypeOK'
  BY <1>1, <1>2 DEF IInv, TypeOK
<1>4. QED
  BY <1>1, <1>3 DEF IInv, PairsStayWhole, WaitsAreShort, Covered, CoveredBy

\* A failed transaction changes nothing, or stored its pair after all.
LEMMA FailConsumeKeepsIInv ==
  ASSUME IInv, NEW w \in pending, FailConsume(w)
  PROVE  IInv'
<1>1. pending' = pending \ {w} /\ UNCHANGED <<now, ready, served>> /\ faults' \in Nat
  BY DEF FailConsume, Fault, IInv, TypeOK
<1>2. sweepIn' \in [Instances -> 0..(CleanupEvery - 1)]
  <2>1. InstanceOf(w) \in Instances
    BY Numbers DEF IInv
  <2>2. sweepIn' = sweepIn \/ CountSweep(InstanceOf(w))
    BY DEF FailConsume
  <2>3. QED
    BY <2>1, <2>2, CountSweepType DEF IInv, TypeOK
<1>3. table' \subseteq Row /\ Paired(table') /\ CoveredBy(table')
  <2>1. CASE UNCHANGED table
    BY <2>1 DEF IInv, TypeOK, PairsStayWhole, Paired, Covered
  <2>2. CASE BothRowsInserted(w) /\ table' = Swept(w) \cup FreeRows(w)
    BY <2>2, InsertFacts
  <2>3. QED
    BY <2>1, <2>2 DEF FailConsume
<1>4. TypeOK'
  BY <1>1, <1>2, <1>3 DEF IInv, TypeOK
<1>5. QED
  BY <1>1, <1>3, <1>4 DEF IInv, PairsStayWhole, Paired, WaitsAreShort, Covered, CoveredBy

\* The clock waits for the handlers.
LEMMA TickKeepsIInv ==
  ASSUME IInv, Tick
  PROVE  IInv'
<1>1. /\ now < MaxTime /\ now' = now + 1
      /\ \A w \in pending : now < w.createdAt + ConsumeDelayMax
      /\ UNCHANGED <<table, pending, ready, sweepIn, served, faults>>
  BY DEF Tick
<1>2. TypeOK'
  BY <1>1, DeploymentAssumption DEF IInv, TypeOK
<1>3. WaitsAreShort'
  BY <1>1, Numbers DEF IInv, WaitsAreShort
<1>4. Covered'
  <2>1. \A r \in Requests : now > Deadline(r) => now + 1 > Deadline(r)
    BY Numbers DEF IInv
  <2>2. QED
    BY <1>1, <2>1 DEF IInv, Covered, CoveredBy, Deadline, TtlCoversWait
<1>5. QED
  BY <1>1, <1>2, <1>3, <1>4 DEF IInv, PairsStayWhole

\* No step breaks the invariant: one case per action of Next.
LEMMA StepKeepsIInv == IInv /\ [Next]_vars => IInv'
<1> SUFFICES ASSUME IInv, [Next]_vars
             PROVE  IInv'
  OBVIOUS
<1>1. CASE UNCHANGED vars
  BY <1>1 DEF vars, IInv, TypeOK, PairsStayWhole, WaitsAreShort, Covered, CoveredBy,
              TtlCoversWait, Deadline
<1>2. ASSUME NEW h \in Handlers, NEW r \in Requests, VerifyRequest(h, r)
      PROVE  IInv'
  BY <1>2, VerifyKeepsIInv
<1>3. ASSUME NEW r \in Requests, RejectUnverified(r)
      PROVE  IInv'
  BY <1>1, <1>3 DEF RejectUnverified
<1>4. ASSUME NEW i \in Instances, SetUpSchema(i)
      PROVE  IInv'
  BY <1>4, SetUpKeepsIInv
<1>5. ASSUME NEW i \in Instances, FailSchema(i) \/ Restart(i)
      PROVE  IInv'
  <2>1. /\ faults' \in Nat /\ UNCHANGED <<now, table, served>>
        /\ pending' \subseteq pending
        /\ ready' \in [Instances -> {"none", "ok", "failed"}]
    BY <1>5 DEF FailSchema, Restart, Fault, IInv, TypeOK
  <2>2. sweepIn' \in [Instances -> 0..(CleanupEvery - 1)]
    BY <1>5, DeploymentAssumption DEF FailSchema, Restart, IInv, TypeOK
  <2>3. TypeOK'
    BY <2>1, <2>2 DEF IInv, TypeOK
  <2>4. QED
    BY <2>1, <2>3 DEF IInv, PairsStayWhole, WaitsAreShort, Covered, CoveredBy
<1>6. ASSUME NEW w \in pending, CommitConsume(w)
      PROVE  IInv'
  BY <1>6, CommitKeepsIInv
<1>7. ASSUME NEW w \in pending, RollBackConsume(w)
      PROVE  IInv'
  BY <1>7, RollBackKeepsIInv
<1>8. ASSUME NEW w \in pending, FailConsume(w)
      PROVE  IInv'
  BY <1>8, FailConsumeKeepsIInv
<1>9. CASE Tick
  BY <1>9, TickKeepsIInv
<1>10. QED
  BY <1>1, <1>2, <1>3, <1>4, <1>5, <1>6, <1>7, <1>8, <1>9 DEF Next

-----------------------------------------------------------------------------
(* Theorems *)

\* The invariant holds in every reachable state.
THEOREM AlwaysIInv == Spec => []IInv
BY InitIInv, StepKeepsIInv, PTL DEF Spec

\* Every state is well typed, and a handler serves one request at a time.
THEOREM TypeCorrect == Spec => []TypeOK
<1>1. IInv => TypeOK
  BY DEF IInv
<1>2. QED
  BY <1>1, AlwaysIInv, PTL

\* Whatever instances interleave, fail or restart, and whenever they sweep, the
\* table holds both rows of a nonce or neither, and one row per key.
THEOREM PairsAreAtomic == Spec => []PairsStayWhole
<1>1. IInv => PairsStayWhole
  BY DEF IInv
<1>2. QED
  BY <1>1, AlwaysIInv, PTL

\* The shared table implements ReplayProtection without exception, if the nonce
\* TTL exceeds twice the skew and the longest wait before the transaction.
THEOREM SharedTableKeepsPromise ==
  ASSUME TtlCoversWait
  PROVE  Spec => KeepsPromise
<1>1. Init => Promise!Init
  BY DEF Init, Promise!Init
<1>2. ASSUME IInv, [Next]_vars
      PROVE  [Promise!Next]_(Promise!vars)
  <2>1. ASSUME NEW w \in pending, CommitConsume(w)
        PROVE  Promise!Serve(w.req)
    <3>1. /\ BothRowsInserted(w) /\ now' = now
          /\ served' = [served EXCEPT ![w.req] = ServedOnceMore(@)]
      BY <2>1 DEF CommitConsume
    <3>2. Verified(w.req, w.createdAt) /\ w.createdAt <= now
          /\ now <= w.createdAt + ConsumeDelayMax
      BY <1>2 DEF IInv, WaitsAreShort
    <3>3. w.req.authentic /\ Promise!InWindow(w.req)
      BY <1>2, <3>2, Numbers
         DEF IInv, Verified, Fresh, Distance, Promise!InWindow, Promise!Deadline
    <3>4. ~ Promise!NonceInUse(w.req)
      <4> SUFFICES ASSUME NEW s \in Requests, Promise!SameNonce(w.req, s), served[s] > 0,
                          now <= Promise!Deadline(s)
                   PROVE  FALSE
        BY DEF Promise!NonceInUse
      <4>1. ~ (now > Deadline(s))
        BY <1>2, Numbers DEF IInv, Promise!Deadline, Deadline
      <4>2. PICK row \in Swept(w) : row.key = GlobalKey(s)
        BY <1>2, <4>1, SweptFacts DEF CoveredBy
      <4>3. GlobalKey(s) = GlobalKey(w.req)
        BY DEF Promise!SameNonce, GlobalKey
      <4>4. \E new \in InsertedRows(w) : new.key = row.key
        <5> DEFINE new == [key |-> GlobalKey(w.req), expiresAt |-> NonceExpiry(w.createdAt)]
        <5>1. new \in InsertedRows(w) /\ new.key = row.key
          BY <4>2, <4>3 DEF InsertedRows
        <5>2. QED
          BY <5>1
      <4>5. QED
        BY <3>1, <4>4 DEF BothRowsInserted, FreeRows
    <3>5. served[w.req] = 0
      <4>1. w.req \in Requests /\ served[w.req] \in 0..2
        BY <1>2, Numbers DEF IInv, TypeOK
      <4>2. ~ (served[w.req] > 0)
        BY <3>3, <3>4, <4>1 DEF Promise!NonceInUse, Promise!InWindow, Promise!SameNonce
      <4>3. QED
        BY <4>1, <4>2
    <3>6. QED
      BY <3>1, <3>3, <3>4, <3>5 DEF Promise!Serve, ServedOnceMore
  <2>2. CASE Tick
    BY <1>2, <2>2, Numbers DEF Tick, Promise!Next, Promise!Elapse, IInv
  <2>3. ASSUME NEW w \in pending
        PROVE  w.req \in Requests
    BY <1>2, Numbers DEF IInv
  <2>4. QED
    BY <1>2, <2>1, <2>2, <2>3
       DEF Next, vars, VerifyRequest, RejectUnverified, SetUpSchema, FailSchema, Restart,
           RollBackConsume, FailConsume, Promise!Next, Promise!vars
<1>3. QED
  BY <1>1, <1>2, AlwaysIInv, PTL DEF Spec, KeepsPromise, Promise!Spec
=============================================================================
