------------------------- MODULE RequestAuth_proofs -------------------------
(***************************************************************************)
(* Proofs about RequestAuth, for every set of requests and every choice of *)
(* skew, nonce TTL and cache size.                                         *)
(***************************************************************************)
EXTENDS RequestAuth, FiniteSetTheorems, TLAPS

-----------------------------------------------------------------------------
(* The inductive invariant *)

\* The Map holds a key once.
UniqueKeys == \A x, y \in used : x.key = y.key => x = y

\* Rows were inserted before the next position.
PositionsBelow == \A row \in used : row.at < inserted

\* A scoped row is followed at once by its global row.
PairOrdered ==
  \A row \in used : ~ IsGlobal(row.key) =>
     \E g \in used : /\ g.key = GlobalOf(row.key)
                     /\ g.expiresAt = row.expiresAt
                     /\ g.at = row.at + 1

\* A served request is stale, or its global row outlives it, or was lost.
Covered ==
  TtlCoversWindow => \A r \in Requests : served[r] > 0 =>
     \/ GlobalKey(r) \in lost
     \/ now > r.ts + SkewMs
     \/ \E row \in used : row.key = GlobalKey(r) /\ row.expiresAt > r.ts + SkewMs

IInv ==
  /\ TypeOK
  /\ IsFiniteSet(used)
  /\ UniqueKeys
  /\ PositionsBelow
  /\ PairOrdered
  /\ Covered
  /\ ReplayNeedsLostNonce
  /\ StoredNonceWasServed

-----------------------------------------------------------------------------
(* Facts about the operators *)

\* The two keys of a request are distinct, and the global one is the scoped
\* one without its route.
LEMMA KeyFacts ==
  ASSUME NEW r \in Requests
  PROVE  /\ ScopeKey(r) \in Keys
         /\ GlobalKey(r) \in Keys
         /\ IsGlobal(GlobalKey(r))
         /\ ~ IsGlobal(ScopeKey(r))
         /\ GlobalOf(ScopeKey(r)) = GlobalKey(r)
         /\ ScopeKey(r) # GlobalKey(r)
<1>1. r.route # AnyRoute
  BY RequestsAssumption DEF RequestShape
<1>2. QED
  BY <1>1 DEF ScopeKey, GlobalKey, Keys, IsGlobal, GlobalOf

\* trim() only deletes.
LEMMA TrimDeletes ==
  ASSUME NEW rows
  PROVE  Trim(rows) \subseteq rows
BY DEF Trim

\* trim() deletes from the oldest row on: what is newer than a kept row is kept.
LEMMA TrimKeepsNewer ==
  ASSUME NEW rows \in SUBSET Row, IsFiniteSet(rows),
         NEW x \in Trim(rows), NEW y \in rows, y.at > x.at
  PROVE  y \in Trim(rows)
<1>1. CASE Cardinality(rows) <= CacheMax
  BY <1>1 DEF Trim
<1>2. CASE ~ (Cardinality(rows) <= CacheMax)
  <2>1. NewerThan(y, rows) \subseteq NewerThan(x, rows)
    BY TrimDeletes DEF NewerThan, Row
  <2>2. IsFiniteSet(NewerThan(x, rows))
    BY FS_Subset DEF NewerThan
  <2>3. /\ Cardinality(NewerThan(y, rows)) <= Cardinality(NewerThan(x, rows))
        /\ Cardinality(NewerThan(y, rows)) \in Nat
        /\ Cardinality(NewerThan(x, rows)) \in Nat
    BY <2>1, <2>2, FS_Subset, FS_CardinalityType
  <2>4. Cardinality(NewerThan(x, rows)) < TrimTarget
    BY <1>2 DEF Trim
  <2>5. TrimTarget \in Int
    BY OptionsAssumption DEF TrimTarget
  <2>6. Cardinality(NewerThan(y, rows)) < TrimTarget
    BY <2>3, <2>4, <2>5
  <2>7. QED
    BY <1>2, <2>6 DEF Trim
<1>3. QED
  BY <1>1, <1>2

\* Sweeping expired rows keeps what the invariant says of the store.
LEMMA SweepFacts ==
  ASSUME IInv
  PROVE  /\ Unexpired(used, now) \subseteq used
         /\ Unexpired(used, now) \in SUBSET Row
         /\ IsFiniteSet(Unexpired(used, now))
         /\ \A row \in Unexpired(used, now) : ~ IsGlobal(row.key) =>
               \E g \in Unexpired(used, now) :
                  /\ g.key = GlobalOf(row.key)
                  /\ g.expiresAt = row.expiresAt
                  /\ g.at = row.at + 1
<1>1. Unexpired(used, now) \subseteq used
  BY DEF Unexpired
<1>2. IsFiniteSet(Unexpired(used, now))
  BY <1>1, FS_Subset DEF IInv
<1>3. QED
  BY <1>1, <1>2 DEF IInv, TypeOK, PairOrdered, Unexpired

\* The store after both rows are inserted and before trim().
LEMMA FilledFacts ==
  ASSUME IInv, NEW r \in Requests, ~ NonceTaken(r, Unexpired(used, now)),
         NEW filled, filled = Unexpired(used, now) \cup Pair(r)
  PROVE  /\ filled \in SUBSET Row
         /\ IsFiniteSet(filled)
         /\ \A x, y \in filled : x.key = y.key => x = y
         /\ \A row \in filled : row.at < inserted + 2
         /\ \A row \in filled : ~ IsGlobal(row.key) =>
               \E g \in filled : /\ g.key = GlobalOf(row.key)
                                 /\ g.expiresAt = row.expiresAt
                                 /\ g.at = row.at + 1
<1>1. Pair(r) \in SUBSET Row /\ IsFiniteSet(Pair(r))
  <2>1. NonceExpiry(now) \in Nat /\ inserted \in Nat
    BY WindowAssumption, OptionsAssumption DEF IInv, TypeOK, NonceExpiry
  <2>2. /\ RowAt(ScopeKey(r), inserted) \in Row
        /\ RowAt(GlobalKey(r), inserted + 1) \in Row
    BY <2>1, KeyFacts DEF Row, RowAt
  <2>3. Pair(r) \in SUBSET Row
    BY <2>2 DEF Pair
  <2>4. IsFiniteSet({RowAt(ScopeKey(r), inserted)} \cup {RowAt(GlobalKey(r), inserted + 1)})
    BY FS_Singleton, FS_Union
  <2>5. Pair(r) = {RowAt(ScopeKey(r), inserted)} \cup {RowAt(GlobalKey(r), inserted + 1)}
    BY DEF Pair
  <2>6. QED
    BY <2>3, <2>4, <2>5
<1>2. filled \in SUBSET Row /\ IsFiniteSet(filled)
  BY <1>1, SweepFacts, FS_Union
<1>3. \A x, y \in filled : x.key = y.key => x = y
  <2>1. \A x, y \in Unexpired(used, now) : x.key = y.key => x = y
    BY SweepFacts DEF IInv, UniqueKeys
  <2>2. \A x, y \in Pair(r) : x.key = y.key => x = y
    BY KeyFacts DEF Pair, RowAt
  <2>3. \A x \in Unexpired(used, now), y \in Pair(r) : x.key # y.key
    BY DEF Pair, RowAt, NonceTaken
  <2>4. QED
    BY <2>1, <2>2, <2>3
<1>4. \A row \in filled : row.at < inserted + 2
  <2>1. \A row \in Unexpired(used, now) : row.at < inserted + 2
    BY SweepFacts DEF IInv, TypeOK, PositionsBelow, Row
  <2>2. \A row \in Pair(r) : row.at < inserted + 2
    BY DEF Pair, RowAt, IInv, TypeOK
  <2>3. QED
    BY <2>1, <2>2
<1>5. \A row \in filled : ~ IsGlobal(row.key) =>
               \E g \in filled : /\ g.key = GlobalOf(row.key)
                                 /\ g.expiresAt = row.expiresAt
                                 /\ g.at = row.at + 1
  <2>1. \A row \in Pair(r) : ~ IsGlobal(row.key) =>
               \E g \in Pair(r) : /\ g.key = GlobalOf(row.key)
                                  /\ g.expiresAt = row.expiresAt
                                  /\ g.at = row.at + 1
    BY KeyFacts DEF Pair, RowAt
  <2>2. QED
    BY <2>1, SweepFacts
<1>6. QED
  BY <1>2, <1>3, <1>4, <1>5

-----------------------------------------------------------------------------
(* The invariant is inductive *)

\* The invariant holds of what a process starts with.
LEMMA InitIInv == Init => IInv
<1>1. Init => TypeOK
  BY OptionsAssumption DEF Init, TypeOK
<1>2. Init => IsFiniteSet(used)
  BY FS_EmptySet DEF Init
<1>3. QED
  BY <1>1, <1>2 DEF Init, IInv, UniqueKeys, PositionsBelow, PairOrdered, Covered,
                    ReplayNeedsLostNonce, StoredNonceWasServed

\* Serving a request keeps the invariant: a global row either survives trim()
\* or is recorded as lost.
LEMMA AcceptKeepsIInv ==
  ASSUME IInv, NEW r \in Requests, AcceptRequest(r)
  PROVE  IInv'
<1> DEFINE live   == Unexpired(used, now)
           filled == live \cup Pair(r)
<1>1. /\ Verified(r, now) /\ ~ NonceTaken(r, live)
      /\ used' = Trim(filled)
      /\ inserted' = inserted + 2
      /\ served' = [served EXCEPT ![r] = ServedOnceMore(@)]
      /\ lost' = lost \cup (GlobalKeysOf(filled) \ GlobalKeysOf(Trim(filled)))
      /\ now' = now /\ restarts' = restarts
  BY DEF AcceptRequest
<1>2. /\ filled \in SUBSET Row
      /\ IsFiniteSet(filled)
      /\ \A x, y \in filled : x.key = y.key => x = y
      /\ \A row \in filled : row.at < inserted + 2
      /\ \A row \in filled : ~ IsGlobal(row.key) =>
            \E g \in filled : /\ g.key = GlobalOf(row.key)
                              /\ g.expiresAt = row.expiresAt
                              /\ g.at = row.at + 1
  BY <1>1, FilledFacts
<1> HIDE DEF filled
<1>3. used' \subseteq filled
  BY <1>1, TrimDeletes
<1>4. \A row \in filled : IsGlobal(row.key) => row \in used' \/ row.key \in lost'
  <2> SUFFICES ASSUME NEW row \in filled, IsGlobal(row.key), row.key \notin lost'
               PROVE  row \in used'
    OBVIOUS
  <2>1. row.key \in GlobalKeysOf(filled)
    BY DEF GlobalKeysOf
  <2>2. row.key \in GlobalKeysOf(Trim(filled))
    BY <1>1, <2>1
  <2>3. PICK x \in Trim(filled) : x.key = row.key
    BY <2>2 DEF GlobalKeysOf
  <2>4. x = row
    BY <1>1, <1>2, <1>3, <2>3
  <2>5. QED
    BY <1>1, <2>3, <2>4
<1>5. \A s \in Requests : served[s] \in 0..2 /\ served'[s] \in 0..2
  BY <1>1 DEF IInv, TypeOK, ServedOnceMore
<1>6. \A s \in Requests : s # r => served'[s] = served[s]
  BY <1>1 DEF IInv, TypeOK
<1>7. served'[r] > 0 /\ (served'[r] > 1 => served[r] > 0)
  BY <1>1, <1>5 DEF IInv, TypeOK, ServedOnceMore
<1>8. \A s \in Requests : served[s] > 0 => served'[s] > 0
  BY <1>6, <1>7
<1>9. TypeOK'
  <2>1. used' \subseteq Row
    BY <1>2, <1>3
  <2>2. served' \in [Requests -> 0..2]
    BY <1>1 DEF IInv, TypeOK, ServedOnceMore
  <2>3. lost' \subseteq Keys
    BY <1>1, <1>2 DEF IInv, TypeOK, GlobalKeysOf, Row
  <2>4. QED
    BY <1>1, <2>1, <2>2, <2>3 DEF IInv, TypeOK
<1>10. IsFiniteSet(used)'
  BY <1>2, <1>3, FS_Subset
<1>11. UniqueKeys'
  BY <1>2, <1>3 DEF UniqueKeys
<1>12. PositionsBelow'
  BY <1>1, <1>2, <1>3 DEF PositionsBelow
<1>13. PairOrdered'
  <2> SUFFICES ASSUME NEW row \in used', ~ IsGlobal(row.key)
               PROVE  \E g \in used' : /\ g.key = GlobalOf(row.key)
                                       /\ g.expiresAt = row.expiresAt
                                       /\ g.at = row.at + 1
    BY DEF PairOrdered
  <2>1. PICK g \in filled : /\ g.key = GlobalOf(row.key)
                            /\ g.expiresAt = row.expiresAt
                            /\ g.at = row.at + 1
    BY <1>2, <1>3
  <2>2. g.at > row.at
    BY <1>2, <1>3, <2>1 DEF Row
  <2>3. g \in used'
    BY <1>1, <1>2, <2>2, TrimKeepsNewer
  <2>4. QED
    BY <2>1, <2>3
<1>14. r.ts - SkewMs <= now /\ now <= r.ts + SkewMs /\ r.authentic
  BY <1>1, RequestsAssumption, WindowAssumption
     DEF Verified, Fresh, Distance, RequestShape, IInv, TypeOK
<1>15. Covered'
  <2> SUFFICES ASSUME TtlCoversWindow, NEW s \in Requests, served'[s] > 0
               PROVE  \/ GlobalKey(s) \in lost'
                      \/ now > s.ts + SkewMs
                      \/ \E row \in used' : /\ row.key = GlobalKey(s)
                                             /\ row.expiresAt > s.ts + SkewMs
    BY <1>1 DEF Covered, TtlCoversWindow
  <2>1. s.ts \in Int /\ SkewMs \in Nat /\ now \in Nat /\ NonceTtlMs \in Nat
    BY RequestsAssumption, WindowAssumption DEF RequestShape, IInv, TypeOK
  <2>2. CASE s = r
    <3> DEFINE g == RowAt(GlobalKey(r), inserted + 1)
    <3>1. g \in filled /\ g.key = GlobalKey(r) /\ IsGlobal(g.key)
      BY KeyFacts DEF filled, Pair, RowAt
    <3>2. g.expiresAt > r.ts + SkewMs
      BY <1>14, <2>1, <2>2 DEF RowAt, NonceExpiry, TtlCoversWindow
    <3>3. QED
      BY <1>4, <2>2, <3>1, <3>2
  <2>3. CASE s # r
    <3>1. served[s] > 0
      BY <1>6, <2>3
    <3>2. CASE GlobalKey(s) \in lost
      BY <1>1, <3>2
    <3>3. CASE now > s.ts + SkewMs
      BY <3>3
    <3>4. CASE \E row \in used : row.key = GlobalKey(s) /\ row.expiresAt > s.ts + SkewMs
      <4>1. PICK row \in used : row.key = GlobalKey(s) /\ row.expiresAt > s.ts + SkewMs
        BY <3>4
      <4>2. row.expiresAt \in Nat
        BY DEF IInv, TypeOK, Row
      <4>3. CASE row.expiresAt > now
        <5>1. row \in filled /\ IsGlobal(row.key)
          BY <4>1, <4>3, KeyFacts DEF filled, Unexpired
        <5>2. QED
          BY <1>4, <4>1, <5>1
      <4>4. CASE ~ (row.expiresAt > now)
        BY <2>1, <4>1, <4>2, <4>4
      <4>5. QED
        BY <4>3, <4>4
    <3>5. QED
      BY <3>1, <3>2, <3>3, <3>4 DEF IInv, Covered
  <2>4. QED
    BY <2>2, <2>3
<1>16. ReplayNeedsLostNonce'
  <2> SUFFICES ASSUME TtlCoversWindow, NEW s \in Requests, served'[s] > 1
               PROVE  GlobalKey(s) \in lost'
    BY DEF ReplayNeedsLostNonce, TtlCoversWindow
  <2>1. CASE s # r
    BY <1>1, <1>6, <2>1 DEF IInv, ReplayNeedsLostNonce
  <2>2. CASE s = r
    <3>1. served[r] > 0
      BY <1>7, <2>2
    <3>2. ~ (now > r.ts + SkewMs)
      BY <1>14, RequestsAssumption, WindowAssumption DEF RequestShape, IInv, TypeOK
    <3>3. ~ \E row \in used : row.key = GlobalKey(r) /\ row.expiresAt > r.ts + SkewMs
      <4> SUFFICES ASSUME NEW row \in used, row.key = GlobalKey(r),
                          row.expiresAt > r.ts + SkewMs
                   PROVE  FALSE
        OBVIOUS
      <4>1. row.expiresAt > now
        BY <1>14, RequestsAssumption, WindowAssumption
           DEF RequestShape, IInv, TypeOK, Row
      <4>2. QED
        BY <1>1, <4>1 DEF Unexpired, NonceTaken
    <3>4. QED
      BY <1>1, <2>2, <3>1, <3>2, <3>3 DEF IInv, Covered
  <2>3. QED
    BY <2>1, <2>2
<1>17. StoredNonceWasServed'
  <2> SUFFICES ASSUME NEW row \in used'
               PROVE  \E s \in Requests : /\ s.authentic /\ served'[s] > 0
                                          /\ row.key \in {ScopeKey(s), GlobalKey(s)}
    BY DEF StoredNonceWasServed
  <2>1. CASE row \in used
    <3>1. PICK s \in Requests : /\ s.authentic /\ served[s] > 0
                               /\ row.key \in {ScopeKey(s), GlobalKey(s)}
      BY <2>1 DEF IInv, StoredNonceWasServed
    <3>2. QED
      BY <1>8, <3>1
  <2>2. CASE row \in Pair(r)
    BY <1>7, <1>14, <2>2 DEF Pair, RowAt
  <2>3. QED
    BY <1>3, <2>1, <2>2 DEF filled, Unexpired
<1>18. QED
  BY <1>9, <1>10, <1>11, <1>12, <1>13, <1>15, <1>16, <1>17 DEF IInv

\* So does a sweep that rejects a replay.
LEMMA RejectKeepsIInv ==
  ASSUME IInv, NEW r \in Requests, RejectReplay(r)
  PROVE  IInv'
<1>1. /\ used' = Unexpired(used, now)
      /\ UNCHANGED <<now, inserted, served, lost, restarts>>
  BY DEF RejectReplay
<1>2. TypeOK' /\ IsFiniteSet(used)' /\ PairOrdered'
  BY <1>1, SweepFacts DEF IInv, TypeOK, PairOrdered
<1>3. UniqueKeys' /\ PositionsBelow' /\ StoredNonceWasServed'
  BY <1>1, SweepFacts DEF IInv, UniqueKeys, PositionsBelow, StoredNonceWasServed
<1>4. Covered'
  <2> SUFFICES ASSUME TtlCoversWindow, NEW s \in Requests, served[s] > 0,
                      GlobalKey(s) \notin lost, ~ (now > s.ts + SkewMs)
               PROVE  \E row \in used' : /\ row.key = GlobalKey(s)
                                         /\ row.expiresAt > s.ts + SkewMs
    BY <1>1 DEF Covered, TtlCoversWindow
  <2>1. PICK row \in used : row.key = GlobalKey(s) /\ row.expiresAt > s.ts + SkewMs
    BY DEF IInv, Covered
  <2>2. row.expiresAt > now
    BY <2>1, RequestsAssumption, WindowAssumption DEF RequestShape, IInv, TypeOK, Row
  <2>3. QED
    BY <1>1, <2>1, <2>2 DEF Unexpired
<1>5. ReplayNeedsLostNonce'
  BY <1>1 DEF IInv, ReplayNeedsLostNonce, TtlCoversWindow
<1>6. QED
  BY <1>2, <1>3, <1>4, <1>5 DEF IInv

\* The clock only makes requests stale.
LEMMA TickKeepsIInv ==
  ASSUME IInv, Tick
  PROVE  IInv'
<1>1. /\ now' = now + 1 /\ now < MaxTime
      /\ UNCHANGED <<used, inserted, served, lost, restarts>>
  BY DEF Tick
<1>2. TypeOK'
  BY <1>1, OptionsAssumption DEF IInv, TypeOK
<1>3. Covered'
  <2>1. \A s \in Requests : now > s.ts + SkewMs => now + 1 > s.ts + SkewMs
    BY RequestsAssumption, WindowAssumption DEF RequestShape, IInv, TypeOK
  <2>2. QED
    BY <1>1, <2>1 DEF IInv, Covered, TtlCoversWindow
<1>4. QED
  BY <1>1, <1>2, <1>3 DEF IInv, UniqueKeys, PositionsBelow, PairOrdered,
                          ReplayNeedsLostNonce, StoredNonceWasServed, TtlCoversWindow

\* A restart loses what was still live.
LEMMA RestartKeepsIInv ==
  ASSUME IInv, Restart
  PROVE  IInv'
<1>1. /\ used' = {} /\ restarts' = restarts + 1
      /\ lost' = lost \cup GlobalKeysOf(Unexpired(used, now))
      /\ UNCHANGED <<now, inserted, served>>
  BY DEF Restart
<1>2. TypeOK'
  BY <1>1 DEF IInv, TypeOK, GlobalKeysOf, Unexpired, Row
<1>3. Covered'
  <2> SUFFICES ASSUME TtlCoversWindow, NEW s \in Requests, served[s] > 0,
                      GlobalKey(s) \notin lost, ~ (now > s.ts + SkewMs)
               PROVE  GlobalKey(s) \in lost'
    BY <1>1 DEF Covered, TtlCoversWindow
  <2>1. PICK row \in used : row.key = GlobalKey(s) /\ row.expiresAt > s.ts + SkewMs
    BY DEF IInv, Covered
  <2>2. row.expiresAt > now
    BY <2>1, RequestsAssumption, WindowAssumption DEF RequestShape, IInv, TypeOK, Row
  <2>3. QED
    BY <1>1, <2>1, <2>2, KeyFacts DEF Unexpired, GlobalKeysOf
<1>4. ReplayNeedsLostNonce'
  BY <1>1 DEF IInv, ReplayNeedsLostNonce, TtlCoversWindow
<1>5. IsFiniteSet(used)'
  BY <1>1, FS_EmptySet
<1>6. QED
  BY <1>1, <1>2, <1>3, <1>4, <1>5
     DEF IInv, UniqueKeys, PositionsBelow, PairOrdered, StoredNonceWasServed

\* No step breaks the invariant: one case per action of Next.
LEMMA StepKeepsIInv == IInv /\ [Next]_vars => IInv'
<1> SUFFICES ASSUME IInv, [Next]_vars
             PROVE  IInv'
  OBVIOUS
<1>1. CASE UNCHANGED vars
  BY <1>1 DEF vars, IInv, TypeOK, UniqueKeys, PositionsBelow, PairOrdered, Covered,
              ReplayNeedsLostNonce, StoredNonceWasServed, TtlCoversWindow
<1>2. ASSUME NEW r \in Requests, AcceptRequest(r)
      PROVE  IInv'
  BY <1>2, AcceptKeepsIInv
<1>3. ASSUME NEW r \in Requests, RejectReplay(r)
      PROVE  IInv'
  BY <1>3, RejectKeepsIInv
<1>4. ASSUME NEW r \in Requests, RejectUnverified(r)
      PROVE  IInv'
  BY <1>1, <1>4 DEF RejectUnverified
<1>5. CASE Tick
  BY <1>5, TickKeepsIInv
<1>6. CASE Restart
  BY <1>6, RestartKeepsIInv
<1>7. QED
  BY <1>1, <1>2, <1>3, <1>4, <1>5, <1>6 DEF Next

-----------------------------------------------------------------------------
(* Theorems *)

\* The invariant holds in every reachable state.
THEOREM AlwaysIInv == Spec => []IInv
BY InitIInv, StepKeepsIInv, PTL DEF Spec

\* Every state is well typed: the store holds rows under store keys only.
THEOREM TypeCorrect == Spec => []TypeOK
<1>1. IInv => TypeOK
  BY DEF IInv
<1>2. QED
  BY <1>1, AlwaysIInv, PTL

\* With a nonce TTL longer than twice the skew, a request is let through a
\* second time only if trim() or a restart dropped its global row early.
THEOREM ReplayOnlyByLoss == Spec => []ReplayNeedsLostNonce
<1>1. IInv => ReplayNeedsLostNonce
  BY DEF IInv
<1>2. QED
  BY <1>1, AlwaysIInv, PTL

\* Whatever the cache size, even an odd one that cuts a pair, trim() leaves no
\* scoped row without its global row.
THEOREM PairsCutFromTheScope == Spec => []ScopeNeverOutlivesGlobal
<1>1. IInv => ScopeNeverOutlivesGlobal
  BY DEF IInv, PairOrdered, ScopeNeverOutlivesGlobal
<1>2. QED
  BY <1>1, AlwaysIInv, PTL

\* A request that failed its checks leaves no row behind.
THEOREM FailuresBurnNoNonce == Spec => []StoredNonceWasServed
<1>1. IInv => StoredNonceWasServed
  BY DEF IInv
<1>2. QED
  BY <1>1, AlwaysIInv, PTL

\* With room for a pair, the nonce just consumed outlives its own trim().
THEOREM NewestSurvives ==
  ASSUME CacheMax >= 2
  PROVE  Spec => ConsumedNonceSurvivesTrim
<1>1. ASSUME IInv, [Next]_vars, NEW r \in Requests,
             inserted' # inserted, served'[r] # served[r]
      PROVE  GlobalKey(r) \in GlobalKeysOf(used')
  <2>1. PICK q \in Requests : AcceptRequest(q)
    BY <1>1 DEF Next, vars, RejectReplay, RejectUnverified, Tick, Restart
  <2> DEFINE filled == Unexpired(used, now) \cup Pair(q)
             g      == RowAt(GlobalKey(q), inserted + 1)
  <2>2. /\ used' = Trim(filled) /\ ~ NonceTaken(q, Unexpired(used, now))
        /\ served' = [served EXCEPT ![q] = ServedOnceMore(@)]
    BY <2>1 DEF AcceptRequest
  <2>3. r = q
    BY <1>1, <2>2 DEF IInv, TypeOK
  <2>4. \A row \in filled : row.at < inserted + 2 /\ row.at \in Nat
    BY <1>1, <2>2, FilledFacts DEF Row
  <2>5. g \in filled /\ g.key = GlobalKey(q) /\ g.at = inserted + 1 /\ IsGlobal(g.key)
    BY KeyFacts DEF Pair, RowAt
  <2>6. NewerThan(g, filled) = {}
    BY <1>1, <2>4, <2>5 DEF NewerThan, IInv, TypeOK
  <2>7. Cardinality(NewerThan(g, filled)) < TrimTarget
    <3>1. TrimTarget >= 1
      BY OptionsAssumption DEF TrimTarget
    <3>2. TrimTarget \in Int
      BY OptionsAssumption DEF TrimTarget
    <3>3. Cardinality(NewerThan(g, filled)) = 0
      BY <2>6, FS_EmptySet
    <3>4. QED
      BY <3>1, <3>2, <3>3
  <2>8. g \in used'
    BY <2>2, <2>5, <2>7 DEF Trim
  <2>9. QED
    BY <2>3, <2>5, <2>8 DEF GlobalKeysOf
<1>2. IInv /\ [Next]_vars =>
        [\A r \in Requests : inserted' # inserted /\ served'[r] # served[r] =>
            GlobalKey(r) \in GlobalKeysOf(used')]_vars
  BY <1>1
<1>3. QED
  BY <1>2, AlwaysIInv, PTL DEF Spec, ConsumedNonceSurvivesTrim

\* The memory store implements ReplayProtection for as long as no live nonce
\* is dropped, if the nonce TTL exceeds twice the skew.
THEOREM KeepsPromiseWhileNothingLost ==
  ASSUME TtlCoversWindow
  PROVE  Spec => KeepsPromise
<1>1. Init => Promise!Init
  BY DEF Init, Promise!Init
<1>2. ASSUME IInv, lost = {}, [Next]_vars
      PROVE  Promise!Next \/ UNCHANGED Promise!vars
  <2>1. ASSUME NEW r \in Requests, AcceptRequest(r)
        PROVE  Promise!Serve(r)
    <3>1. /\ Verified(r, now) /\ ~ NonceTaken(r, Unexpired(used, now))
          /\ served' = [served EXCEPT ![r] = ServedOnceMore(@)] /\ now' = now
      BY <2>1 DEF AcceptRequest
    <3>2. /\ now \in Nat /\ SkewMs \in Nat /\ \A s \in Requests : s.ts \in Int
      BY <1>2, RequestsAssumption, WindowAssumption DEF RequestShape, IInv, TypeOK
    <3>3. r.authentic /\ Promise!InWindow(r)
      BY <3>1, <3>2 DEF Verified, Fresh, Distance, Promise!InWindow, Promise!Deadline
    <3>4. ~ Promise!NonceInUse(r)
      <4> SUFFICES ASSUME NEW s \in Requests, Promise!SameNonce(r, s), served[s] > 0,
                          now <= Promise!Deadline(s)
                   PROVE  FALSE
        BY DEF Promise!NonceInUse
      <4>1. now <= s.ts + SkewMs
        BY <3>2 DEF Promise!Deadline
      <4>2. PICK row \in used : row.key = GlobalKey(s) /\ row.expiresAt > s.ts + SkewMs
        BY <1>2, <3>2, <4>1 DEF IInv, Covered
      <4>3. row.expiresAt > now
        BY <1>2, <3>2, <4>1, <4>2 DEF IInv, TypeOK, Row
      <4>4. GlobalKey(s) = GlobalKey(r)
        BY DEF Promise!SameNonce, GlobalKey
      <4>5. QED
        BY <3>1, <4>2, <4>3, <4>4 DEF NonceTaken, Unexpired
    <3>5. served[r] = 0
      <4>1. served[r] \in 0..2
        BY <1>2 DEF IInv, TypeOK
      <4>2. ~ (served[r] > 0)
        BY <3>3, <3>4 DEF Promise!NonceInUse, Promise!InWindow, Promise!SameNonce
      <4>3. QED
        BY <4>1, <4>2
    <3>6. QED
      BY <3>1, <3>3, <3>4, <3>5 DEF Promise!Serve, ServedOnceMore
  <2>2. CASE Tick
    BY <1>2, <2>2 DEF Tick, Promise!Next, Promise!Elapse, IInv, TypeOK
  <2>3. QED
    BY <1>2, <2>1, <2>2
       DEF Next, vars, RejectReplay, RejectUnverified, Restart, Promise!Next, Promise!vars
<1>3. QED
  BY <1>1, <1>2, AlwaysIInv, PTL DEF Spec, KeepsPromise
=============================================================================
