------------------------ MODULE KeyLifecycle_proofs ------------------------
(***************************************************************************)
(* Proofs about KeyLifecycle, for every set of keys, labels and lifetimes. *)
(***************************************************************************)
EXTENDS KeyLifecycle, TLAPS

\* A key that expireAllKeys hit is inactive for as long as it is held.
SweptInactive == \A id \in swept : ~ keys[id].isActive

IInv ==
  /\ TypeOK
  /\ LabelSharedOnlyByRevival
  /\ SweptInactive

-----------------------------------------------------------------------------
\* The invariant holds of what a process starts with.
LEMMA InitIInv == Init => IInv
BY TimesAssumption, LabelsAssumption
   DEF Init, IInv, TypeOK, KeyRecord, NoRecord, LabelSharedOnlyByRevival, Current,
       SweptInactive

\* A step that makes no key current and keeps labels and the revived set leaves
\* the labels as exclusive as they were.
LEMMA FewerCurrentKeys ==
  ASSUME IInv, revived \subseteq revived',
         \A id \in KeyIds : Current(id)' =>
            Current(id) /\ keys'[id].label = keys[id].label
  PROVE  LabelSharedOnlyByRevival'
BY DEF IInv, LabelSharedOnlyByRevival

\* createKey checks its label against the current keys.
LEMMA CreateKeepsIInv ==
  ASSUME IInv, NEW id \in KeyIds, NEW label \in Labels \cup {NoLabel}, NEW ttl \in Ttls,
         CreateKey(id, label, ttl)
  PROVE  IInv'
<1> DEFINE record == [label |-> label, ttl |-> ttl, expiresAt |-> ExpiryOf(ttl),
                      isActive |-> TRUE, lastSeenAt |-> now]
<1>1. /\ id \notin issued /\ ~ LabelReserved(label)
      /\ issued' = issued \cup {id} /\ held' = held \cup {id}
      /\ keys' = [keys EXCEPT ![id] = record]
      /\ UNCHANGED <<now, extensions, revived, swept>>
  BY DEF CreateKey
<1>2. record \in KeyRecord
  BY TimesAssumption DEF KeyRecord, ExpiryOf, IInv, TypeOK
<1> HIDE DEF record
<1>3. keys' \in [KeyIds -> KeyRecord]
  BY <1>1, <1>2 DEF IInv, TypeOK
<1>4. TypeOK'
  BY <1>1, <1>3 DEF IInv, TypeOK
<1>5. keys'[id] = record /\ \A k \in KeyIds : k # id => keys'[k] = keys[k]
  BY <1>1 DEF IInv, TypeOK
<1>6. record.label = label
  BY DEF record
<1>7. \A k \in KeyIds : k # id /\ Current(k)' => Current(k)
  BY <1>1, <1>5 DEF Current
<1>8. LabelSharedOnlyByRevival'
  <2> SUFFICES ASSUME NEW i \in KeyIds, NEW j \in KeyIds, i # j,
                      Current(i)', Current(j)', keys'[i].label = keys'[j].label,
                      keys'[i].label # NoLabel
               PROVE  i \in revived' \/ j \in revived'
    BY DEF LabelSharedOnlyByRevival
  <2>1. CASE i # id /\ j # id
    BY <1>1, <1>5, <1>7, <2>1 DEF IInv, LabelSharedOnlyByRevival
  <2>2. CASE i = id
    <3>1. Current(j) /\ keys[j].label = label /\ label # NoLabel
      BY <1>5, <1>6, <1>7, <2>2
    <3>2. QED
      BY <1>1, <3>1 DEF LabelReserved, Current
  <2>3. CASE j = id
    <3>1. Current(i) /\ keys[i].label = label /\ label # NoLabel
      BY <1>5, <1>6, <1>7, <2>3
    <3>2. QED
      BY <1>1, <3>1 DEF LabelReserved, Current
  <2>4. QED
    BY <2>1, <2>2, <2>3
<1>9. SweptInactive'
  <2>1. id \notin swept
    BY <1>1 DEF IInv, TypeOK
  <2>2. QED
    BY <1>1, <1>5, <2>1 DEF IInv, TypeOK, SweptInactive
<1>10. QED
  BY <1>4, <1>8, <1>9 DEF IInv

\* extendKey notes a label that it revives beside its new holder.
LEMMA ExtendKeepsIInv ==
  ASSUME IInv, NEW id \in KeyIds, ExtendKey(id)
  PROVE  IInv'
<1> DEFINE later == keys[id].expiresAt + keys[id].ttl \div 2
<1>1. /\ id \in held /\ keys[id].isActive
      /\ keys' = [keys EXCEPT ![id] = [keys[id] EXCEPT !.expiresAt = later]]
      /\ revived' = revived \cup {k \in {id} : keys[id].expiresAt <= now}
      /\ extensions < MaxExtensions /\ extensions' = extensions + 1
      /\ UNCHANGED <<now, issued, held, swept>>
  BY DEF ExtendKey, IInv, TypeOK
<1>2. keys[id] \in KeyRecord /\ now \in Nat
  BY DEF IInv, TypeOK
<1>3. later \in Nat
  BY <1>2 DEF KeyRecord
<1> HIDE DEF later
<1>4. /\ keys'[id] = [keys[id] EXCEPT !.expiresAt = later]
      /\ \A k \in KeyIds : k # id => keys'[k] = keys[k]
  BY <1>1 DEF IInv, TypeOK
<1>5. /\ keys'[id] \in KeyRecord
      /\ keys'[id].label = keys[id].label
      /\ keys'[id].isActive = keys[id].isActive
  BY <1>2, <1>3, <1>4 DEF KeyRecord
<1>6. TypeOK'
  <2>1. keys' \in [KeyIds -> KeyRecord]
    BY <1>1, <1>4, <1>5 DEF IInv, TypeOK
  <2>2. QED
    BY <1>1, <2>1, TimesAssumption DEF IInv, TypeOK
<1>7. \A k \in KeyIds : Current(k)' => Current(k) \/ k \in revived'
  BY <1>1, <1>2, <1>4 DEF Current, KeyRecord
<1>8. LabelSharedOnlyByRevival'
  BY <1>1, <1>4, <1>5, <1>7 DEF IInv, LabelSharedOnlyByRevival
<1>9. SweptInactive'
  BY <1>1, <1>4, <1>5 DEF IInv, SweptInactive, TypeOK
<1>10. QED
  BY <1>6, <1>8, <1>9 DEF IInv

\* touchKey only changes when a key was seen.
LEMMA TouchKeepsIInv ==
  ASSUME IInv, NEW id \in KeyIds, TouchKey(id)
  PROVE  IInv'
<1>1. /\ keys' = [keys EXCEPT ![id] = [keys[id] EXCEPT !.lastSeenAt = now]]
      /\ UNCHANGED <<now, issued, held, extensions, revived, swept>>
  BY DEF TouchKey, IInv, TypeOK
<1>2. keys[id] \in KeyRecord /\ now \in Nat
  BY DEF IInv, TypeOK
<1>3. /\ keys'[id] = [keys[id] EXCEPT !.lastSeenAt = now]
      /\ \A k \in KeyIds : k # id => keys'[k] = keys[k]
  BY <1>1 DEF IInv, TypeOK
<1>4. /\ keys'[id] \in KeyRecord
      /\ keys'[id].label = keys[id].label
      /\ keys'[id].isActive = keys[id].isActive
      /\ keys'[id].expiresAt = keys[id].expiresAt
  BY <1>2, <1>3 DEF KeyRecord
<1>5. TypeOK'
  <2>1. keys' \in [KeyIds -> KeyRecord]
    BY <1>1, <1>3, <1>4 DEF IInv, TypeOK
  <2>2. QED
    BY <1>1, <2>1 DEF IInv, TypeOK
<1>6. LabelSharedOnlyByRevival'
  BY <1>1, <1>3, <1>4, FewerCurrentKeys DEF Current
<1>7. SweptInactive'
  BY <1>1, <1>3, <1>4 DEF IInv, SweptInactive, TypeOK
<1>8. QED
  BY <1>5, <1>6, <1>7 DEF IInv

\* Records that go leave the labels of the others as they are.
LEMMA DropKeepsIInv ==
  ASSUME IInv, NEW ids \in SUBSET KeyIds, Drop(ids)
  PROVE  IInv'
<1>1. /\ held' = held \ ids
      /\ keys' = [id \in KeyIds |-> IF id \in ids THEN NoRecord ELSE keys[id]]
      /\ UNCHANGED <<now, issued, extensions, revived, swept>>
  BY DEF Drop
<1>2. TypeOK'
  <2>1. NoRecord \in KeyRecord
    BY DEF NoRecord, KeyRecord
  <2>2. keys' \in [KeyIds -> KeyRecord]
    BY <1>1, <2>1 DEF IInv, TypeOK
  <2>3. QED
    BY <1>1, <2>2 DEF IInv, TypeOK
<1>3. LabelSharedOnlyByRevival'
  BY <1>1, FewerCurrentKeys DEF Current
<1>4. SweptInactive'
  BY <1>1 DEF IInv, SweptInactive, TypeOK, NoRecord
<1>5. QED
  BY <1>2, <1>3, <1>4 DEF IInv

\* expireAllKeys ends every key it finds, so none of them is current.
LEMMA ExpireAllKeepsIInv ==
  ASSUME IInv, ExpireAllKeys
  PROVE  IInv'
<1>1. /\ keys' = [id \in KeyIds |->
                    IF id \in held
                    THEN [keys[id] EXCEPT !.isActive = FALSE, !.expiresAt = now]
                    ELSE keys[id]]
      /\ swept' = swept \cup held
      /\ UNCHANGED <<now, issued, held, extensions, revived>>
  BY DEF ExpireAllKeys
<1>2. \A id \in KeyIds : keys[id] \in KeyRecord
  BY DEF IInv, TypeOK
<1>3. \A id \in KeyIds : keys'[id] \in KeyRecord
  <2> SUFFICES ASSUME NEW id \in KeyIds
               PROVE  keys'[id] \in KeyRecord
    OBVIOUS
  <2>1. now \in Nat
    BY DEF IInv, TypeOK
  <2>2. [keys[id] EXCEPT !.isActive = FALSE, !.expiresAt = now] \in KeyRecord
    BY <1>2, <2>1 DEF KeyRecord
  <2>3. QED
    BY <1>1, <1>2, <2>2
<1>4. TypeOK'
  <2>1. keys' \in [KeyIds -> KeyRecord]
    BY <1>1, <1>3
  <2>2. QED
    BY <1>1, <2>1 DEF IInv, TypeOK
<1>5. \A id \in KeyIds : id \in held => ~ keys'[id].isActive
  BY <1>1, <1>2 DEF KeyRecord
<1>6. LabelSharedOnlyByRevival'
  BY <1>1, <1>5 DEF LabelSharedOnlyByRevival, Current
<1>7. SweptInactive'
  BY <1>1, <1>2, <1>5 DEF IInv, SweptInactive, TypeOK
<1>8. QED
  BY <1>4, <1>6, <1>7 DEF IInv

\* Time only makes fewer keys current.
LEMMA TickKeepsIInv ==
  ASSUME IInv, Tick
  PROVE  IInv'
<1>1. now < MaxTime /\ now' = now + 1
      /\ UNCHANGED <<issued, keys, held, extensions, revived, swept>>
  BY DEF Tick
<1>2. now \in Nat /\ \A id \in KeyIds : keys[id].expiresAt \in Nat
  BY DEF IInv, TypeOK, KeyRecord
<1>3. TypeOK'
  BY <1>1, TimesAssumption DEF IInv, TypeOK
<1>4. LabelSharedOnlyByRevival'
  BY <1>1, <1>2, FewerCurrentKeys DEF Current
<1>5. QED
  BY <1>1, <1>3, <1>4 DEF IInv, SweptInactive

\* No step breaks the invariant: one case per action of Next.
LEMMA StepKeepsIInv == IInv /\ [Next]_vars => IInv'
<1> SUFFICES ASSUME IInv, [Next]_vars
             PROVE  IInv'
  OBVIOUS
<1>1. CASE UNCHANGED vars
  BY <1>1 DEF vars, IInv, TypeOK, LabelSharedOnlyByRevival, Current, SweptInactive
<1>2. ASSUME NEW id \in KeyIds, NEW label \in Labels \cup {NoLabel}, NEW ttl \in Ttls,
             CreateKey(id, label, ttl)
      PROVE  IInv'
  BY <1>2, CreateKeepsIInv
<1>3. ASSUME NEW id \in KeyIds, ExtendKey(id)
      PROVE  IInv'
  BY <1>3, ExtendKeepsIInv
<1>4. ASSUME NEW id \in KeyIds, TouchKey(id)
      PROVE  IInv'
  BY <1>4, TouchKeepsIInv
<1>5. ASSUME NEW id \in KeyIds, KillKey(id)
      PROVE  IInv'
  BY <1>5, DropKeepsIInv DEF KillKey
<1>6. held \subseteq KeyIds
  BY DEF IInv, TypeOK
<1>7. CASE CleanupInactiveKeys
  BY <1>6, <1>7, DropKeepsIInv DEF CleanupInactiveKeys, Idle
<1>8. CASE CleanupExpiredKeys
  BY <1>6, <1>8, DropKeepsIInv DEF CleanupExpiredKeys, Expired
<1>9. CASE ExpireAllKeys
  BY <1>9, ExpireAllKeepsIInv
<1>10. CASE Tick
  BY <1>10, TickKeepsIInv
<1>11. QED
  BY <1>1, <1>2, <1>3, <1>4, <1>5, <1>7, <1>8, <1>9, <1>10 DEF Next, Refuse

-----------------------------------------------------------------------------
(* Theorems *)

\* The invariant holds in every reachable state.
THEOREM AlwaysIInv == Spec => []IInv
BY InitIInv, StepKeepsIInv, PTL DEF Spec

\* Every state is well typed.
THEOREM KeysTypeCorrect == Spec => []TypeOK
<1>1. IInv => TypeOK
  BY DEF IInv
<1>2. QED
  BY <1>1, AlwaysIInv, PTL

\* Two current keys never share a label unless extendKey revived one of them,
\* however many keys, clean-ups and extensions there are.
THEOREM LabelsAreExclusive == Spec => []LabelSharedOnlyByRevival
<1>1. IInv => LabelSharedOnlyByRevival
  BY DEF IInv
<1>2. QED
  BY <1>1, AlwaysIInv, PTL

\* Nothing makes a key usable again that expireAllKeys has hit.
THEOREM ExpiryOfAllIsFinal == Spec => []ExpireAllIsFinal
<1>1. IInv => ExpireAllIsFinal
  BY DEF IInv, SweptInactive, ExpireAllIsFinal, Current
<1>2. QED
  BY <1>1, AlwaysIInv, PTL
=============================================================================
