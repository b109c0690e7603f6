----------------------- MODULE SessionStorage_proofs -----------------------
(***************************************************************************)
(* Proofs about SessionStorage, for every set of sessions, key ids, public *)
(* keys and nodes.                                                         *)
(***************************************************************************)
EXTENDS SessionStorage, FiniteSetTheorems, TLAPS

-----------------------------------------------------------------------------
(* The inductive invariant *)

\* Every row goes with its session, and with each public key it names.
RowsAreLinked ==
  \A r \in rows : /\ r.store \in SessionStores
                  /\ r.about # {} => r.store \in LinkedStores

\* A grant belongs to a member, or to someone who may not come back.
GrantsAreGuarded ==
  \A r \in rows : r.store = "grant" =>
     \A p \in r.about : p \in Participants(r.sid) \/ HasRow("reentryBlock", r.sid, {p})

\* Who left a session is out of it and has its re-entry block.
LeftAreBlocked ==
  \A l \in left : /\ sessions[l[1]].status # "none"
                  /\ Exists(l[1]) => /\ l[2] \notin Participants(l[1])
                                     /\ HasRow("reentryBlock", l[1], {l[2]})

\* What is on its way to a session that is gone was overtaken by its deletion,
\* and a deleted session never comes back.
LateAreOvertaken ==
  /\ \A m \in Messages : underway[m] > 0 => Exists(m.sid) \/ m \in overtaken
  /\ \A m \in overtaken : sessions[m.sid].status = "deleted"

IInv ==
  /\ TypeOK
  /\ MembersHaveKeys
  /\ OnlyOvertakenRemain
  /\ LateAreOvertaken
  /\ RowsAreLinked
  /\ GrantsAreGuarded
  /\ LeftAreBlocked
  /\ LoadNeverOvercounts

-----------------------------------------------------------------------------
(* Facts about the operators *)

SessionsOn(n) == {s \in Sids : Exists(s) /\ n \in NodesOf[s]}

\* What the node counters are after the sessions of "gone" were deleted.
LEMMA LoweredFacts ==
  ASSUME IInv, NEW gone \in SUBSET Sids, \A s \in gone : Exists(s), NEW n \in Nodes
  PROVE  /\ Lowered(n, gone) \in Nat
         /\ Lowered(n, gone) <= Cardinality(SessionsOn(n) \ gone)
         /\ n \notin undercounted => Lowered(n, gone) = Cardinality(SessionsOn(n) \ gone)
<1> DEFINE here == {s \in gone : n \in NodesOf[s]}
<1>1. here = SessionsOn(n) \cap gone
  BY DEF SessionsOn
<1>2. IsFiniteSet(SessionsOn(n))
  BY SizesAssumption, FS_Subset DEF SessionsOn
<1>3. /\ Cardinality(SessionsOn(n)) \in Nat /\ Cardinality(here) \in Nat
      /\ Cardinality(SessionsOn(n) \ gone) = Cardinality(SessionsOn(n)) - Cardinality(here)
      /\ Cardinality(here) <= Cardinality(SessionsOn(n))
  <2>1. Cardinality(SessionsOn(n) \ gone)
          = Cardinality(SessionsOn(n)) - Cardinality(SessionsOn(n) \cap gone)
    BY <1>2, FS_Difference
  <2>2. IsFiniteSet(here) /\ Cardinality(here) <= Cardinality(SessionsOn(n))
    BY <1>1, <1>2, FS_Subset
  <2>3. QED
    BY <1>1, <1>2, <2>1, <2>2, FS_CardinalityType
<1>4. load[n] \in Nat /\ load[n] <= Cardinality(SessionsOn(n))
      /\ (n \notin undercounted => load[n] = Cardinality(SessionsOn(n)))
  BY DEF IInv, TypeOK, LoadNeverOvercounts, SessionsOn
<1>5. Lowered(n, gone) = IF load[n] > Cardinality(here) THEN load[n] - Cardinality(here) ELSE 0
  BY DEF Lowered
<1> HIDE DEF here
<1>6. QED
  BY <1>3, <1>4, <1>5

\* A step that keeps the set of existing sessions and the counters keeps the
\* relation between them.
LEMMA SameLoad ==
  ASSUME IInv, \A s \in Sids : (Exists(s)' <=> Exists(s)), UNCHANGED <<load, undercounted>>
  PROVE  LoadNeverOvercounts'
<1>1. \A n \in Nodes : {s \in Sids : Exists(s)' /\ n \in NodesOf[s]} = SessionsOn(n)
  BY DEF SessionsOn
<1>2. QED
  BY <1>1 DEF IInv, LoadNeverOvercounts, SessionsOn

\* Deleting existing sessions keeps that relation.
LEMMA DeletedLoad ==
  ASSUME IInv, NEW gone \in SUBSET Sids, \A s \in gone : Exists(s),
         \A s \in Sids : Exists(s)' <=> (Exists(s) /\ s \notin gone),
         load' = [n \in Nodes |-> Lowered(n, gone)], UNCHANGED undercounted
  PROVE  load' \in [Nodes -> Nat] /\ LoadNeverOvercounts'
<1>1. load' \in [Nodes -> Nat]
  BY LoweredFacts
<1>2. \A n \in Nodes : {s \in Sids : Exists(s)' /\ n \in NodesOf[s]} = SessionsOn(n) \ gone
  BY DEF SessionsOn
<1>3. QED
  BY <1>1, <1>2, LoweredFacts DEF LoadNeverOvercounts

\* What is on its way, after the sessions of "gone" were deleted and perhaps more
\* was sent to a session that exists.
LEMMA LateStayOvertaken ==
  ASSUME IInv, NEW gone \in SUBSET Sids, overtaken' = overtaken \cup Overtaken(gone),
         \A s \in Sids : /\ Exists(s) /\ s \notin gone => Exists(s)'
                         /\ sessions[s].status = "deleted" \/ s \in gone
                              => sessions'[s].status = "deleted",
         \A m \in Messages : underway'[m] > 0 => underway[m] > 0 \/ Exists(m.sid)'
  PROVE  /\ LateAreOvertaken'
         /\ overtaken' \subseteq Messages /\ overtaken \subseteq overtaken'
<1>1. Overtaken(gone) \subseteq Messages /\ \A m \in Overtaken(gone) : m.sid \in gone
  BY DEF Overtaken, Underway
<1>2. /\ overtaken' \subseteq Messages /\ overtaken \subseteq overtaken'
      /\ \A m \in Messages : m.sid \in Sids
  BY <1>1 DEF IInv, TypeOK, Messages
<1>3. \A m \in overtaken' : sessions'[m.sid].status = "deleted"
  BY <1>1, <1>2 DEF IInv, LateAreOvertaken
<1>4. ASSUME NEW m \in Messages, underway'[m] > 0
      PROVE  Exists(m.sid)' \/ m \in overtaken'
  BY <1>2, <1>4 DEF IInv, LateAreOvertaken, Overtaken, Underway
<1>5. QED
  BY <1>2, <1>3, <1>4 DEF LateAreOvertaken

\* A step that deletes no session keeps what was overtaken.
LEMMA SameOvertaken ==
  ASSUME IInv, UNCHANGED overtaken,
         \A s \in Sids : /\ Exists(s) => Exists(s)'
                         /\ sessions[s].status = "deleted"
                              => sessions'[s].status = "deleted",
         \A m \in Messages : underway'[m] > 0 => underway[m] > 0 \/ Exists(m.sid)'
  PROVE  LateAreOvertaken'
<1>1. overtaken' = overtaken \cup Overtaken({})
  BY DEF Overtaken
<1>2. QED
  BY <1>1, LateStayOvertaken

\* Sending a message puts no other on its way.
LEMMA SendFacts ==
  ASSUME IInv, NEW m \in Messages, Send(m)
  PROVE  /\ underway' \in [Messages -> Nat]
         /\ \A n \in Messages : underway'[n] > 0 => underway[n] > 0 \/ n = m
BY DEF Send, IInv, TypeOK

\* A notice is a message.
LEMMA NoticeFacts ==
  ASSUME NEW s \in Sids
  PROVE  Notice(s) \in Messages /\ Notice(s).sid = s
BY DEF Notice, Message, Messages

\* What a purge leaves of the sessions: those p created are deleted, p is out
\* of the others, and nothing else about who is in them changes.
LEMMA PurgedSessions ==
  ASSUME IInv, NEW p \in PublicKeys, NEW ids, NEW before, NEW after,
         PurgePublicKey(p, ids, before, after)
  PROVE  /\ sessions' \in [Sids -> Session]
         /\ \A s \in Sids :
              /\ Exists(s)' <=> (Exists(s) /\ s \notin CreatedBy(p))
              /\ Exists(s)' => sessions'[s].members = MembersWithout(s, p)
              /\ ~ Exists(s)' => sessions'[s].members = {}
              /\ sessions[s].status = "none" => sessions'[s].status = "none"
              /\ sessions[s].status # "none" => sessions'[s].status # "none"
              /\ sessions[s].status = "deleted" \/ s \in CreatedBy(p)
                   => sessions'[s].status = "deleted"
              /\ p \notin Participants(s)'
<1> DEFINE kept(s) == [members |-> MembersWithout(s, p),
                       status  |-> IF MembersWithout(s, p) = {} THEN "terminated"
                                   ELSE sessions[s].status]
<1>1. sessions' = [s \in Sids |-> IF s \in CreatedBy(p) THEN Deleted
                                  ELSE IF ~ Exists(s) THEN sessions[s] ELSE kept(s)]
  BY DEF PurgePublicKey
<1>2. ASSUME NEW s \in Sids
      PROVE  /\ sessions[s] \in Session /\ Deleted \in Session
             /\ Exists(s) => kept(s) \in Session /\ kept(s).status \in Listed
  BY <1>2 DEF IInv, TypeOK, Session, Deleted, MembersWithout, Exists, Listed, Ended
<1>3. \A s \in Sids : s \in CreatedBy(p) => Exists(s)
  BY DEF CreatedBy
<1>4. \A s \in Sids : ~ Exists(s) => sessions[s].members = {}
  BY DEF IInv, OnlyOvertakenRemain
<1>5. Deleted.status = "deleted" /\ Deleted.members = {} /\ Deleted.status \notin Listed
  BY DEF Deleted, Listed, Ended
<1>6. "none" \notin Listed /\ "deleted" \notin Listed
  BY DEF Listed, Ended
<1>7. QED
  BY <1>1, <1>2, <1>3, <1>4, <1>5, <1>6 DEF Exists, Participants, PksOf, MembersWithout

\* A purge keeps the invariant, if at most keys of p leave the key registry.
LEMMA PurgeKeepsIInv ==
  ASSUME IInv, NEW p \in PublicKeys, NEW ids, NEW before, NEW after,
         PurgePublicKey(p, ids, before, after),
         keys' \in [KeyIds -> {"unused", "active", "inactive", "gone"}],
         \A id \in KeyIds : Held(id) /\ PublicKeyOf[id] # p => Held(id)',
         UNCHANGED <<destroying, undercounted, underway>>
  PROVE  IInv'
<1> DEFINE created == CreatedBy(p)
<1>1. created \in SUBSET Sids /\ \A s \in created : Exists(s)
  BY DEF CreatedBy
<1>2. /\ load' = [n \in Nodes |-> Lowered(n, created)]
      /\ messages' \subseteq {m \in messages : m.sid \notin created}
      /\ rows' \subseteq {r \in RowsWithout(rows, created) : ~ LinkedRow(r, p)}
      /\ left' = {l \in left : l[2] # p}
      /\ overtaken' = overtaken \cup Overtaken(created)
  BY DEF PurgePublicKey, RowsWithout
<1>3. \A r \in rows : r.store # "trace" /\ r.sid \notin created /\ ~ LinkedRow(r, p) => r \in rows'
  BY DEF PurgePublicKey, RowsWithout, Row
<1> HIDE DEF created
<1>4. \A s \in Sids : Exists(s)' <=> (Exists(s) /\ s \notin created)
  BY PurgedSessions DEF created
<1>5. /\ LateAreOvertaken'
       /\ overtaken' \subseteq Messages /\ overtaken \subseteq overtaken'
  <2>1. \A s \in Sids : /\ Exists(s) /\ s \notin created => Exists(s)'
                        /\ sessions[s].status = "deleted" \/ s \in created
                             => sessions'[s].status = "deleted"
    BY <1>4, PurgedSessions DEF created
  <2>2. QED
    BY <1>1, <1>2, <2>1, LateStayOvertaken
<1>6. TypeOK'
  <2>1. load' \in [Nodes -> Nat]
    BY <1>1, <1>2, <1>4, DeletedLoad
  <2>2. \A s \in Sids : \A m, n \in sessions'[s].members : m.pk = n.pk => m = n
    BY PurgedSessions DEF MembersWithout, IInv, TypeOK
  <2>3. \A r \in rows' : r.sid \in Sids /\ r.about \subseteq PublicKeys
    BY <1>2 DEF RowsWithout, IInv, TypeOK
  <2>4. QED
    BY <1>2, <1>5, <2>1, <2>2, <2>3, PurgedSessions DEF IInv, TypeOK
<1>7. MembersHaveKeys'
  <2> SUFFICES ASSUME NEW s \in Sids, NEW m \in sessions'[s].members
               PROVE  Held(m.keyId)' /\ PublicKeyOf[m.keyId] = m.pk
    BY DEF MembersHaveKeys
  <2>1. m \in sessions[s].members /\ m.pk # p
    BY PurgedSessions DEF MembersWithout
  <2>2. m.keyId \in KeyIds /\ Held(m.keyId) /\ PublicKeyOf[m.keyId] = m.pk
    BY <2>1 DEF IInv, TypeOK, Session, Member, MembersHaveKeys
  <2>3. QED
    BY <2>1, <2>2
<1>8. OnlyOvertakenRemain'
  <2>1. \A m \in messages' : Exists(m.sid)' \/ m \in overtaken'
    BY <1>2, <1>4, <1>5 DEF IInv, TypeOK, OnlyOvertakenRemain, Messages
  <2>2. \A r \in rows' : r \in rows /\ r.sid \in Sids /\ r.sid \notin created
    BY <1>2 DEF IInv, TypeOK, RowsAreLinked, RowsWithout
  <2>3. \A r \in rows' : Exists(r.sid)' \/ \E m \in overtaken' : r = Row("trace", m.sid, {})
    BY <1>4, <1>5, <2>2 DEF IInv, OnlyOvertakenRemain
  <2>4. QED
    BY <2>1, <2>3, PurgedSessions DEF OnlyOvertakenRemain
<1>9. RowsAreLinked'
  BY <1>2 DEF IInv, RowsAreLinked, RowsWithout
<1>10. GrantsAreGuarded'
  <2> SUFFICES ASSUME NEW r \in rows', r.store = "grant", NEW q \in r.about,
                      q \notin Participants(r.sid)'
               PROVE  HasRow("reentryBlock", r.sid, {q})'
    BY DEF GrantsAreGuarded
  <2>1. r \in rows /\ r.sid \in Sids /\ r.sid \notin created /\ q # p
    BY <1>2 DEF IInv, TypeOK, RowsAreLinked, RowsWithout, LinkedRow
  <2>2. Exists(r.sid) /\ Exists(r.sid)'
    BY <1>4, <2>1 DEF IInv, OnlyOvertakenRemain, Row
  <2>3. q \notin Participants(r.sid)
    BY <2>1, <2>2, PurgedSessions DEF Participants, PksOf, MembersWithout
  <2>4. HasRow("reentryBlock", r.sid, {q})
    BY <2>1, <2>3 DEF IInv, GrantsAreGuarded
  <2>5. QED
    BY <1>3, <2>1, <2>4 DEF HasRow, Row, LinkedRow
<1>11. LeftAreBlocked'
  <2> SUFFICES ASSUME NEW l \in left'
               PROVE  /\ sessions'[l[1]].status # "none"
                      /\ Exists(l[1])' => /\ l[2] \notin Participants(l[1])'
                                          /\ HasRow("reentryBlock", l[1], {l[2]})'
    BY DEF LeftAreBlocked
  <2>1. l \in left /\ l[1] \in Sids /\ l[2] # p
    BY <1>2 DEF IInv, TypeOK
  <2>2. sessions'[l[1]].status # "none"
    BY <2>1, PurgedSessions DEF IInv, LeftAreBlocked
  <2>3. ASSUME Exists(l[1])'
        PROVE  l[2] \notin Participants(l[1])' /\ HasRow("reentryBlock", l[1], {l[2]})'
    <3>1. /\ Exists(l[1]) /\ l[1] \notin created /\ l[2] \notin Participants(l[1])
          /\ HasRow("reentryBlock", l[1], {l[2]})
      BY <1>4, <2>1, <2>3 DEF IInv, LeftAreBlocked
    <3>2. l[2] \notin Participants(l[1])'
      BY <2>1, <2>3, <3>1, PurgedSessions DEF Participants, PksOf, MembersWithout
    <3>3. HasRow("reentryBlock", l[1], {l[2]})'
      BY <1>3, <2>1, <3>1 DEF HasRow, Row, LinkedRow
    <3>4. QED
      BY <3>2, <3>3
  <2>4. QED
    BY <2>2, <2>3
<1>12. LoadNeverOvercounts'
  BY <1>1, <1>2, <1>4, DeletedLoad
<1>13. QED
  BY <1>6, <1>7, <1>8, <1>9, <1>10, <1>11, <1>12, <1>5 DEF IInv

\* Deleting one session, as the second half of destroySession does.
LEMMA FinishDestroyKeepsIInv ==
  ASSUME IInv, NEW s \in Sids, FinishDestroy(s)
  PROVE  IInv'
<1>1. destroying' = destroying \ {s} /\ UNCHANGED <<keys, events, left, undercounted, underway>>
  BY DEF FinishDestroy, history
<1>2. CASE UNCHANGED <<sessions, load, messages, rows, overtaken>>
  <2>1. TypeOK'
    BY <1>1, <1>2 DEF IInv, TypeOK
  <2>2. QED
    BY <1>1, <1>2, <2>1
       DEF IInv, MembersHaveKeys, Held, OnlyOvertakenRemain, Exists, RowsAreLinked,
           GrantsAreGuarded, LeftAreBlocked, Participants, HasRow, LoadNeverOvercounts,
           LateAreOvertaken
<1>3. CASE Exists(s) /\ DeleteSessions({s})
  <2>1. /\ sessions' = [t \in Sids |-> IF t \in {s} THEN Deleted ELSE sessions[t]]
        /\ load' = [n \in Nodes |-> Lowered(n, {s})]
        /\ messages' = {m \in messages : m.sid # s}
        /\ rows' = RowsWithout(rows, {s})
        /\ overtaken' = overtaken \cup Overtaken({s})
    BY <1>3 DEF DeleteSessions
  <2>2. rows' = {r \in rows : r.sid # s}
    BY <2>1 DEF RowsWithout, IInv, RowsAreLinked
  <2>3. /\ sessions'[s] = Deleted /\ ~ Exists(s)'
        /\ \A t \in Sids : t # s => sessions'[t] = sessions[t] /\ (Exists(t)' <=> Exists(t))
                                    /\ Participants(t)' = Participants(t)
    BY <2>1 DEF Exists, Deleted, Listed, Ended, Participants
  <2>4. load' \in [Nodes -> Nat] /\ LoadNeverOvercounts'
    <3>1. \A t \in Sids : Exists(t)' <=> (Exists(t) /\ t \notin {s})
      BY <2>3
    <3>2. {s} \in SUBSET Sids /\ \A t \in {s} : Exists(t)
      BY <1>3
    <3>3. QED
      BY <1>1, <2>1, <3>1, <3>2, DeletedLoad
  <2>5. /\ LateAreOvertaken'
         /\ overtaken' \subseteq Messages /\ overtaken \subseteq overtaken'
    <3>1. \A t \in Sids : /\ Exists(t) /\ t \notin {s} => Exists(t)'
                          /\ sessions[t].status = "deleted" \/ t \in {s}
                               => sessions'[t].status = "deleted"
      BY <2>3 DEF Deleted
    <3>2. QED
      BY <1>1, <2>1, <3>1, LateStayOvertaken
  <2>6. TypeOK'
    <3>1. Deleted \in Session /\ Deleted.members = {}
      BY DEF Deleted, Session
    <3>2. sessions' \in [Sids -> Session]
      BY <2>1, <3>1 DEF IInv, TypeOK
    <3>3. QED
      BY <1>1, <2>1, <2>2, <2>3, <2>4, <2>5, <3>1, <3>2 DEF IInv, TypeOK
  <2>7. MembersHaveKeys' /\ OnlyOvertakenRemain'
    <3>1. MembersHaveKeys'
      BY <1>1, <2>3 DEF IInv, MembersHaveKeys, Held, Deleted
    <3>2. \A t \in Sids : ~ Exists(t)' => sessions'[t].members = {}
      BY <2>3 DEF IInv, OnlyOvertakenRemain, Deleted
    <3>3. \A m \in messages' : Exists(m.sid)' \/ m \in overtaken'
      BY <2>1, <2>3, <2>5 DEF IInv, TypeOK, OnlyOvertakenRemain, Messages
    <3>4. \A r \in rows' : r \in rows /\ r.sid \in Sids \ {s}
      BY <2>2 DEF IInv, TypeOK
    <3>5. \A r \in rows' : Exists(r.sid)' \/ \E m \in overtaken' : r = Row("trace", m.sid, {})
      BY <2>3, <2>5, <3>4 DEF IInv, OnlyOvertakenRemain
    <3>6. QED
      BY <3>1, <3>2, <3>3, <3>5 DEF OnlyOvertakenRemain
  <2>8. RowsAreLinked' /\ GrantsAreGuarded'
    BY <2>2, <2>3 DEF IInv, TypeOK, RowsAreLinked, GrantsAreGuarded, HasRow, Row
  <2>9. LeftAreBlocked'
    <3>1. \A l \in left : l[1] \in Sids
      BY DEF IInv, TypeOK
    <3>2. Deleted.status # "none"
      BY DEF Deleted
    <3>3. QED
      BY <1>1, <2>2, <2>3, <3>1, <3>2 DEF IInv, LeftAreBlocked, HasRow, Row
  <2>10. QED
    BY <2>4, <2>6, <2>7, <2>8, <2>9, <2>5 DEF IInv
<1>4. QED
  BY <1>2, <1>3 DEF FinishDestroy

\* A step that keeps who is in which session, and only changes what a session
\* or a held key is called.
LEMMA SameMembersKeepIInv ==
  ASSUME IInv, sessions' \in [Sids -> Session],
         \A s \in Sids : /\ sessions'[s].members = sessions[s].members
                         /\ (Exists(s)' <=> Exists(s))
                         /\ (sessions'[s].status = "none" <=> sessions[s].status = "none")
                         /\ sessions[s].status = "deleted" => sessions'[s].status = "deleted",
         keys' \in [KeyIds -> {"unused", "active", "inactive", "gone"}],
         \A id \in KeyIds : Held(id) => Held(id)',
         destroying' \subseteq Sids, undercounted' \subseteq Nodes,
         load' \in [Nodes -> Nat], LoadNeverOvercounts',
         UNCHANGED <<messages, rows, left, underway, overtaken>>
  PROVE  IInv'
<1>1. \A s \in Sids : Participants(s)' = Participants(s)
  BY DEF Participants
<1>2. TypeOK'
  BY DEF IInv, TypeOK
<1>3. MembersHaveKeys'
  BY DEF IInv, TypeOK, Session, Member, MembersHaveKeys
<1>4. OnlyOvertakenRemain' /\ RowsAreLinked'
  BY DEF IInv, TypeOK, OnlyOvertakenRemain, RowsAreLinked, Messages
<1>5. GrantsAreGuarded'
  BY <1>1 DEF IInv, TypeOK, GrantsAreGuarded, HasRow
<1>6. LeftAreBlocked'
  <2>1. \A l \in left : l[1] \in Sids
    BY DEF IInv, TypeOK
  <2>2. QED
    BY <1>1, <2>1 DEF IInv, LeftAreBlocked, HasRow
<1>7. LateAreOvertaken'
  BY SameOvertaken
<1>8. QED
  BY <1>2, <1>3, <1>4, <1>5, <1>6, <1>7 DEF IInv

\* The steps that only move statuses and keys on.
LEMMA StatusStepKeepsIInv ==
  ASSUME IInv,
         \/ \E id \in KeyIds : CreateKey(id)
         \/ \E s \in Sids : StartDestroy(s)
         \/ \E s \in Sids, status \in {"expiring_soon", "expired"} : MarkSession(s, status)
         \/ DeactivateAllKeys
         \/ MarkAllTerminated
  PROVE  IInv'
<1>1. /\ UNCHANGED <<load, undercounted, messages, rows, left, underway, overtaken>>
      /\ destroying' \subseteq Sids
  BY DEF CreateKey, StartDestroy, MarkSession, DeactivateAllKeys, MarkAllTerminated,
         IInv, TypeOK, history, pending
<1>2. /\ keys' \in [KeyIds -> {"unused", "active", "inactive", "gone"}]
      /\ \A id \in KeyIds : Held(id) => Held(id)'
  BY DEF CreateKey, StartDestroy, MarkSession, DeactivateAllKeys, MarkAllTerminated,
         IInv, TypeOK, Held
<1>3. /\ sessions' \in [Sids -> Session]
      /\ \A s \in Sids : /\ sessions'[s].members = sessions[s].members
                         /\ (Exists(s)' <=> Exists(s))
                         /\ (sessions'[s].status = "none" <=> sessions[s].status = "none")
                         /\ sessions[s].status = "deleted" => sessions'[s].status = "deleted"
  <2>1. CASE UNCHANGED sessions
    BY <2>1 DEF IInv, TypeOK, Exists
  <2>2. CASE \E s \in Sids, status \in {"expiring_soon", "expired"} : MarkSession(s, status)
    BY <2>2 DEF MarkSession, IInv, TypeOK, Session, Exists, Listed, Ended
  <2>3. CASE MarkAllTerminated
    BY <2>3 DEF MarkAllTerminated, IInv, TypeOK, Session, Exists, Listed, Ended
  <2>4. QED
    BY <2>1, <2>2, <2>3 DEF CreateKey, StartDestroy, DeactivateAllKeys
<1>4. LoadNeverOvercounts'
  BY <1>1, <1>3, SameLoad
<1>5. QED
  BY <1>1, <1>2, <1>3, <1>4, SameMembersKeepIInv DEF IInv, TypeOK

\* A terminated session stays listed, but its nodes stop counting it.
LEMMA TerminateKeepsIInv ==
  ASSUME IInv, NEW s \in Sids, TerminateSession(s)
  PROVE  IInv'
<1>1. /\ Exists(s) /\ sessions' = [sessions EXCEPT ![s].status = "terminated"]
      /\ load' = [n \in Nodes |-> Lowered(n, {s})]
      /\ undercounted' = undercounted \cup NodesOf[s]
      /\ UNCHANGED <<keys, messages, rows, destroying, left, underway, overtaken>>
  BY DEF TerminateSession, pending
<1>2. /\ sessions' \in [Sids -> Session]
      /\ \A t \in Sids : /\ sessions'[t].members = sessions[t].members
                         /\ (Exists(t)' <=> Exists(t))
                         /\ (sessions'[t].status = "none" <=> sessions[t].status = "none")
                         /\ sessions[t].status = "deleted" => sessions'[t].status = "deleted"
  BY <1>1 DEF IInv, TypeOK, Session, Exists, Listed, Ended
<1>3. ASSUME NEW n \in Nodes
      PROVE  /\ Lowered(n, {s}) \in Nat /\ Lowered(n, {s}) <= Cardinality(SessionsOn(n))
             /\ n \notin undercounted' => Lowered(n, {s}) = Cardinality(SessionsOn(n))
  <2> DEFINE rest == SessionsOn(n) \ {s}
  <2>1. /\ Lowered(n, {s}) \in Nat /\ Lowered(n, {s}) <= Cardinality(rest)
        /\ n \notin undercounted => Lowered(n, {s}) = Cardinality(rest)
    <3>1. {s} \in SUBSET Sids /\ \A t \in {s} : Exists(t)
      BY <1>1
    <3>2. QED
      BY <3>1, LoweredFacts
  <2>2. IsFiniteSet(SessionsOn(n))
    BY SizesAssumption, FS_Subset DEF SessionsOn
  <2>3. /\ Cardinality(rest) <= Cardinality(SessionsOn(n))
        /\ Cardinality(rest) \in Nat /\ Cardinality(SessionsOn(n)) \in Nat
    <3>1. rest \subseteq SessionsOn(n)
      OBVIOUS
    <3>2. QED
      BY <2>2, <3>1, FS_Subset, FS_CardinalityType
  <2>4. n \notin undercounted' => rest = SessionsOn(n)
    BY <1>1 DEF SessionsOn
  <2> HIDE DEF rest
  <2>5. QED
    BY <1>1, <2>1, <2>3, <2>4
<1>4. load' \in [Nodes -> Nat] /\ LoadNeverOvercounts'
  <2>1. \A n \in Nodes : {t \in Sids : Exists(t)' /\ n \in NodesOf[t]} = SessionsOn(n)
    BY <1>2 DEF SessionsOn
  <2>2. QED
    BY <1>1, <1>3, <2>1 DEF LoadNeverOvercounts
<1>5. undercounted' \subseteq Nodes
  BY <1>1, NamesAssumption DEF IInv, TypeOK
<1>6. QED
  BY <1>1, <1>2, <1>4, <1>5, SameMembersKeepIInv DEF IInv, TypeOK, Held

\* A new session is counted on its nodes; nothing names it yet.
LEMMA CreateSessionKeepsIInv ==
  ASSUME IInv, NEW id \in KeyIds, NEW s \in Sids, CreateSession(id, s)
  PROVE  IInv'
<1> DEFINE member == [pk |-> PublicKeyOf[id], keyId |-> id, creator |-> TRUE]
           new    == [status |-> "active", members |-> {member}]
<1>1. /\ keys[id] = "active" /\ sessions[s].status = "none"
      /\ sessions' = [sessions EXCEPT ![s] = new]
      /\ load' = [n \in Nodes |-> load[n] + (IF n \in NodesOf[s] THEN 1 ELSE 0)]
      /\ Send(Notice(s))
      /\ UNCHANGED <<keys, messages, rows, destroying, left, undercounted, overtaken>>
  BY DEF CreateSession, MayCreate, history
<1>2. member \in Member /\ new \in Session
  BY NamesAssumption DEF Member, Session, Listed
<1>3. /\ ~ Exists(s) /\ Exists(s)' /\ sessions'[s] = new
      /\ \A t \in Sids : t # s => sessions'[t] = sessions[t]
  BY <1>1 DEF IInv, TypeOK, Exists, Listed, Ended
<1>4. \A t \in Sids : t # s => /\ (Exists(t)' <=> Exists(t))
                               /\ Participants(t)' = Participants(t)
  BY <1>3 DEF Exists, Participants
<1>5. load' \in [Nodes -> Nat] /\ LoadNeverOvercounts'
  <2>1. ASSUME NEW n \in Nodes
        PROVE  /\ load'[n] \in Nat
               /\ load'[n] <= Cardinality(SessionsOn(n)')
               /\ n \notin undercounted => load'[n] = Cardinality(SessionsOn(n)')
    <3>1. IsFiniteSet(SessionsOn(n)) /\ s \notin SessionsOn(n)
      BY <1>3, SizesAssumption, FS_Subset DEF SessionsOn
    <3>2. /\ Cardinality(SessionsOn(n)) \in Nat
          /\ Cardinality(SessionsOn(n) \cup {s}) = Cardinality(SessionsOn(n)) + 1
      BY <3>1, FS_CardinalityType, FS_AddElement
    <3>3. SessionsOn(n)' = IF n \in NodesOf[s] THEN SessionsOn(n) \cup {s} ELSE SessionsOn(n)
      BY <1>3, <1>4 DEF SessionsOn
    <3>4. /\ load[n] \in Nat /\ load[n] <= Cardinality(SessionsOn(n))
          /\ (n \notin undercounted => load[n] = Cardinality(SessionsOn(n)))
      BY DEF IInv, TypeOK, LoadNeverOvercounts, SessionsOn
    <3>5. load'[n] = load[n] + (IF n \in NodesOf[s] THEN 1 ELSE 0)
      BY <1>1
    <3>6. QED
      BY <3>2, <3>3, <3>4, <3>5
  <2>2. load' \in [Nodes -> Nat]
    BY <1>1, <2>1
  <2>3. QED
    BY <1>1, <2>1, <2>2 DEF LoadNeverOvercounts, SessionsOn
<1>6. TypeOK'
  <2>1. sessions' \in [Sids -> Session]
    BY <1>1, <1>2 DEF IInv, TypeOK
  <2>2. ASSUME NEW t \in Sids, NEW m \in sessions'[t].members, NEW n \in sessions'[t].members,
               m.pk = n.pk
        PROVE  m = n
    <3>1. CASE t = s
      <4>1. sessions'[t].members = {member}
        BY <1>3, <3>1
      <4> HIDE DEF member
      <4>2. QED
        BY <4>1
    <3>2. CASE t # s
      BY <1>3, <2>2, <3>2 DEF IInv, TypeOK
    <3>3. QED
      BY <3>1, <3>2
  <2>3. QED
    BY <1>1, <1>5, <2>1, <2>2, NoticeFacts, SendFacts DEF IInv, TypeOK
<1>7. MembersHaveKeys'
  BY <1>1, <1>3 DEF IInv, MembersHaveKeys, Held
<1>8. OnlyOvertakenRemain' /\ RowsAreLinked'
  BY <1>1, <1>3, <1>4 DEF IInv, TypeOK, OnlyOvertakenRemain, RowsAreLinked, Messages
<1>9. GrantsAreGuarded'
  <2>1. \A r \in rows : r.sid \in Sids /\ (r.store = "grant" => r.sid # s)
    BY <1>3 DEF IInv, TypeOK, OnlyOvertakenRemain, Row
  <2>2. QED
    BY <1>1, <1>4, <2>1 DEF IInv, GrantsAreGuarded, HasRow
<1>10. LeftAreBlocked'
  <2>1. \A l \in left : l[1] \in Sids /\ l[1] # s
    BY <1>1 DEF IInv, TypeOK, LeftAreBlocked
  <2>2. QED
    BY <1>1, <1>3, <1>4, <2>1 DEF IInv, LeftAreBlocked, HasRow
<1>11. LateAreOvertaken'
  <2>1. \A t \in Sids : /\ Exists(t) => Exists(t)'
                        /\ sessions[t].status = "deleted" => sessions'[t].status = "deleted"
    BY <1>1, <1>3, <1>4
  <2>2. QED
    BY <1>1, <1>3, <2>1, NoticeFacts, SendFacts, SameOvertaken
<1>12. QED
  BY <1>5, <1>6, <1>7, <1>8, <1>9, <1>10, <1>11 DEF IInv

\* Who joins is not in the session yet and has no re-entry block.
LEMMA JoinKeepsIInv ==
  ASSUME IInv, NEW id \in KeyIds, NEW s \in Sids, JoinSession(id, s)
  PROVE  IInv'
<1> DEFINE p == PublicKeyOf[id]
           member == [pk |-> p, keyId |-> id, creator |-> FALSE]
<1>1. /\ keys[id] = "active" /\ sessions[s].status \in {"active", "expiring_soon"}
      /\ ~ HasRow("reentryBlock", s, {p}) /\ p \notin Participants(s)
      /\ sessions' = [sessions EXCEPT ![s].members = @ \cup {member}]
      /\ Send(Notice(s))
      /\ UNCHANGED <<keys, load, messages, rows, destroying, left, undercounted, overtaken>>
  BY DEF JoinSession, history
<1>2. member \in Member
  BY NamesAssumption DEF Member
<1>3. /\ sessions'[s].members = sessions[s].members \cup {member}
      /\ \A t \in Sids : t # s => sessions'[t] = sessions[t]
      /\ \A t \in Sids : sessions'[t].status = sessions[t].status
  BY <1>1 DEF IInv, TypeOK, Session
<1>4. /\ \A t \in Sids : Exists(t)' <=> Exists(t)
      /\ \A t \in Sids : t # s => Participants(t)' = Participants(t)
      /\ Participants(s)' = Participants(s) \cup {p}
      /\ Exists(s)
  <2>1. Participants(s)' = Participants(s) \cup {member.pk}
    <3> HIDE DEF member
    <3>1. QED
      BY <1>3 DEF Participants, PksOf
  <2>2. QED
    BY <1>1, <1>3, <2>1 DEF Exists, Participants, Listed
<1>5. TypeOK'
  <2>1. sessions' \in [Sids -> Session]
    BY <1>1, <1>2 DEF IInv, TypeOK, Session
  <2>2. \A m \in sessions[s].members : m.pk # p
    BY <1>1 DEF Participants, PksOf
  <2>3. ASSUME NEW t \in Sids, NEW m \in sessions'[t].members, NEW n \in sessions'[t].members,
               m.pk = n.pk
        PROVE  m = n
    <3>1. member.pk = p
      OBVIOUS
    <3> HIDE DEF member
    <3>2. CASE t = s
      BY <1>3, <2>2, <2>3, <3>1, <3>2 DEF IInv, TypeOK
    <3>3. CASE t # s
      BY <1>3, <2>3, <3>3 DEF IInv, TypeOK
    <3>4. QED
      BY <3>2, <3>3
  <2>4. QED
    BY <1>1, <2>1, <2>3, NoticeFacts, SendFacts DEF IInv, TypeOK
<1>6. MembersHaveKeys'
  BY <1>1, <1>3 DEF IInv, MembersHaveKeys, Held
<1>7. OnlyOvertakenRemain' /\ RowsAreLinked'
  BY <1>1, <1>3, <1>4 DEF IInv, TypeOK, OnlyOvertakenRemain, RowsAreLinked, Messages
<1>8. GrantsAreGuarded'
  BY <1>1, <1>4 DEF IInv, TypeOK, GrantsAreGuarded, HasRow
<1>9. LeftAreBlocked'
  <2>1. \A l \in left : l[1] \in Sids /\ (l[1] = s => l[2] # p)
    BY <1>1, <1>4 DEF IInv, TypeOK, LeftAreBlocked
  <2>2. QED
    BY <1>1, <1>3, <1>4, <2>1 DEF IInv, LeftAreBlocked, HasRow
<1>10. LateAreOvertaken'
  BY <1>1, <1>3, <1>4, NoticeFacts, SendFacts, SameOvertaken
<1>11. QED
  BY <1>1, <1>4, <1>5, <1>6, <1>7, <1>8, <1>9, <1>10, SameLoad DEF IInv

\* Who leaves gets a re-entry block; grants of an earlier stay may remain.
LEMMA LeaveKeepsIInv ==
  ASSUME IInv, NEW s \in Sids, NEW p \in PublicKeys, LeaveSession(s, p)
  PROVE  IInv'
<1> DEFINE block == Row("reentryBlock", s, {p})
<1>1. /\ Exists(s)
      /\ sessions' = [sessions EXCEPT ![s].members = MembersWithout(s, p)]
      /\ rows' = (rows \ {Row("writeBlock", s, {p})}) \cup {block}
      /\ left' = left \cup {<<s, p>>}
      /\ UNCHANGED <<keys, load, messages, destroying, undercounted, underway, overtaken>>
  BY DEF LeaveSession, pending
<1>2. /\ sessions'[s].members = MembersWithout(s, p)
      /\ \A t \in Sids : t # s => sessions'[t] = sessions[t]
      /\ \A t \in Sids : sessions'[t].status = sessions[t].status
      /\ \A t \in Sids : sessions'[t].members \subseteq sessions[t].members
  BY <1>1 DEF IInv, TypeOK, Session, MembersWithout
<1>3. /\ \A t \in Sids : Exists(t)' <=> Exists(t)
      /\ \A t \in Sids : t # s => Participants(t)' = Participants(t)
      /\ Participants(s)' = Participants(s) \ {p}
  BY <1>2 DEF Exists, Participants, PksOf, MembersWithout
<1>4. /\ block.store = "reentryBlock" /\ block.sid = s /\ block.about = {p}
      /\ block \in rows'
      /\ \A t \in Sids, q \in PublicKeys :
           HasRow("reentryBlock", t, {q}) => HasRow("reentryBlock", t, {q})'
  BY <1>1 DEF Row, HasRow
<1> HIDE DEF block
<1>5. TypeOK'
  <2>1. sessions' \in [Sids -> Session]
    BY <1>1 DEF IInv, TypeOK, Session, MembersWithout
  <2>2. \A t \in Sids : \A m, n \in sessions'[t].members : m.pk = n.pk => m = n
    BY <1>2 DEF IInv, TypeOK
  <2>3. QED
    BY <1>1, <1>4, <2>1, <2>2 DEF IInv, TypeOK
<1>6. MembersHaveKeys'
  BY <1>1, <1>2 DEF IInv, MembersHaveKeys, Held
<1>7. OnlyOvertakenRemain' /\ RowsAreLinked'
  <2>1. block.store \in SessionStores \cap LinkedStores
    BY <1>4 DEF SessionStores, LinkedStores
  <2>2. QED
    BY <1>1, <1>2, <1>3, <1>4, <2>1
       DEF IInv, TypeOK, OnlyOvertakenRemain, RowsAreLinked, Messages
<1>8. GrantsAreGuarded'
  <2> SUFFICES ASSUME NEW r \in rows', r.store = "grant", NEW q \in r.about,
                      q \notin Participants(r.sid)'
               PROVE  HasRow("reentryBlock", r.sid, {q})'
    BY DEF GrantsAreGuarded
  <2>1. r \in rows /\ r.sid \in Sids /\ q \in PublicKeys
    BY <1>1, <1>4 DEF IInv, TypeOK
  <2>2. CASE q \notin Participants(r.sid)
    BY <1>4, <2>1, <2>2 DEF IInv, GrantsAreGuarded
  <2>3. CASE q \in Participants(r.sid)
    <3>1. r.sid = s /\ q = p
      BY <1>3, <2>1, <2>3
    <3>2. QED
      BY <1>4, <3>1 DEF HasRow, block
  <2>4. QED
    BY <2>2, <2>3
<1>9. LeftAreBlocked'
  <2> SUFFICES ASSUME NEW l \in left'
               PROVE  /\ sessions'[l[1]].status # "none"
                      /\ Exists(l[1])' => /\ l[2] \notin Participants(l[1])'
                                          /\ HasRow("reentryBlock", l[1], {l[2]})'
    BY DEF LeftAreBlocked
  <2>1. CASE l \in left
    <3>1. l[1] \in Sids /\ l[2] \in PublicKeys
      BY <2>1 DEF IInv, TypeOK
    <3>2. /\ sessions[l[1]].status # "none"
          /\ Exists(l[1]) => /\ l[2] \notin Participants(l[1])
                             /\ HasRow("reentryBlock", l[1], {l[2]})
      BY <2>1 DEF IInv, LeftAreBlocked
    <3>3. Participants(l[1])' \subseteq Participants(l[1])
      BY <1>3, <3>1
    <3>4. QED
      BY <1>2, <1>3, <1>4, <3>1, <3>2, <3>3
  <2>2. CASE l = <<s, p>>
    BY <1>1, <1>2, <1>3, <1>4, <2>2 DEF Exists, Listed, Ended, HasRow, block
  <2>3. QED
    BY <1>1, <2>1, <2>2
<1>10. LateAreOvertaken'
  BY <1>1, <1>2, <1>3, SameOvertaken
<1>11. QED
  BY <1>1, <1>3, <1>5, <1>6, <1>7, <1>8, <1>9, <1>10, SameLoad DEF IInv

\* Rows are only added to a session that exists, grants only to its members.
LEMMA AddRowKeepsIInv ==
  ASSUME IInv, NEW s \in Sids, Exists(s),
         NEW row \in PossibleRows(s), rows' = rows \cup {row},
         UNCHANGED <<keys, sessions, load, messages, destroying, history, pending>>
  PROVE  IInv'
<1>1. /\ row.sid = s /\ row.about \subseteq PublicKeys
      /\ row.store \in SessionStores
      /\ row.about # {} => row.store \in LinkedStores
      /\ row.store = "grant" => row.about \subseteq Participants(s)
  <2>1. Participants(s) \subseteq PublicKeys
    BY DEF Participants, PksOf, IInv, TypeOK, Session, Member
  <2>2. QED
    BY <2>1 DEF PossibleRows, TaskRow, Row, SessionStores, LinkedStores
<1>2. \A t \in Sids : (Exists(t)' <=> Exists(t)) /\ Participants(t)' = Participants(t)
  BY DEF Exists, Participants
<1>3. UNCHANGED <<left, undercounted, underway, overtaken>>
  BY DEF history, pending
<1>4. TypeOK'
  BY <1>1, <1>3 DEF IInv, TypeOK
<1>5. MembersHaveKeys' /\ LateAreOvertaken'
  BY <1>3 DEF IInv, MembersHaveKeys, Held, LateAreOvertaken, Exists
<1>6. OnlyOvertakenRemain' /\ RowsAreLinked'
  BY <1>1, <1>2, <1>3 DEF IInv, TypeOK, OnlyOvertakenRemain, RowsAreLinked, Messages
<1>7. GrantsAreGuarded'
  BY <1>1, <1>2 DEF IInv, TypeOK, GrantsAreGuarded, HasRow
<1>8. LeftAreBlocked'
  BY <1>2, <1>3 DEF IInv, TypeOK, LeftAreBlocked, HasRow
<1>9. QED
  BY <1>2, <1>3, <1>4, <1>5, <1>6, <1>7, <1>8, SameLoad DEF IInv

\* A message only sets out to a session that exists.
LEMMA SendMessageKeepsIInv ==
  ASSUME IInv, NEW s \in Sids, NEW p \in PublicKeys, NEW named \in BOOLEAN,
         SendMessage(s, p, named)
  PROVE  IInv'
<1> DEFINE m == Message(s, p, named)
<1>1. /\ Exists(s) /\ Send(m)
      /\ UNCHANGED <<keys, sessions, load, messages, rows, destroying, left, undercounted,
                     overtaken>>
  BY DEF SendMessage, CanUseMessages, history
<1>2. m \in Messages /\ m.sid = s
  BY DEF Message, Messages
<1> HIDE DEF m
<1>3. /\ underway' \in [Messages -> Nat]
      /\ \A n \in Messages : underway'[n] > 0 => underway[n] > 0 \/ n = m
  BY <1>1, <1>2, SendFacts
<1>4. \A t \in Sids : (Exists(t)' <=> Exists(t)) /\ Participants(t)' = Participants(t)
  BY <1>1 DEF Exists, Participants
<1>5. LateAreOvertaken'
  BY <1>1, <1>2, <1>3, <1>4, SameOvertaken
<1>6. TypeOK'
  BY <1>1, <1>3 DEF IInv, TypeOK
<1>7. LoadNeverOvercounts'
  BY <1>1, <1>4, SameLoad
<1>8. QED
  BY <1>1, <1>5, <1>6, <1>7
     DEF IInv, MembersHaveKeys, Held, OnlyOvertakenRemain, Exists, RowsAreLinked,
         GrantsAreGuarded, LeftAreBlocked, Participants, HasRow

\* A message that arrives was sent to a session that exists, or was overtaken.
LEMMA DeliverKeepsIInv ==
  ASSUME IInv, NEW m \in Messages, Deliver(m)
  PROVE  IInv'
<1> DEFINE trace == Row("trace", m.sid, {})
<1>1. /\ underway[m] > 0 /\ underway' = [underway EXCEPT ![m] = @ - 1]
      /\ messages' \subseteq messages \cup {m}
      /\ rows' = rows \cup {trace} \/ rows' = rows
      /\ UNCHANGED <<keys, sessions, load, destroying, left, undercounted, overtaken>>
  BY DEF Deliver, AddMessage, history
<1>2. /\ trace.store = "trace" /\ trace.sid = m.sid /\ trace.about = {}
      /\ m.sid \in Sids
  BY DEF Row, Messages
<1>3. \A t \in Sids : (Exists(t)' <=> Exists(t)) /\ Participants(t)' = Participants(t)
  BY <1>1 DEF Exists, Participants
<1>4. \A n \in Messages : underway'[n] \in Nat /\ (underway'[n] > 0 => underway[n] > 0)
  BY <1>1 DEF IInv, TypeOK
<1>5. LateAreOvertaken'
  BY <1>1, <1>3, <1>4, SameOvertaken
<1>6. Exists(m.sid) \/ m \in overtaken
  BY <1>1 DEF IInv, LateAreOvertaken
<1>7. TypeOK'
  <2>1. underway' \in [Messages -> Nat]
    BY <1>1, <1>4 DEF IInv, TypeOK
  <2>2. \A r \in rows' : r.sid \in Sids /\ r.about \subseteq PublicKeys
    BY <1>1, <1>2 DEF IInv, TypeOK
  <2>3. QED
    BY <1>1, <2>1, <2>2 DEF IInv, TypeOK
<1>8. OnlyOvertakenRemain'
  <2>1. \A n \in messages' : Exists(n.sid)' \/ n \in overtaken'
    BY <1>1, <1>2, <1>3, <1>6 DEF IInv, TypeOK, OnlyOvertakenRemain, Messages
  <2>2. \A r \in rows' : Exists(r.sid)' \/ \E n \in overtaken' : r = Row("trace", n.sid, {})
    BY <1>1, <1>2, <1>3, <1>6 DEF IInv, TypeOK, OnlyOvertakenRemain
  <2>3. QED
    BY <1>1, <1>3, <2>1, <2>2 DEF IInv, OnlyOvertakenRemain
<1>9. \A t, a : HasRow("reentryBlock", t, a) => HasRow("reentryBlock", t, a)'
  BY <1>1 DEF HasRow
<1> HIDE DEF trace
<1>10. RowsAreLinked' /\ GrantsAreGuarded'
  <2>1. RowsAreLinked'
    BY <1>1, <1>2 DEF IInv, RowsAreLinked, SessionStores
  <2>2. GrantsAreGuarded'
    BY <1>1, <1>2, <1>3, <1>9 DEF IInv, TypeOK, GrantsAreGuarded
  <2>3. QED
    BY <2>1, <2>2
<1>11. LeftAreBlocked'
  BY <1>1, <1>3, <1>9 DEF IInv, TypeOK, LeftAreBlocked
<1>12. MembersHaveKeys' /\ LoadNeverOvercounts'
  <2>1. MembersHaveKeys'
    BY <1>1 DEF IInv, MembersHaveKeys, Held
  <2>2. LoadNeverOvercounts'
    BY <1>1, <1>3, SameLoad
  <2>3. QED
    BY <2>1, <2>2
<1>13. QED
  BY <1>5, <1>7, <1>8, <1>10, <1>11, <1>12 DEF IInv

\* The four ways to purge a public key take only its own keys away.
LEMMA PurgeStepKeepsIInv ==
  ASSUME IInv,
         \/ \E id \in KeyIds : KillKey(id) \/ ExpireKey(id)
         \/ \E p \in PublicKeys : RemovePublicKey(p) \/ KillUserData(p)
  PROVE  IInv'
<1>1. ASSUME NEW id \in KeyIds, KillKey(id) \/ ExpireKey(id)
      PROVE  IInv'
  <2>1. PublicKeyOf[id] \in PublicKeys
    BY NamesAssumption
  <2>2. /\ keys' = [keys EXCEPT ![id] = "gone"]
        /\ UNCHANGED <<destroying, undercounted, underway>>
    BY <1>1 DEF KillKey, ExpireKey
  <2>3. /\ keys' \in [KeyIds -> {"unused", "active", "inactive", "gone"}]
        /\ \A k \in KeyIds : Held(k) /\ PublicKeyOf[k] # PublicKeyOf[id] => Held(k)'
    BY <2>2 DEF IInv, TypeOK, Held
  <2>4. \E before, after : PurgePublicKey(PublicKeyOf[id], {id}, before, after)
    BY <1>1 DEF KillKey, ExpireKey
  <2>5. QED
    BY <2>1, <2>2, <2>3, <2>4, PurgeKeepsIInv
<1>2. ASSUME NEW p \in PublicKeys, RemovePublicKey(p) \/ KillUserData(p)
      PROVE  IInv'
  <2>1. /\ UNCHANGED <<destroying, undercounted, underway>>
        /\ \/ keys' = keys
           \/ keys' = [id \in KeyIds |-> IF id \in IdsOf(p) THEN "gone" ELSE keys[id]]
    BY <1>2 DEF RemovePublicKey, KillUserData
  <2>2. /\ keys' \in [KeyIds -> {"unused", "active", "inactive", "gone"}]
        /\ \A k \in KeyIds : Held(k) /\ PublicKeyOf[k] # p => Held(k)'
    BY <2>1 DEF IInv, TypeOK, Held, IdsOf
  <2>3. \E after : PurgePublicKey(p, IdsOf(p), {}, after)
    BY <1>2 DEF RemovePublicKey, KillUserData
  <2>4. QED
    BY <2>1, <2>2, <2>3, PurgeKeepsIInv
<1>3. QED
  BY <1>1, <1>2

-----------------------------------------------------------------------------
(* The invariant is inductive *)

\* The invariant holds of what a process starts with.
LEMMA InitIInv == Init => IInv
<1> SUFFICES ASSUME Init
             PROVE  IInv
  OBVIOUS
<1>1. \A s \in Sids : ~ Exists(s) /\ sessions[s].members = {}
  BY DEF Init, Exists, Listed, Ended
<1>2. TypeOK
  BY <1>1 DEF Init, TypeOK, Session
<1>3. \A n \in Nodes : {s \in Sids : Exists(s) /\ n \in NodesOf[s]} = {}
  BY <1>1
<1>4. LoadNeverOvercounts
  <2>1. \A n \in Nodes : Cardinality({s \in Sids : Exists(s) /\ n \in NodesOf[s]}) = 0
    BY <1>3, FS_EmptySet
  <2>2. QED
    BY <2>1 DEF Init, LoadNeverOvercounts
<1>5. QED
  BY <1>1, <1>2, <1>4
     DEF Init, IInv, MembersHaveKeys, OnlyOvertakenRemain, RowsAreLinked,
         GrantsAreGuarded, LeftAreBlocked, LateAreOvertaken

\* No step breaks the invariant: one case per action of Next.
LEMMA StepKeepsIInv == IInv /\ [Next]_vars => IInv'
<1> SUFFICES ASSUME IInv, [Next]_vars
             PROVE  IInv'
  OBVIOUS
<1>1. CASE UNCHANGED vars
  BY <1>1 DEF vars, IInv, TypeOK, MembersHaveKeys, Held, OnlyOvertakenRemain, Exists,
              RowsAreLinked, GrantsAreGuarded, LeftAreBlocked, Participants, HasRow,
              LoadNeverOvercounts, LateAreOvertaken, history, pending
<1>2. ASSUME NEW id \in KeyIds, KeyStep(id)
      PROVE  IInv'
  BY <1>2, StatusStepKeepsIInv, PurgeStepKeepsIInv DEF KeyStep
<1>3. ASSUME NEW s \in Sids, SessionStep(s)
      PROVE  IInv'
  <2>1. ASSUME NEW id \in KeyIds, CreateSession(id, s) \/ JoinSession(id, s)
        PROVE  IInv'
    BY <2>1, CreateSessionKeepsIInv, JoinKeepsIInv
  <2>2. ASSUME NEW p \in PublicKeys, LeaveSession(s, p)
        PROVE  IInv'
    BY <2>2, LeaveKeepsIInv
  <2>3. ASSUME NEW p \in PublicKeys, NEW named \in BOOLEAN, SendMessage(s, p, named)
        PROVE  IInv'
    BY <2>3, SendMessageKeepsIInv
  <2>4. CASE TerminateSession(s)
    BY <2>4, TerminateKeepsIInv
  <2>5. CASE StartDestroy(s)
    BY <2>5, StatusStepKeepsIInv
  <2>6. CASE FinishDestroy(s)
    BY <2>6, FinishDestroyKeepsIInv
  <2>7. CASE NewRow(s)
    BY <2>7, AddRowKeepsIInv DEF NewRow
  <2>8. ASSUME NEW status \in {"expiring_soon", "expired"}, MarkSession(s, status)
        PROVE  IInv'
    BY <2>8, StatusStepKeepsIInv
  <2>9. QED
    BY <1>3, <2>1, <2>2, <2>3, <2>4, <2>5, <2>6, <2>7, <2>8 DEF SessionStep
<1>4. ASSUME NEW p \in PublicKeys, RemovePublicKey(p) \/ KillUserData(p)
      PROVE  IInv'
  BY <1>4, PurgeStepKeepsIInv
<1>5. CASE DeactivateAllKeys \/ MarkAllTerminated
  BY <1>5, StatusStepKeepsIInv
<1>6. ASSUME NEW m \in Messages, Deliver(m)
      PROVE  IInv'
  BY <1>6, DeliverKeepsIInv
<1>7. QED
  BY <1>1, <1>2, <1>3, <1>4, <1>5, <1>6 DEF Next

-----------------------------------------------------------------------------
(* Theorems *)

\* The invariant holds in every reachable state.
THEOREM AlwaysIInv == Spec => []IInv
BY InitIInv, StepKeepsIInv, PTL DEF Spec

\* Every state is well typed, and nobody is in a session twice.
THEOREM TypeCorrect == Spec => []TypeOK
<1>1. IInv => TypeOK
  BY DEF IInv
<1>2. QED
  BY <1>1, AlwaysIInv, PTL

\* However keys are killed, expired or purged, and whichever of the key ids of
\* a public key goes first, no member outlives the record it joined with.
THEOREM MembersKeepTheirKeys == Spec => []MembersHaveKeys
<1>1. IInv => MembersHaveKeys
  BY DEF IInv
<1>2. QED
  BY <1>1, AlwaysIInv, PTL

\* No deletion path leaves a member or a row of a session that is gone, and no
\* message but one that was on its way to addMessage when the session went: the
\* awaits of a start, a join and a push let it arrive after the deletion.
THEOREM OnlyLateMessagesOutlive == Spec => []OnlyOvertakenRemain
<1>1. IInv => OnlyOvertakenRemain
  BY DEF IInv
<1>2. QED
  BY <1>1, AlwaysIInv, PTL

\* Who left a session stays out of it until everything about them is purged.
THEOREM LeaversStayOut == Spec => []LeftStaysOut
<1>1. IInv => LeftStaysOut
  BY DEF IInv, LeftAreBlocked, LeftStaysOut
<1>2. QED
  BY <1>1, AlwaysIInv, PTL

\* For any number of nodes and sessions, a node's counter never exceeds its
\* sessions, and equals them until a terminateSession lowered it early.
THEOREM CountersFollowSessions == Spec => []LoadNeverOvercounts
<1>1. IInv => LoadNeverOvercounts
  BY DEF IInv
<1>2. QED
  BY <1>1, AlwaysIInv, PTL

\* What a purge leaves of the rows, messages and events that name p.
LEMMA PurgedData ==
  ASSUME IInv, NEW p \in PublicKeys, NEW ids, NEW before, NEW after,
         PurgePublicKey(p, ids, before, after)
  PROVE  /\ \A s \in Sids : p \notin Participants(s)'
         /\ \A r \in rows' : p \notin r.about
         /\ \A m \in messages' : m.author = p => ~ m.named /\ p \notin Participants(m.sid)
         /\ \A e \in events' : e \in after \/ (e.pk # p /\ e.keyId \notin ids)
<1>1. \A s \in Sids : p \notin Participants(s)'
  BY PurgedSessions
<1>2. \A r \in rows' : p \notin r.about
  <2>1. \A r \in rows' : r \in rows /\ ~ LinkedRow(r, p)
    BY DEF PurgePublicKey, RowsWithout
  <2>2. QED
    BY <2>1 DEF LinkedRow, IInv, RowsAreLinked
<1>3. \A m \in messages' : m.author = p => ~ m.named /\ p \notin Participants(m.sid)
  <2>1. \A m \in messages' : m \in messages /\ ~ LinkedMessage(m, p)
    BY DEF PurgePublicKey
  <2>2. QED
    BY <2>1 DEF LinkedMessage
<1>4. \A e \in events' : e \in after \/ (e.pk # p /\ e.keyId \notin ids)
  BY DEF PurgePublicKey, KeptEvent, Logged
<1>5. QED
  BY <1>1, <1>2, <1>3, <1>4

\* Whichever way a key record goes, everything linked to its public key goes in
\* the same step, but the notice of this kill.
THEOREM PurgeLeavesNothing == Spec => PurgeIsComplete
<1> DEFINE Purged(id) ==
      LET p == PublicKeyOf[id] IN
      /\ \A s \in Sids : p \notin Participants(s)'
      /\ \A r \in rows' : p \notin r.about
      /\ \A m \in messages' : m.author = p => ~ m.named /\ p \notin Participants(m.sid)
      /\ \A e \in events' : e.pk = p \/ e.keyId = id
           => e = Event("key.killed", NoSession, id, p)
<1>1. ASSUME IInv, [Next]_vars, NEW id \in KeyIds, Held(id), ~ Held(id)'
      PROVE  Purged(id)
  <2> DEFINE p == PublicKeyOf[id]
  <2>1. p \in PublicKeys
    BY NamesAssumption
  <2>2. \/ KillKey(id) \/ ExpireKey(id)
        \/ \E q \in PublicKeys : KillUserData(q) /\ id \in IdsOf(q)
    BY <1>1
       DEF Next, vars, KeyStep, SessionStep, CreateKey, CreateSession, JoinSession,
           LeaveSession, TerminateSession, StartDestroy, FinishDestroy, MarkSession,
           MarkAllTerminated, DeactivateAllKeys, RemovePublicKey, NewRow, SendMessage,
           Deliver, MayCreate, KillKey, ExpireKey, KillUserData, Held, IInv, TypeOK
  <2>3. CASE KillKey(id)
    <3>1. PurgePublicKey(p, {id}, {}, {Event("key.killed", NoSession, id, p)})
      BY <2>3 DEF KillKey
    <3>2. QED
      BY <1>1, <2>1, <3>1, PurgedData
  <2>4. CASE ExpireKey(id)
    <3>1. PurgePublicKey(p, {id}, ExpiryEvents(id), {})
      BY <2>4 DEF ExpireKey
    <3>2. QED
      BY <1>1, <2>1, <3>1, PurgedData
  <2>5. ASSUME NEW q \in PublicKeys, KillUserData(q), id \in IdsOf(q)
        PROVE  Purged(id)
    <3>1. /\ q = p
          /\ PurgePublicKey(p, IdsOf(p), {}, {KeyEvent("key.killed", NoKeyId)})
      BY <2>5 DEF KillUserData, IdsOf
    <3>2. LET notice == KeyEvent("key.killed", NoKeyId)
          IN  notice.pk # p /\ notice.keyId # id
      BY <2>1, NamesAssumption DEF KeyEvent, Event
    <3>3. id \in IdsOf(p)
      BY <2>5, <3>1
    <3>4. QED
      BY <1>1, <2>1, <3>1, <3>2, <3>3, PurgedData
  <2>6. QED
    BY <2>2, <2>3, <2>4, <2>5
<1>2. IInv /\ [Next]_vars => [\A id \in KeyIds : Held(id) /\ ~ Held(id)' => Purged(id)]_vars
  BY <1>1
<1>3. QED
  BY <1>2, AlwaysIInv, PTL DEF Spec, PurgeIsComplete

\* Nobody gets into an existing session but by joining it.
LEMMA OnlyJoinAdds ==
  ASSUME IInv, [Next]_vars, NEW s \in Sids, NEW p \in PublicKeys,
         Exists(s), p \notin Participants(s), p \in Participants(s)'
  PROVE  \E id \in KeyIds : JoinSession(id, s) /\ PublicKeyOf[id] = p
<1>1. ASSUME sessions'[s].members \subseteq sessions[s].members
      PROVE  FALSE
  BY <1>1 DEF Participants, PksOf
<1>2. ASSUME NEW q \in PublicKeys, NEW ids, NEW before, NEW after,
             PurgePublicKey(q, ids, before, after)
      PROVE  FALSE
  <2>1. sessions'[s].members \in {MembersWithout(s, q), {}}
    BY <1>2, PurgedSessions
  <2>2. QED
    BY <1>1, <2>1 DEF MembersWithout
<1>3. ASSUME NEW id \in KeyIds, KeyStep(id)
      PROVE  FALSE
  <2>1. CASE CreateKey(id)
    BY <1>1, <2>1 DEF CreateKey
  <2>2. CASE KillKey(id) \/ ExpireKey(id)
    BY <1>2, <2>2, NamesAssumption DEF KillKey, ExpireKey
  <2>3. QED
    BY <1>3, <2>1, <2>2 DEF KeyStep
<1>4. ASSUME NEW q \in PublicKeys, RemovePublicKey(q) \/ KillUserData(q)
      PROVE  FALSE
  <2>1. \/ PurgePublicKey(q, IdsOf(q), {}, {})
        \/ PurgePublicKey(q, IdsOf(q), {}, {KeyEvent("key.killed", NoKeyId)})
    BY <1>4 DEF RemovePublicKey, KillUserData
  <2>2. QED
    BY <1>2, <2>1
<1>5. ASSUME DeactivateAllKeys \/ MarkAllTerminated \/ UNCHANGED vars
      PROVE  FALSE
  <2>1. sessions'[s].members = sessions[s].members
    BY <1>5 DEF DeactivateAllKeys, MarkAllTerminated, vars, IInv, TypeOK, Session
  <2>2. QED
    BY <1>1, <2>1
<1>6. ASSUME NEW t \in Sids, SessionStep(t)
      PROVE  \E id \in KeyIds : JoinSession(id, s) /\ PublicKeyOf[id] = p
  <2>1. ASSUME NEW id \in KeyIds, CreateSession(id, t)
        PROVE  FALSE
    <3>1. t # s /\ sessions'[s] = sessions[s]
      BY <2>1 DEF CreateSession, Exists, Listed, Ended, IInv, TypeOK
    <3>2. QED
      BY <1>1, <3>1
  <2>2. ASSUME NEW id \in KeyIds, JoinSession(id, t)
        PROVE  t = s /\ PublicKeyOf[id] = p
    <3> DEFINE member == [pk |-> PublicKeyOf[id], keyId |-> id, creator |-> FALSE]
    <3>1. sessions' = [sessions EXCEPT ![t].members = @ \cup {member}]
      BY <2>2 DEF JoinSession
    <3>2. t = s
      <4>1. t # s => sessions'[s] = sessions[s]
        BY <3>1 DEF IInv, TypeOK
      <4>2. QED
        BY <1>1, <4>1
    <3>3. sessions'[s].members = sessions[s].members \cup {member}
      BY <3>1, <3>2 DEF IInv, TypeOK, Session
    <3>4. member.pk = PublicKeyOf[id]
      OBVIOUS
    <3> HIDE DEF member
    <3>5. PublicKeyOf[id] = p
      BY <3>3, <3>4 DEF Participants, PksOf
    <3>6. QED
      BY <3>2, <3>5
  <2>3. ASSUME NEW q \in PublicKeys, LeaveSession(t, q)
        PROVE  FALSE
    <3>1. sessions'[s].members \subseteq sessions[s].members
      BY <2>3 DEF LeaveSession, MembersWithout, IInv, TypeOK, Session
    <3>2. QED
      BY <1>1, <3>1
  <2>4. ASSUME \/ TerminateSession(t) \/ StartDestroy(t) \/ NewRow(t)
               \/ \E q \in PublicKeys, named \in BOOLEAN : SendMessage(t, q, named)
               \/ \E status \in {"expiring_soon", "expired"} : MarkSession(t, status)
        PROVE  FALSE
    <3>1. \/ UNCHANGED sessions
          \/ \E status : sessions' = [sessions EXCEPT ![t].status = status]
      BY <2>4 DEF TerminateSession, StartDestroy, NewRow, SendMessage, MarkSession
    <3>2. sessions'[s].members = sessions[s].members
      BY <3>1 DEF IInv, TypeOK, Session
    <3>3. QED
      BY <1>1, <3>2
  <2>5. ASSUME FinishDestroy(t)
        PROVE  FALSE
    <3>1. sessions'[s].members \subseteq sessions[s].members
      BY <2>5 DEF FinishDestroy, DeleteSessions, Deleted, IInv, TypeOK
    <3>2. QED
      BY <1>1, <3>1
  <2>6. QED
    BY <1>6, <2>1, <2>2, <2>3, <2>4, <2>5 DEF SessionStep
<1>7. ASSUME NEW m \in Messages, Deliver(m)
      PROVE  FALSE
  BY <1>1, <1>7 DEF Deliver
<1>8. QED
  BY <1>3, <1>4, <1>5, <1>6, <1>7 DEF Next

\* A member that has just joined cannot use the session's messages, whatever
\* grants were given, left behind and purged before.
THEOREM JoiningIsNotAccess == Spec => JoinGrantsNoAccess
<1>1. ASSUME IInv, [Next]_vars, NEW s \in Sids, NEW p \in PublicKeys,
             Exists(s), p \notin Participants(s), p \in Participants(s)'
      PROVE  ~ CanUseMessages(s, p)'
  <2>1. PICK id \in KeyIds : JoinSession(id, s) /\ PublicKeyOf[id] = p
    BY <1>1, OnlyJoinAdds
  <2>2. /\ p \notin Participants(s) /\ ~ HasRow("reentryBlock", s, {p})
        /\ sessions' = [sessions EXCEPT ![s].members =
             @ \cup {[pk |-> p, keyId |-> id, creator |-> FALSE]}]
        /\ rows' = rows
    BY <2>1 DEF JoinSession
  <2>3. sessions'[s].members =
          sessions[s].members \cup {[pk |-> p, keyId |-> id, creator |-> FALSE]}
    BY <1>1, <2>2 DEF IInv, TypeOK, Session
  <2>4. ~ IsCreator(s, p)'
    <3>1. \A m \in sessions[s].members : m.pk # p
      BY <2>2 DEF Participants, PksOf
    <3>2. QED
      BY <2>3, <3>1 DEF IsCreator
  <2>5. ~ HasRow("grant", s, {p})'
    <3>1. SUFFICES ASSUME Row("grant", s, {p}) \in rows
                   PROVE  FALSE
      BY <2>2 DEF HasRow
    <3>2. p \in Participants(s) \/ HasRow("reentryBlock", s, {p})
      BY <1>1, <3>1 DEF IInv, GrantsAreGuarded, Row
    <3>3. QED
      BY <2>2, <3>2
  <2>6. QED
    BY <2>4, <2>5 DEF CanUseMessages
<1>2. IInv /\ [Next]_vars =>
        [\A s \in Sids, p \in PublicKeys :
           Exists(s) /\ p \notin Participants(s) /\ p \in Participants(s)'
             => ~ CanUseMessages(s, p)']_vars
  BY <1>1
<1>3. QED
  BY <1>2, AlwaysIInv, PTL DEF Spec, JoinGrantsNoAccess

\* No step brings a session back: not a purge that finds it expired, not a
\* timer that marks it, not a deletion that was awaited.
THEOREM StatusNeverGoesBack == Spec => StatusOnlyAdvances
<1> DEFINE NotBack(s) == StatusRank(sessions[s].status) <= StatusRank(sessions'[s].status)
<1>1. /\ StatusRank("none") = 0 /\ StatusRank("active") = 1
      /\ StatusRank("expiring_soon") = 2 /\ StatusRank("expired") = 3
      /\ StatusRank("terminated") = 3 /\ StatusRank("deleted") = 4
  BY DEF StatusRank, Ended
<1>2. ASSUME IInv, [Next]_vars, NEW s \in Sids
      PROVE  NotBack(s)
  <2>1. /\ sessions[s].status \in Listed \cup {"none", "deleted"}
        /\ sessions'[s].status \in Listed \cup {"none", "deleted"}
    BY <1>2, StepKeepsIInv DEF IInv, TypeOK, Session
  <2>2. CASE sessions'[s].status = sessions[s].status
    BY <1>1, <2>1, <2>2 DEF NotBack, Listed, Ended
  <2>3. CASE /\ Exists(s) /\ sessions'[s].status \in {"terminated", "deleted"}
    BY <1>1, <2>3 DEF NotBack, Exists, Listed, Ended
  <2>4. CASE \E status \in {"expiring_soon", "expired"} : MarkSession(s, status)
    BY <1>1, <1>2, <2>4 DEF MarkSession, NotBack, IInv, TypeOK, Session
  <2>5. CASE \E id \in KeyIds : CreateSession(id, s)
    BY <1>1, <1>2, <2>5 DEF CreateSession, NotBack, IInv, TypeOK, Session
  <2>6. ASSUME NEW q \in PublicKeys, NEW ids, NEW before, NEW after,
               PurgePublicKey(q, ids, before, after)
        PROVE  \/ sessions'[s].status = sessions[s].status
               \/ Exists(s) /\ sessions'[s].status \in {"terminated", "deleted"}
    BY <1>2, <2>6 DEF PurgePublicKey, CreatedBy, Deleted
  <2>7. ASSUME NEW t \in Sids, SessionStep(t)
        PROVE  NotBack(s)
    <3>1. CASE t = s
      <4>1. \/ sessions'[s].status = sessions[s].status
            \/ Exists(s) /\ sessions'[s].status \in {"terminated", "deleted"}
            \/ \E status \in {"expiring_soon", "expired"} : MarkSession(s, status)
            \/ \E id \in KeyIds : CreateSession(id, s)
        <5>1. CASE FinishDestroy(s)
          BY <5>1 DEF FinishDestroy, DeleteSessions, Deleted
        <5>2. ASSUME \/ \E id \in KeyIds : JoinSession(id, s)
                     \/ \E p \in PublicKeys : LeaveSession(s, p)
              PROVE  sessions'[s].status = sessions[s].status
          <6>1. \E ms : sessions' = [sessions EXCEPT ![s].members = ms]
            BY <5>2 DEF JoinSession, LeaveSession
          <6>2. QED
            BY <1>2, <6>1 DEF IInv, TypeOK, Session
        <5>3. CASE TerminateSession(s)
          BY <1>2, <5>3 DEF TerminateSession, IInv, TypeOK, Session
        <5>4. CASE \/ StartDestroy(s) \/ NewRow(s)
                   \/ \E p \in PublicKeys, named \in BOOLEAN : SendMessage(s, p, named)
          BY <5>4 DEF StartDestroy, NewRow, SendMessage
        <5>5. QED
          BY <2>7, <3>1, <5>1, <5>2, <5>3, <5>4 DEF SessionStep
      <4>2. QED
        BY <2>2, <2>3, <2>4, <2>5, <4>1
    <3>2. CASE t # s
      <4>1. sessions'[s] = sessions[s]
        BY <1>2, <2>7, <3>2
           DEF SessionStep, CreateSession, JoinSession, LeaveSession, SendMessage,
               TerminateSession, StartDestroy, FinishDestroy, DeleteSessions, MarkSession,
               NewRow, IInv, TypeOK
      <4>2. QED
        BY <2>2, <4>1
    <3>3. QED
      BY <3>1, <3>2
  <2>8. ASSUME NEW id \in KeyIds, KeyStep(id)
        PROVE  NotBack(s)
    <3>1. CASE CreateKey(id)
      BY <2>2, <3>1 DEF CreateKey
    <3>2. CASE KillKey(id) \/ ExpireKey(id)
      BY <2>2, <2>3, <2>6, <3>2, NamesAssumption DEF KillKey, ExpireKey
    <3>3. QED
      BY <2>8, <3>1, <3>2 DEF KeyStep
  <2>9. ASSUME NEW q \in PublicKeys, RemovePublicKey(q) \/ KillUserData(q)
        PROVE  NotBack(s)
    <3>1. \E after : PurgePublicKey(q, IdsOf(q), {}, after)
      BY <2>9 DEF RemovePublicKey, KillUserData
    <3>2. QED
      BY <2>2, <2>3, <2>6, <3>1
  <2>10. CASE MarkAllTerminated
    BY <2>2, <2>3, <2>10 DEF MarkAllTerminated
  <2>11. CASE DeactivateAllKeys \/ UNCHANGED vars \/ \E m \in Messages : Deliver(m)
    BY <2>2, <2>11 DEF DeactivateAllKeys, Deliver, vars
  <2>12. QED
    BY <1>2, <2>7, <2>8, <2>9, <2>10, <2>11 DEF Next
<1>3. IInv /\ [Next]_vars =>
        [\A s \in Sids : StatusRank(sessions[s].status) <= StatusRank(sessions'[s].status)]_vars
  BY <1>2
<1>4. QED
  BY <1>3, AlwaysIInv, PTL DEF Spec, StatusOnlyAdvances
=============================================================================
