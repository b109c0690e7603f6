------------------------- MODULE MessageReads_proofs -------------------------
(***************************************************************************)
(* Proofs about MessageReads, for any number of messages and requests,     *)
(* all limits and every window.                                            *)
(***************************************************************************)
EXTENDS MessageReads, FiniteSetTheorems, WellFoundedInduction, TLAPS

-----------------------------------------------------------------------------
(* The inductive invariant *)

RequestState ==
  [pc : {"free", "messages", "deletes", "reconcile", "answer"}, op : {"pull", "history"},
   since : Nat, end : Nat, found : SUBSET (MessageIds \X (1..now)),
   gone : SUBSET deleted, before : SUBSET deleted]

\* No version of a message is newer than the one that is stored.
NoneNewer(shown) == \A x \in shown, m \in messages : x[1] = m.id => x[2] <= LastChange(m)

\* What a pull has found has no gap above the newest event the client was sent.
NoGap(found) ==
  \A x \in found, m \in messages :
     newest <= LastChange(m) /\ LastChange(m) < x[2] => Shown(m) \in found \/ m.id \in cut

\* The deletions of a request have been read from the whole list.
DeletesRead(fields) ==
  fields.pc = "answer" \/ (fields.pc = "messages" /\ fields.op = "history")

Informed(fields) ==
  /\ fields \in RequestState
  /\ NoneNewer(fields.found)
  /\ fields.pc = "messages" /\ fields.op = "pull" => fields.since = 0 \/ fields.since < newest
  /\ fields.op = "pull" => NoGap(fields.found)
  /\ DeletesRead(fields) => fields.before \cap IdsOf(EveryDeleteEvent) \subseteq fields.gone

IInv ==
  /\ TypeOK
  /\ \A m, n \in messages : m.id = n.id => m = n
  /\ IsFiniteSet(events) /\ IsFiniteSet(deleted)
  /\ request \in [Requests -> RequestState]
  /\ \A r \in Requests : Informed(request[r])
  /\ NoneNewer(view)
  /\ NothingSkipped

-----------------------------------------------------------------------------
(* The operators on lists *)

\* The end of a list is part of it.
LEMMA LastOfShrinks == \A list, n : LastOf(list, n) \subseteq list
BY DEF LastOf

\* Of a list that keeps its last most items, a new item pushes out only older
\* ones: what is among the last n after it was among them before.
LEMMA LastOfAdded ==
  ASSUME NEW list, IsFiniteSet(list), \A x \in list : x.at \in Nat,
         NEW e, e.at \in Nat, NEW most \in Nat, NEW n \in Nat
  PROVE  LastOf(LastOf(list \cup {e}, most), n) \subseteq LastOf(list, n) \cup {e}
<1> DEFINE long  == list \cup {e}
           kept  == LastOf(long, most)
           After(l, item) == {x \in l : x.at > item.at}
<1>1. IsFiniteSet(long)
  BY FS_AddElement
<1>2. ASSUME NEW item \in LastOf(kept, n), item # e
      PROVE  item \in LastOf(list, n)
  <2>1. item \in long /\ item \in kept
    BY <1>2 DEF LastOf
  <2>2. item \in list /\ item.at \in Nat
    BY <2>1, <1>2
  <2>3. Cardinality(After(long, item)) < most /\ Cardinality(After(kept, item)) < n
    BY <2>1, <1>2 DEF LastOf
  <2>4. IsFiniteSet(After(long, item)) /\ Cardinality(After(long, item)) \in Nat
    BY <1>1, FS_Subset, FS_CardinalityType
  <2>5. ASSUME NEW x \in After(list, item)
        PROVE  x \in After(kept, item)
    <3>1. x \in long /\ x.at \in Nat /\ x.at > item.at
      OBVIOUS
    <3>2. After(long, x) \subseteq After(long, item)
      BY <2>2, <3>1
    <3>3. Cardinality(After(long, x)) <= Cardinality(After(long, item))
      BY <2>4, <3>2, FS_Subset
    <3>4. Cardinality(After(long, x)) \in Nat
      BY <2>4, <3>2, FS_Subset, FS_CardinalityType
    <3>5. Cardinality(After(long, x)) < most
      BY <2>3, <2>4, <3>3, <3>4
    <3>6. x \in kept
      BY <3>1, <3>5 DEF LastOf
    <3>7. QED
      BY <3>1, <3>6
  <2>6. IsFiniteSet(After(kept, item)) /\ Cardinality(After(kept, item)) \in Nat
    <3>1. After(kept, item) \subseteq After(long, item)
      BY LastOfShrinks
    <3>2. QED
      BY <2>4, <3>1, FS_Subset, FS_CardinalityType
  <2>7. /\ Cardinality(After(list, item)) <= Cardinality(After(kept, item))
        /\ Cardinality(After(list, item)) \in Nat
    BY <2>5, <2>6, FS_Subset, FS_CardinalityType
  <2>8. Cardinality(After(list, item)) < n
    BY <2>3, <2>6, <2>7
  <2>9. QED
    BY <2>2, <2>8 DEF LastOf
<1>3. QED
  BY <1>2

\* A set of times that are not later than now has a latest one.
LEMMA LatestExists ==
  ASSUME NEW n \in Nat, NEW times \in SUBSET (0..n), times # {}
  PROVE  \E t \in times : \A u \in times : u <= t
<1> DEFINE T == {n - t : t \in times}
<1>1. T \subseteq Nat /\ T # {}
  <2>1. \A t \in times : n - t \in Nat
    OBVIOUS
  <2>2. QED
    BY <2>1
<1>2. PICK x \in T : \A y \in T : ~ (<<y, x>> \in OpToRel(<, Nat))
  BY <1>1, NatLessThanWellFounded, WFMin
<1>3. \A y \in T : ~ (y < x)
  BY <1>1, <1>2 DEF OpToRel
<1>4. PICK t \in times : x = n - t
  OBVIOUS
<1>5. ASSUME NEW u \in times
      PROVE  u <= t
  <2>1. n - u \in T
    OBVIOUS
  <2>2. ~ (n - u < n - t)
    BY <1>3, <1>4, <2>1
  <2>3. QED
    BY <2>2
<1>6. QED
  BY <1>5

\* NewestOf is the cursor or the time of something found, and none is later.
LEMMA NewestFacts ==
  ASSUME now \in Nat, newest \in 0..now, NEW found \in SUBSET (MessageIds \X (1..now))
  PROVE  /\ NewestOf(found) = newest \/ \E x \in found : NewestOf(found) = x[2]
         /\ NewestOf(found) \in 0..now
         /\ newest <= NewestOf(found)
<1> DEFINE times == {newest} \cup {x[2] : x \in found}
<1>1. times \subseteq 0..now /\ newest \in times
  OBVIOUS
<1>2. \E t \in times : \A u \in times : u <= t
  BY <1>1, LatestExists
<1>3. \E t \in times : t >= newest /\ \A x \in found : t >= x[2]
  BY <1>1, <1>2
<1>4. NewestOf(found) \in times /\ NewestOf(found) >= newest
  BY <1>3 DEF NewestOf
<1>5. QED
  BY <1>1, <1>4

-----------------------------------------------------------------------------
(* The deletion events *)

\* The list is read with two limits, of which the smaller one counts.
Room == IF ReconcileMax < MaxEvents THEN ReconcileMax ELSE MaxEvents

\* The list of all deletions is the end of what is kept.
LEMMA EveryIsLast ==
  ASSUME MaxTime \in Nat, now \in 1..MaxTime, \A e \in events : e.ts \in 1..now
  PROVE  EveryDeleteEvent = LastOf(events, Room)
<1>1. {e \in events : e.ts > 0 /\ e.ts >= 0 /\ e.ts <= MaxTime} = events
  OBVIOUS
<1>2. QED
  BY <1>1 DEF EveryDeleteEvent, DeleteEvents, Room

\* What the invariant says of the clock and the deletion events.
LEMMA EventFacts ==
  ASSUME IInv
  PROVE  /\ now \in 1..MaxTime /\ MaxTime \in Nat /\ Room \in Nat
         /\ \A e \in events : e.ts \in 1..now /\ e.at \in Nat /\ e.id \in deleted
         /\ EveryDeleteEvent = LastOf(events, Room)
         /\ IdsOf(EveryDeleteEvent) \subseteq deleted
<1>1. /\ now \in 1..MaxTime /\ MaxTime \in Nat /\ Room \in Nat
  BY ReadsAssumption DEF IInv, TypeOK, Room
<1>2. \A e \in events : e.ts \in 1..now /\ e.at \in Nat /\ e.id \in deleted
  BY DEF IInv, TypeOK, DeleteEvent
<1>3. EveryDeleteEvent = LastOf(events, Room)
  BY <1>1, <1>2, EveryIsLast
<1>4. QED
  BY <1>1, <1>2, <1>3, LastOfShrinks DEF IdsOf

\* A recorded deletion is new in the list, and brings back no older one.
LEMMA RecordedFacts ==
  ASSUME IInv, NEW id, Exists(id), DeleteMessage(id)
  PROVE  /\ id \in MessageIds /\ id \notin deleted
         /\ IsFiniteSet(events') /\ IsFiniteSet(deleted')
         /\ events' \subseteq DeleteEvent'
         /\ IdsOf(EveryDeleteEvent') \subseteq IdsOf(EveryDeleteEvent) \cup {id}
<1> DEFINE e == [id |-> id, ts |-> now, at |-> Cardinality(deleted)]
<1>1. id \in MessageIds /\ id \notin deleted
  BY DEF Exists, IdsOf, IInv, TypeOK, Message
<1>2. Cardinality(deleted) \in Nat
  BY FS_CardinalityType DEF IInv
<1>3. events' = LastOf(events \cup {e}, MaxEvents) /\ deleted' = deleted \cup {id} /\ now' = now
  BY DEF DeleteMessage, WithEvent
<1>4. /\ IsFiniteSet(deleted') /\ IsFiniteSet(events \cup {e})
  BY <1>3, FS_AddElement DEF IInv
<1>5. IsFiniteSet(events')
  BY <1>3, <1>4, LastOfShrinks, FS_Subset
<1>6. e \in DeleteEvent'
  BY <1>2, <1>3, EventFacts DEF DeleteEvent
<1>7. events \subseteq DeleteEvent'
  BY <1>3 DEF IInv, TypeOK, DeleteEvent
<1>8. events' \subseteq DeleteEvent'
  BY <1>3, <1>6, <1>7, LastOfShrinks
<1>9. \A x \in events' : x.ts \in 1..(now')
  BY <1>8 DEF DeleteEvent
<1>10. EveryDeleteEvent' = LastOf(events', Room)
  <2>1. now' \in 1..MaxTime /\ MaxTime \in Nat
    BY <1>3, EventFacts
  <2>2. {x \in events' : x.ts > 0 /\ x.ts >= 0 /\ x.ts <= MaxTime} = events'
    BY <1>9, <2>1
  <2>3. QED
    BY <2>2 DEF EveryDeleteEvent, DeleteEvents, Room
<1>11. EveryDeleteEvent' \subseteq EveryDeleteEvent \cup {e}
  <2>1. e.at \in Nat /\ MaxEvents \in Nat
    BY <1>2, ReadsAssumption
  <2> HIDE DEF e
  <2>2. LastOf(LastOf(events \cup {e}, MaxEvents), Room) \subseteq LastOf(events, Room) \cup {e}
    BY <2>1, EventFacts, LastOfAdded DEF IInv
  <2>3. QED
    BY <1>3, <1>10, <2>2, EventFacts
<1>12. QED
  BY <1>1, <1>4, <1>5, <1>8, <1>11 DEF IdsOf

-----------------------------------------------------------------------------
(* What an older step has found stays true when the server moves on *)

\* What the invariant says of a message.
LEMMA MessageFacts ==
  ASSUME IInv, NEW m \in messages
  PROVE  /\ m.id \in MessageIds /\ m.at \in MessageIds /\ m.ts \in 1..now /\ m.editedAt \in 0..now
         /\ LastChange(m) \in 1..now
         /\ m.id \notin deleted
         /\ m.id \in IdsOf(messages)
<1>1. m.id \in MessageIds /\ m.at \in MessageIds /\ m.ts \in 1..now /\ m.editedAt \in 0..now
  BY DEF IInv, TypeOK, Message
<1>2. m.id \in IdsOf(messages)
  BY DEF IdsOf
<1>3. QED
  BY <1>1, <1>2, EventFacts DEF LastChange, IInv, TypeOK

\* A step of the server: a message that changes is as new as the clock, one that
\* does not is remembered as before, and no deletion is listed again.
ServerMove ==
  /\ now' \in {now, now + 1}
  /\ UNCHANGED <<request, view, newest>>
  /\ deleted \subseteq deleted'
  /\ \A m \in messages' :
       LastChange(m) = now' \/ (m \in messages /\ (m.id \in cut => m.id \in cut'))
  /\ \A id \in IdsOf(EveryDeleteEvent') : id \in IdsOf(EveryDeleteEvent) \/ id \notin deleted

\* What was found before the server moved on is not newer for it, and has no new gap.
LEMMA ServerKeepsFound ==
  ASSUME IInv, ServerMove, NEW found \in SUBSET (MessageIds \X (1..now))
  PROVE  /\ found \in SUBSET (MessageIds \X (1..(now')))
         /\ NoneNewer(found) => NoneNewer(found)'
         /\ NoGap(found) => NoGap(found)'
<1>1. now \in Nat /\ now' \in Nat /\ now <= now'
  BY EventFacts DEF ServerMove
<1>2. \A x \in found : x \in MessageIds \X (1..(now')) /\ x[2] \in 1..now
  BY <1>1
<1>3. NoneNewer(found) => NoneNewer(found)'
  BY <1>1, <1>2 DEF ServerMove, NoneNewer
<1>4. NoGap(found) => NoGap(found)'
  BY <1>1, <1>2 DEF ServerMove, NoGap
<1>5. QED
  BY <1>2, <1>3, <1>4

\* What requests and the view know stays true while the server moves on.
LEMMA ServerKeeps ==
  ASSUME IInv, ServerMove
  PROVE  /\ request' \in [Requests -> RequestState']
         /\ \A r \in Requests : Informed(request[r])'
         /\ NoneNewer(view)'
         /\ NothingSkipped'
<1>1. now \in Nat /\ now' \in Nat /\ now <= now'
  BY EventFacts DEF ServerMove
<1>2. ASSUME NEW fields, Informed(fields), NEW new, new = fields
      PROVE  Informed(new)'
  <2>1. fields \in RequestState /\ fields.found \in SUBSET (MessageIds \X (1..now))
    BY <1>2 DEF Informed, RequestState
  <2>2. fields.found \in SUBSET (MessageIds \X (1..(now')))
    BY <2>1, ServerKeepsFound
  <2>3. fields \in RequestState'
    BY <2>1, <2>2 DEF RequestState, ServerMove
  <2>4. NoneNewer(fields.found)'
    BY <1>2, <2>1, ServerKeepsFound DEF Informed
  <2>5. fields.pc = "messages" /\ fields.op = "pull" => fields.since = 0 \/ fields.since < newest'
    BY <1>2 DEF Informed, ServerMove
  <2>6. fields.op = "pull" => NoGap(fields.found)'
    BY <1>2, <2>1, ServerKeepsFound DEF Informed
  <2>7. DeletesRead(fields) => fields.before \cap IdsOf(EveryDeleteEvent') \subseteq fields.gone
    BY <1>2, <2>1 DEF Informed, ServerMove, RequestState
  <2>8. QED
    BY <1>2, <2>3, <2>4, <2>5, <2>6, <2>7 DEF Informed, DeletesRead, IdsOf
<1>3. request' = request
  BY DEF ServerMove
<1>4. \A r \in Requests : Informed(request[r])'
  BY <1>2, <1>3 DEF IInv
<1>5. request' \in [Requests -> RequestState']
  BY <1>3, <1>4 DEF IInv, Informed
<1>6. NoneNewer(view)'
  <2>1. view \in SUBSET (MessageIds \X (1..now)) /\ view' = view
    BY DEF IInv, TypeOK, ServerMove
  <2>2. QED
    BY <2>1, ServerKeepsFound DEF IInv, NoneNewer
<1>7. NothingSkipped'
  <2>1. newest \in 0..now
    BY DEF IInv, TypeOK
  <2>2. QED
    BY <1>1, <2>1 DEF NothingSkipped, IInv, ServerMove
<1>8. QED
  BY <1>4, <1>5, <1>6, <1>7

-----------------------------------------------------------------------------
(* The steps of the server *)

\* A message that is new or changed now takes the place of none that stays.
LEMMA StoreOne ==
  ASSUME IInv, NEW m, NEW rest \in SUBSET messages,
         m.id \in MessageIds, m.at \in MessageIds, m.ts \in 1..now, m.editedAt \in 0..now,
         LastChange(m) = now, m.id \notin deleted, \A n \in rest : n.id # m.id,
         m \in [id : MessageIds, at : MessageIds, ts : 1..now, editedAt : 0..now],
         messages' = rest \cup {m}, now' = now,
         UNCHANGED <<events, deleted, request, view, newest>>,
         \A n \in rest : n.id \in cut => n.id \in cut',
         cut' \subseteq cut, \A id \in cut' : id = m.id \/ id \in IdsOf(rest)
  PROVE  IInv'
<1>1. ServerMove
  BY DEF ServerMove, EveryDeleteEvent, DeleteEvents, IdsOf
<1>2. TypeOK'
  BY DEF IInv, TypeOK, Message, DeleteEvent, IdsOf
<1>3. (\A p, n \in messages : p.id = n.id => p = n)'
  BY DEF IInv
<1>4. QED
  BY <1>1, <1>2, <1>3, ServerKeeps DEF IInv

\* addMessage: a new message changes now, and has no namesake.
LEMMA SendKeepsIInv ==
  ASSUME IInv, NEW id \in MessageIds, Send(id)
  PROVE  IInv'
<1> DEFINE m == [id |-> id, at |-> id, ts |-> now, editedAt |-> 0]
<1>1. /\ m.id = id /\ m.at = id /\ m.ts = now /\ m.editedAt = 0 /\ now \in 1..now /\ 0 \in 0..now
      /\ m \in [id : MessageIds, at : MessageIds, ts : 1..now, editedAt : 0..now]
  BY EventFacts
<1>2. messages' = messages \cup {m} /\ UNCHANGED <<now, events, deleted, client>>
  BY DEF Send
<1>3. LastChange(m) = now
  BY <1>1, EventFacts DEF LastChange
<1>4. id \notin deleted /\ \A n \in messages : n.id # id
  BY DEF Send, Exists, IdsOf
<1> HIDE DEF m
<1>5. cut' = cut /\ UNCHANGED <<request, view, newest>>
  BY <1>2 DEF client
<1>6. cut \subseteq IdsOf(messages)
  BY DEF IInv, TypeOK
<1>7. QED
  BY <1>1, <1>2, <1>3, <1>4, <1>5, <1>6, StoreOne

\* updateMessage: an edited message changes now.
LEMMA EditKeepsIInv ==
  ASSUME IInv, NEW m \in messages, Edit(m)
  PROVE  IInv'
<1> DEFINE new  == [m EXCEPT !.editedAt = now]
           rest == messages \ {m}
<1>1. m \in [id : MessageIds, at : MessageIds, ts : 1..now, editedAt : 0..now]
  BY DEF IInv, TypeOK, Message
<1>2. now \in 0..now /\ now \in Nat
  BY EventFacts
<1>3. /\ new.id = m.id /\ new.at = m.at /\ new.ts = m.ts /\ new.editedAt = now
      /\ new \in [id : MessageIds, at : MessageIds, ts : 1..now, editedAt : 0..now]
  BY <1>1, <1>2
<1>4. /\ messages' = rest \cup {new} /\ cut' = cut \ {m.id}
      /\ UNCHANGED <<now, events, deleted, request, view, newest>>
  BY DEF Edit
<1> HIDE DEF new
<1>5. LastChange(new) = now
  BY <1>1, <1>2, <1>3 DEF LastChange
<1>6. new.id \notin deleted /\ \A n \in rest : n.id # new.id
  BY <1>3, MessageFacts DEF IInv
<1>7. cut \subseteq IdsOf(messages)
  BY DEF IInv, TypeOK
<1>8. \A id \in cut' : id \in IdsOf(rest)
  BY <1>4, <1>7 DEF IdsOf
<1>9. \A n \in rest : n.id \in cut => n.id \in cut'
  BY <1>3, <1>4, <1>6
<1>10. /\ rest \in SUBSET messages /\ cut' \subseteq cut
       /\ new.id \in MessageIds /\ new.at \in MessageIds
       /\ new.ts \in 1..now /\ new.editedAt \in 0..now
  BY <1>2, <1>3, <1>4, MessageFacts
<1> HIDE DEF rest
<1>11. QED
  BY <1>3, <1>4, <1>5, <1>6, <1>8, <1>9, <1>10, StoreOne

\* deleteMessage: the message goes and its deletion is listed.
LEMMA DeleteKeepsIInv ==
  ASSUME IInv, NEW id \in MessageIds, DeleteMessage(id)
  PROVE  IInv'
<1>1. Exists(id)
  BY DEF DeleteMessage
<1>2. /\ messages' = {m \in messages : m.id # id} /\ deleted' = deleted \cup {id}
      /\ cut' = cut \ {id} /\ UNCHANGED <<now, request, view, newest>>
  BY DEF DeleteMessage
<1>3. /\ id \notin deleted /\ IsFiniteSet(events') /\ IsFiniteSet(deleted')
      /\ events' \subseteq DeleteEvent'
      /\ IdsOf(EveryDeleteEvent') \subseteq IdsOf(EveryDeleteEvent) \cup {id}
  BY <1>1, RecordedFacts
<1>4. ServerMove
  BY <1>2, <1>3 DEF ServerMove
<1>5. TypeOK'
  BY <1>2, <1>3 DEF IInv, TypeOK, Message, IdsOf
<1>6. (\A p, n \in messages : p.id = n.id => p = n)'
  BY <1>2 DEF IInv
<1>7. QED
  BY <1>3, <1>4, <1>5, <1>6, ServerKeeps DEF IInv

\* Time changes nothing that was seen.
LEMMA TickKeepsIInv ==
  ASSUME IInv, Tick
  PROVE  IInv'
<1>1. /\ now' = now + 1 /\ now' \in 1..MaxTime
      /\ UNCHANGED <<messages, events, deleted, request, view, newest, cut>>
  BY EventFacts DEF Tick, client
<1>2. EveryDeleteEvent' = EveryDeleteEvent
  BY <1>1 DEF EveryDeleteEvent, DeleteEvents
<1>3. ServerMove
  BY <1>1, <1>2 DEF ServerMove
<1>4. TypeOK'
  <2>1. now \in Nat
    BY EventFacts
  <2>2. /\ \A n \in 1..now : n \in 1..(now')
        /\ \A n \in 0..now : n \in 0..(now')
    BY <1>1, <2>1
  <2>3. messages' \subseteq Message'
    BY <1>1, <2>2 DEF IInv, TypeOK, Message
  <2>4. events' \subseteq DeleteEvent'
    BY <1>1, <2>2 DEF IInv, TypeOK, DeleteEvent
  <2>5. view' \subseteq MessageIds \X (1..(now'))
    BY <1>1, <2>2 DEF IInv, TypeOK
  <2>6. QED
    BY <1>1, <2>2, <2>3, <2>4, <2>5 DEF IInv, TypeOK, IdsOf
<1>5. QED
  BY <1>1, <1>3, <1>4, ServerKeeps DEF IInv

-----------------------------------------------------------------------------
(* The steps of a request *)

\* A step of a request: the server stays, and the client only learns.
ClientMove(r, fields) ==
  /\ UNCHANGED <<now, messages, events, deleted>>
  /\ request' = [request EXCEPT ![r] = fields]
  /\ newest \in 0..now /\ newest' \in 0..now /\ newest <= newest'
  /\ cut \subseteq cut' /\ cut' \subseteq IdsOf(messages)

\* What the other requests know stays true while one of them moves on.
LEMMA ClientKeeps ==
  ASSUME IInv, NEW r \in Requests, NEW fields, ClientMove(r, fields),
         \A new : new = fields => Informed(new)'
  PROVE  /\ request' \in [Requests -> RequestState']
         /\ \A q \in Requests : Informed(request[q])'
         /\ (\A m, n \in messages : m.id = n.id => m = n)'
         /\ IsFiniteSet(events') /\ IsFiniteSet(deleted')
<1>1. EveryDeleteEvent' = EveryDeleteEvent
  BY DEF ClientMove, EveryDeleteEvent, DeleteEvents
<1>2. ASSUME NEW old, Informed(old), NEW new, new = old
      PROVE  Informed(new)'
  <2>1. old \in RequestState'
    BY <1>2 DEF Informed, RequestState, ClientMove
  <2>2. NoneNewer(old.found)'
    BY <1>2 DEF Informed, NoneNewer, ClientMove
  <2>3. old.pc = "messages" /\ old.op = "pull" => old.since = 0 \/ old.since < newest'
    <3>1. old.since \in Nat
      BY <1>2 DEF Informed, RequestState
    <3>2. newest \in Nat /\ newest' \in Nat /\ newest <= newest'
      BY EventFacts DEF ClientMove
    <3>3. QED
      BY <1>2, <3>1, <3>2 DEF Informed
  <2>4. old.op = "pull" => NoGap(old.found)'
    <3>1. newest \in Nat /\ newest' \in Nat /\ newest <= newest' /\ messages' = messages
      BY EventFacts DEF ClientMove
    <3>2. \A m \in messages : LastChange(m) \in Nat
      BY MessageFacts, EventFacts
    <3>3. cut \subseteq cut'
      BY DEF ClientMove
    <3>4. QED
      BY <1>2, <3>1, <3>2, <3>3 DEF Informed, NoGap
  <2>5. DeletesRead(old) => old.before \cap IdsOf(EveryDeleteEvent') \subseteq old.gone
    BY <1>1, <1>2 DEF Informed
  <2>6. QED
    BY <1>2, <2>1, <2>2, <2>3, <2>4, <2>5 DEF Informed, DeletesRead, IdsOf
<1>3. request \in [Requests -> RequestState] /\ \A q \in Requests : Informed(request[q])
  BY DEF IInv
<1>4. request' = [request EXCEPT ![r] = fields]
  BY DEF ClientMove
<1>5. ASSUME NEW q \in Requests
      PROVE  Informed(request[q])'
  <2>1. CASE q = r
    BY <1>3, <1>4, <2>1
  <2>2. CASE q # r
    <3>1. request'[q] = request[q]
      BY <1>3, <1>4, <2>2
    <3>2. QED
      BY <1>2, <1>3, <3>1
  <2>3. QED
    BY <2>1, <2>2
<1>6. request' \in [Requests -> RequestState']
  BY <1>3, <1>4, <1>5 DEF Informed
<1>7. QED
  BY <1>5, <1>6 DEF ClientMove, IInv

\* What the invariant says of a request.
LEMMA RequestFacts ==
  ASSUME IInv, NEW r \in Requests
  PROVE  /\ request[r] \in RequestState /\ Informed(request[r])
         /\ newest \in 0..now /\ now \in Nat /\ cut \subseteq IdsOf(messages)
BY EventFacts DEF IInv, TypeOK

\* A request that is not under way has nothing to account for.
LEMMA FreeIsInformed ==
  ASSUME IInv, now' = now
  PROVE  \A new : new = Free => Informed(new)'
BY EventFacts DEF Free, Informed, RequestState, NoneNewer, NoGap, DeletesRead

\* What is shown of the stored messages is no newer than they are.
LEMMA ShownFacts ==
  ASSUME IInv, NEW some \in SUBSET messages
  PROVE  ShownOf(some) \in SUBSET (MessageIds \X (1..now)) /\ NoneNewer(ShownOf(some))
<1>1. ASSUME NEW x \in ShownOf(some)
      PROVE  /\ x \in MessageIds \X (1..now)
             /\ \A m \in messages : x[1] = m.id => x[2] <= LastChange(m)
  <2>1. PICK n \in some : x = <<n.id, LastChange(n)>>
    BY DEF ShownOf, Shown
  <2>2. n.id \in MessageIds /\ LastChange(n) \in 1..now /\ now \in Nat
    BY MessageFacts, EventFacts
  <2>3. \A m \in messages : n.id = m.id => n = m
    BY DEF IInv
  <2>4. QED
    BY <2>1, <2>2, <2>3
<1>2. QED
  BY <1>1 DEF NoneNewer

\* A step of a request that leaves the view and the cursor keeps the invariant.
LEMMA QuietStep ==
  ASSUME IInv, NEW r \in Requests, NEW fields, Step(r, fields),
         UNCHANGED <<now, messages, events, deleted, view, newest>>,
         cut \subseteq cut', cut' \subseteq IdsOf(messages),
         \A new : new = fields => Informed(new)'
  PROVE  IInv'
<1>1. ClientMove(r, fields)
  BY RequestFacts DEF ClientMove, Step
<1>2. TypeOK'
  BY DEF IInv, TypeOK, Message, DeleteEvent, IdsOf
<1>3. NoneNewer(view)' /\ NothingSkipped'
  BY DEF IInv, NoneNewer, NothingSkipped
<1>4. QED
  BY <1>1, <1>2, <1>3, ClientKeeps DEF IInv

\* A request asks from just before the newest event the client has seen.
LEMMA AskKeepsIInv ==
  ASSUME IInv, NEW r \in Requests, NEW op \in {"pull", "history"}, NEW end \in Nat,
         Ask(r, op, end)
  PROVE  IInv'
<1> DEFINE since  == IF newest > 0 THEN newest - 1 ELSE 0
           fields == [Free EXCEPT !.op = op, !.end = end, !.before = deleted, !.since = since,
                          !.pc = IF op = "pull" THEN "messages" ELSE "reconcile"]
<1>1. /\ fields \in RequestState' /\ fields.found = {} /\ fields.before = deleted
      /\ fields.op = op /\ fields.pc = (IF op = "pull" THEN "messages" ELSE "reconcile")
      /\ fields.since = 0 \/ fields.since < newest'
  <2>1. /\ Free \in RequestState' /\ Free.found = {}
    BY DEF Free, RequestState
  <2>2. /\ since \in Nat /\ (since = 0 \/ since < newest)
        /\ newest' = newest /\ deleted' = deleted
    BY RequestFacts DEF Ask
  <2> HIDE DEF since
  <2>3. QED
    BY <2>1, <2>2 DEF RequestState
<1>2. Step(r, fields) /\ UNCHANGED <<now, messages, events, deleted, view, newest, cut>>
  BY DEF Ask
<1> HIDE DEF fields
<1>3. ~ DeletesRead(fields)
  BY <1>1 DEF DeletesRead
<1>4. \A new : new = fields => Informed(new)'
  BY <1>1, <1>3 DEF Informed, NoneNewer, NoGap, DeletesRead
<1>5. QED
  BY <1>2, <1>4, RequestFacts, QuietStep

\* A pull has room for what it found; what it had no room for is remembered.
LEMMA ReadMessagesKeepsIInv ==
  ASSUME IInv, NEW r \in Requests, ReadMessages(r)
  PROVE  IInv'
<1> DEFINE fields == [request[r] EXCEPT
                        !.found = ShownOf(LastOf(Matching(request[r].since, WindowStart(r),
                                                          request[r].end), Limit)),
                        !.pc = "deletes"]
           wanted == Matching(request[r].since, 0, request[r].end)
           some   == LastOf(Matching(request[r].since, WindowStart(r), request[r].end), Limit)
<1>1. /\ Step(r, fields) /\ UNCHANGED <<now, messages, events, deleted, view, newest>>
      /\ cut' = cut \cup (IdsOf(wanted) \ IdsOf(some))
      /\ request[r].pc = "messages" /\ request[r].op = "pull"
  BY DEF ReadMessages
<1>2. /\ some \in SUBSET messages
      /\ \A m \in some : LastChange(m) <= request[r].end
  BY LastOfShrinks DEF Matching, EventTs
<1>3. ShownOf(some) \in SUBSET (MessageIds \X (1..now)) /\ NoneNewer(ShownOf(some))
  BY <1>2, ShownFacts
<1>4. /\ fields.found = ShownOf(some) /\ fields.pc = "deletes" /\ fields.op = "pull"
      /\ fields \in RequestState'
  <2>1. request[r] \in RequestState
    BY RequestFacts
  <2> HIDE DEF some
  <2>2. [request[r] EXCEPT !.found = ShownOf(some), !.pc = "deletes"] \in RequestState'
    BY <1>1, <1>3, <2>1 DEF RequestState
  <2>3. QED
    BY <1>1, <2>1, <2>2 DEF RequestState, some
<1>5. ASSUME NEW x \in ShownOf(some), NEW m \in messages,
             newest <= LastChange(m), LastChange(m) < x[2]
      PROVE  Shown(m) \in ShownOf(some) \/ m.id \in cut'
  <2>1. PICK n \in some : x[2] = LastChange(n)
    BY DEF ShownOf, Shown
  <2>2. LastChange(n) \in Nat /\ LastChange(m) \in 1..now /\ newest \in Nat /\ now \in Nat
    BY <1>2, MessageFacts, RequestFacts
  <2>3. request[r].since \in Nat /\ request[r].end \in Nat
    BY RequestFacts DEF RequestState
  <2>4. LastChange(m) > request[r].since
    BY <1>1, <1>5, <2>2, <2>3, RequestFacts DEF Informed
  <2>5. LastChange(m) >= 0 /\ LastChange(m) <= request[r].end
    BY <1>2, <1>5, <2>1, <2>2, <2>3
  <2>6. m \in wanted
    BY <2>4, <2>5 DEF Matching, EventTs
  <2>7. m.id \in IdsOf(some) => m \in some
    BY <1>2 DEF IdsOf, IInv
  <2>8. QED
    BY <1>1, <2>6, <2>7 DEF IdsOf, ShownOf
<1>6. cut \subseteq cut' /\ cut' \subseteq IdsOf(messages)
  <2>1. wanted \subseteq messages
    BY DEF Matching
  <2>2. QED
    BY <1>1, <2>1, RequestFacts DEF IdsOf
<1> HIDE DEF fields, some
<1>7. \A new : new = fields => Informed(new)'
  BY <1>1, <1>3, <1>4, <1>5 DEF Informed, NoneNewer, NoGap, DeletesRead
<1>8. QED
  BY <1>1, <1>6, <1>7, QuietStep

\* The deletions of the window are deletions.
LEMMA ReadDeletesKeepsIInv ==
  ASSUME IInv, NEW r \in Requests, ReadDeletes(r)
  PROVE  IInv'
<1> DEFINE gone == IdsOf(DeleteEvents(request[r].since, WindowStart(r), request[r].end, Limit))
           fields == [request[r] EXCEPT !.pc = "reconcile", !.since = 0, !.end = 0, !.gone = gone]
<1>1. /\ Step(r, fields) /\ UNCHANGED <<now, messages, events, deleted, view, newest, cut>>
  BY DEF ReadDeletes
<1>2. gone \subseteq deleted
  BY LastOfShrinks, EventFacts DEF DeleteEvents, IdsOf
<1> HIDE DEF gone
<1>3. /\ fields \in RequestState' /\ fields.pc = "reconcile"
      /\ fields.found = request[r].found /\ fields.op = request[r].op
  BY <1>1, <1>2, RequestFacts DEF RequestState
<1> HIDE DEF fields
<1>4. \A new : new = fields => Informed(new)'
  BY <1>1, <1>3, RequestFacts DEF Informed, NoneNewer, NoGap, DeletesRead
<1>5. QED
  BY <1>1, <1>4, RequestFacts, QuietStep

\* A request that reads all deletions has those from before it.
LEMMA ReadAllDeletesKeepsIInv ==
  ASSUME IInv, NEW r \in Requests, ReadAllDeletes(r)
  PROVE  IInv'
<1> DEFINE gone == IdsOf(EveryDeleteEvent)
           fields == [request[r] EXCEPT !.gone = @ \cup gone,
                        !.pc = IF request[r].op = "pull" THEN "answer" ELSE "messages"]
<1>1. /\ Step(r, fields) /\ UNCHANGED <<now, messages, events, deleted, view, newest, cut>>
  BY DEF ReadAllDeletes
<1>2. gone \subseteq deleted /\ gone = IdsOf(EveryDeleteEvent')
  BY <1>1, EventFacts DEF EveryDeleteEvent, DeleteEvents, IdsOf
<1> HIDE DEF gone
<1>3. /\ fields \in RequestState' /\ fields.gone = request[r].gone \cup gone
      /\ fields.found = request[r].found /\ fields.op = request[r].op
      /\ fields.pc = (IF request[r].op = "pull" THEN "answer" ELSE "messages")
  BY <1>1, <1>2, RequestFacts DEF RequestState
<1> HIDE DEF fields
<1>4. \A new : new = fields => Informed(new)'
  BY <1>1, <1>2, <1>3, RequestFacts DEF Informed, NoneNewer, NoGap, DeletesRead, IdsOf
<1>5. QED
  BY <1>1, <1>4, RequestFacts, QuietStep

\* A history answer shows messages as they are.
LEMMA ReadHistoryKeepsIInv ==
  ASSUME IInv, NEW r \in Requests, ReadHistory(r)
  PROVE  IInv'
<1> DEFINE some == LastOf({m \in messages :
                     m.ts <= request[r].end /\ m.id \notin request[r].gone}, Limit)
           fields == [request[r] EXCEPT !.pc = "answer", !.since = 0, !.end = 0,
                        !.found = ShownOf(some)]
<1>1. /\ Step(r, fields) /\ UNCHANGED <<now, messages, events, deleted, view, newest, cut>>
      /\ request[r].pc = "messages" /\ request[r].op = "history"
  BY DEF ReadHistory
<1>2. some \in SUBSET messages
  BY LastOfShrinks
<1>3. ShownOf(some) \in SUBSET (MessageIds \X (1..now)) /\ NoneNewer(ShownOf(some))
  BY <1>2, ShownFacts
<1> HIDE DEF some
<1>4. /\ fields \in RequestState' /\ fields.pc = "answer" /\ fields.op = "history"
      /\ fields.found = ShownOf(some)
      /\ fields.gone = request[r].gone /\ fields.before = request[r].before
  BY <1>1, <1>3, RequestFacts DEF RequestState
<1> HIDE DEF fields
<1>5. EveryDeleteEvent' = EveryDeleteEvent
  BY <1>1 DEF EveryDeleteEvent, DeleteEvents
<1>6. \A new : new = fields => Informed(new)'
  BY <1>1, <1>3, <1>4, <1>5, RequestFacts DEF Informed, NoneNewer, DeletesRead, IdsOf
<1>7. QED
  BY <1>1, <1>6, RequestFacts, QuietStep

\* A lost answer leaves nothing behind.
LEMMA LoseAnswerKeepsIInv ==
  ASSUME IInv, NEW r \in Requests, LoseAnswer(r)
  PROVE  IInv'
BY RequestFacts, FreeIsInformed, QuietStep DEF LoseAnswer

\* The view an answer leaves has one version of a message, none newer than the
\* stored one, and no version that is older than one that was shown or found.
LEMMA MergedFacts ==
  ASSUME IInv, NEW found \in SUBSET (MessageIds \X (1..now)), NoneNewer(found)
  PROVE  /\ Merged(view, found) \subseteq view \cup found
         /\ \A x, y \in Merged(view, found) : x[1] = y[1] => x = y
         /\ \A m \in messages :
              Shown(m) \in view \cup found => Shown(m) \in Merged(view, found)
<1> DEFINE all == view \cup found
<1>1. /\ all \in SUBSET (MessageIds \X (1..now)) /\ now \in Nat
      /\ Merged(view, found) = {x \in all : ~ \E y \in all : y[1] = x[1] /\ y[2] > x[2]}
  BY EventFacts DEF IInv, TypeOK, Merged
<1>2. \A x \in all, m \in messages : x[1] = m.id => x[2] <= LastChange(m)
  BY DEF IInv, NoneNewer
<1> HIDE DEF all
<1>3. ASSUME NEW x \in Merged(view, found), NEW y \in Merged(view, found), x[1] = y[1]
      PROVE  x = y
  <2>1. /\ x \in MessageIds \X (1..now) /\ y \in MessageIds \X (1..now)
        /\ ~ (y[2] > x[2]) /\ ~ (x[2] > y[2])
    BY <1>1, <1>3
  <2>2. x[2] \in Nat /\ y[2] \in Nat /\ x = <<x[1], x[2]>> /\ y = <<y[1], y[2]>>
    BY <2>1, <1>1
  <2>3. QED
    BY <1>3, <2>1, <2>2
<1>4. ASSUME NEW m \in messages, Shown(m) \in all
      PROVE  Shown(m) \in Merged(view, found)
  <2>1. LastChange(m) \in Nat /\ Shown(m)[1] = m.id /\ Shown(m)[2] = LastChange(m)
    BY MessageFacts, <1>1 DEF Shown
  <2>2. \A y \in all : y[1] = m.id => y[2] \in Nat /\ y[2] <= LastChange(m)
    BY <1>1, <1>2
  <2>3. \A y \in all : ~ (y[1] = Shown(m)[1] /\ y[2] > Shown(m)[2])
    BY <2>1, <2>2
  <2>4. QED
    BY <1>1, <1>4, <2>3
<1>5. QED
  BY <1>1, <1>3, <1>4 DEF all

\* The client's answer: the cursor moves to what the answer showed, and what was
\* skipped below it was shown before, or had no room.
LEMMA ApplyKeepsIInv ==
  ASSUME IInv, NEW r \in Requests, Apply(r)
  PROVE  IInv'
<1> DEFINE found == request[r].found
           gone  == request[r].gone
<1>1. /\ Step(r, Free) /\ UNCHANGED <<now, messages, events, deleted, cut>>
      /\ view' = {x \in Merged(view, found) : x[1] \notin gone}
      /\ newest' = (IF request[r].op = "pull" THEN NewestOf(found) ELSE newest)
  BY DEF Apply
<1>2. /\ found \in SUBSET (MessageIds \X (1..now)) /\ NoneNewer(found)
      /\ request[r].op = "pull" => NoGap(found)
      /\ gone \subseteq deleted
  BY RequestFacts DEF Informed, RequestState
<1> HIDE DEF found, gone
<1>3. /\ NewestOf(found) = newest \/ \E x \in found : NewestOf(found) = x[2]
      /\ NewestOf(found) \in 0..now /\ newest <= NewestOf(found)
  BY <1>2, RequestFacts, NewestFacts
<1>4. newest' \in 0..now /\ newest <= newest'
  BY <1>1, <1>3, RequestFacts
<1>5. ClientMove(r, Free)
  BY <1>1, <1>4, RequestFacts DEF ClientMove, Step
<1>6. view' \subseteq view \cup found
  BY <1>1, <1>2, MergedFacts
<1>7. TypeOK'
  <2>1. view' \subseteq MessageIds \X (1..(now'))
    BY <1>1, <1>2, <1>6 DEF IInv, TypeOK
  <2>2. \A x, y \in view' : x[1] = y[1] => x = y
    BY <1>1, <1>2, MergedFacts
  <2>3. QED
    BY <1>1, <1>4, <2>1, <2>2 DEF IInv, TypeOK, Message, DeleteEvent, IdsOf
<1>8. NoneNewer(view)'
  BY <1>1, <1>2, <1>6 DEF IInv, NoneNewer
<1>9. NothingSkipped'
  <2>1. ASSUME NEW m \in messages, LastChange(m) < newest'
        PROVE  Shown(m) \in view' \/ m.id \in cut
    <3>1. LastChange(m) \in Nat /\ newest \in Nat /\ now \in Nat
      BY MessageFacts, RequestFacts
    <3>2. Shown(m) \in view \cup found \/ m.id \in cut
      <4>1. CASE LastChange(m) < newest
        BY <4>1 DEF IInv, NothingSkipped
      <4>2. CASE newest <= LastChange(m)
        <5>1. request[r].op = "pull" /\ NewestOf(found) # newest /\ newest' = NewestOf(found)
          BY <1>1, <1>3, <2>1, <3>1, <4>2
        <5>2. PICK x \in found : newest' = x[2]
          BY <1>3, <5>1
        <5>3. QED
          BY <1>2, <2>1, <4>2, <5>1, <5>2 DEF NoGap
      <4>3. QED
        BY <3>1, <4>1, <4>2
    <3>3. Shown(m)[1] \notin gone
      BY <1>2, MessageFacts DEF Shown
    <3>4. QED
      BY <1>1, <1>2, <3>2, <3>3, MergedFacts
  <2>2. QED
    BY <1>1, <2>1 DEF NothingSkipped
<1>10. QED
  BY <1>1, <1>5, <1>7, <1>8, <1>9, FreeIsInformed, ClientKeeps DEF IInv

-----------------------------------------------------------------------------
(* The theorems *)

\* The invariant holds of what a process starts with.
LEMMA InitIInv ==
  ASSUME Init
  PROVE  IInv
<1>1. IsFiniteSet(events) /\ IsFiniteSet(deleted) /\ now = 1 /\ 1 <= MaxTime
  BY FS_EmptySet, ReadsAssumption DEF Init
<1>2. TypeOK /\ NoneNewer(view) /\ NothingSkipped
  BY <1>1, ReadsAssumption DEF Init, TypeOK, NoneNewer, NothingSkipped
<1>3. Free \in RequestState /\ Informed(Free)
  BY DEF Init, Free, Informed, RequestState, NoneNewer, NoGap, DeletesRead
<1>4. QED
  BY <1>1, <1>2, <1>3 DEF Init, IInv

\* No step breaks the invariant: one case per action of Next.
LEMMA StepKeepsIInv ==
  ASSUME IInv, [Next]_vars
  PROVE  IInv'
<1>1. ASSUME NEW id \in MessageIds, Send(id) \/ DeleteMessage(id)
      PROVE  IInv'
  BY <1>1, SendKeepsIInv, DeleteKeepsIInv
<1>2. ASSUME NEW m \in messages, Edit(m)
      PROVE  IInv'
  BY <1>2, EditKeepsIInv
<1>3. ASSUME NEW r \in Requests,
             \/ AskPull(r) \/ AskHistory(r) \/ ReadMessages(r) \/ ReadDeletes(r)
             \/ ReadAllDeletes(r) \/ ReadHistory(r) \/ Apply(r) \/ LoseAnswer(r)
      PROVE  IInv'
  <2>1. CASE AskPull(r)
    BY <2>1, EventFacts, AskKeepsIInv DEF AskPull
  <2>2. CASE AskHistory(r)
    BY <2>2, EventFacts, AskKeepsIInv DEF AskHistory
  <2>3. QED
    BY <1>3, <2>1, <2>2, ReadMessagesKeepsIInv, ReadDeletesKeepsIInv, ReadAllDeletesKeepsIInv,
       ReadHistoryKeepsIInv, ApplyKeepsIInv, LoseAnswerKeepsIInv
<1>4. CASE Tick
  BY <1>4, TickKeepsIInv
<1>5. CASE UNCHANGED vars
  <2>1. UNCHANGED <<now, messages, events, deleted, request, view, newest, cut>>
    BY <1>5 DEF vars, client
  <2>2. EveryDeleteEvent' = EveryDeleteEvent
    BY <2>1 DEF EveryDeleteEvent, DeleteEvents
  <2>3. ServerMove
    BY <2>1, <2>2 DEF ServerMove
  <2>4. TypeOK'
    BY <2>1 DEF IInv, TypeOK, Message, DeleteEvent, IdsOf
  <2>5. QED
    BY <2>1, <2>3, <2>4, ServerKeeps DEF IInv
<1>6. QED
  BY <1>1, <1>2, <1>3, <1>4, <1>5 DEF Next

\* The invariant holds in every state.
THEOREM AlwaysIInv == Spec => []IInv
<1>1. Init => IInv
  BY InitIInv
<1>2. IInv /\ [Next]_vars => IInv'
  BY StepKeepsIInv
<1>3. QED
  BY <1>1, <1>2, PTL DEF Spec

\* A message is stored or deleted, never both, and the view has one version of it.
THEOREM TypeCorrect == Spec => []TypeOK
<1>1. IInv => TypeOK
  BY DEF IInv
<1>2. QED
  BY <1>1, AlwaysIInv, PTL

\* Pulls that ask from just before the newest event miss nothing older: a message
\* is in the view as it is stored, unless a pull had no room for it, whatever the
\* order in which answers arrive, and however many are lost.
THEOREM PullsMissNothing == Spec => []NothingSkipped
<1>1. IInv => NothingSkipped
  BY DEF IInv
<1>2. QED
  BY <1>1, AlwaysIInv, PTL

\* An answer takes every message out of the view whose deletion came before its
\* request and is still listed, for handlers that read it at any later instant.
THEOREM DeletionsAreSeen == Spec => DeletionsReachTheView
<1> DEFINE Reached ==
      \A r \in Requests :
        request[r].pc = "answer" /\ request'[r].pc = "free" =>
          \A x \in view' : x[1] \notin Listed(r)
<1>1. ASSUME IInv, Next
      PROVE  Reached
  <2> SUFFICES ASSUME NEW r \in Requests,
                      request[r].pc = "answer", request'[r].pc = "free"
               PROVE  \A x \in view' : x[1] \notin Listed(r)
    OBVIOUS
  <2>1. Apply(r)
    <3>1. request \in [Requests -> RequestState] /\ request' # request
      BY <1>1 DEF IInv
    <3>2. PICK q \in Requests :
            \/ AskPull(q) \/ AskHistory(q) \/ ReadMessages(q) \/ ReadDeletes(q)
            \/ ReadAllDeletes(q) \/ ReadHistory(q) \/ Apply(q) \/ LoseAnswer(q)
      BY <1>1, <3>1 DEF Next, Send, DeleteMessage, Edit, Tick, client
    <3>3. \E fields : Step(q, fields)
      BY <3>2 DEF AskPull, AskHistory, Ask, ReadMessages, ReadDeletes, ReadAllDeletes,
                  ReadHistory, Apply, LoseAnswer
    <3>4. q = r
      BY <3>1, <3>3 DEF Step
    <3>5. QED
      BY <3>2, <3>4 DEF AskPull, AskHistory, Ask, ReadMessages, ReadDeletes, ReadAllDeletes,
                        ReadHistory, LoseAnswer
  <2>2. \A x \in view' : x[1] \notin request[r].gone
    BY <2>1 DEF Apply
  <2>3. Listed(r) \subseteq request[r].gone
    BY <1>1, RequestFacts DEF Informed, DeletesRead, Listed
  <2>4. QED
    BY <2>2, <2>3
<1>2. IInv /\ [Next]_vars => [Reached]_vars
  BY <1>1
<1>3. QED
  BY <1>2, AlwaysIInv, PTL DEF Spec, DeletionsReachTheView
=============================================================================
