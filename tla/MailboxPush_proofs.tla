------------------------- MODULE MailboxPush_proofs -------------------------
(***************************************************************************)
(* Proofs about MailboxPush, for both stores, any batches, any number of   *)
(* handlers and every size and lifetime of the store.                      *)
(***************************************************************************)
EXTENDS MailboxPush, SequenceTheorems, TLAPS

-----------------------------------------------------------------------------
(* The inductive invariant *)

HandlerState ==
  [pc : {"idle", "next", "add", "set", "tell"}, batch : Batches \cup {NoBatch},
   since : Nat, next : Nat \ {0}, msg : Nat, made : Seq(Nat)]

AtSendable(h) ==
  /\ handler[h].next \in DOMAIN Admitted(handler[h].batch)
  /\ Item(h).verdict = "sendable"

\* A handler that is at work has a batch, and is at one of its sendable items
\* from the lookup to the broadcast.
HandlersBusy ==
  /\ handler \in [Handlers -> HandlerState]
  /\ \A h \in Handlers :
       /\ handler[h].pc # "idle" => handler[h].batch \in Batches
       /\ handler[h].pc \in {"add", "set", "tell"} => AtSendable(h)
       /\ handler[h].pc = "set" => Item(h).cid # NoId

Carries(h) == handler[h].pc \in {"set", "tell"}

\* The message a handler carries is of its item, its own, and not yet told.
MessagesNew ==
  /\ \A h \in Handlers : Carries(h) =>
       /\ handler[h].msg \in DOMAIN stored
       /\ stored[handler[h].msg] = ItemKey(h)
       /\ handler[h].msg \notin told
  /\ \A g, h \in Handlers :
       Carries(g) /\ Carries(h) /\ g # h => handler[g].msg # handler[h].msg

\* A row leads to a stored message of its key.
RowsStand == \A row \in rows : row.msg \in DOMAIN stored /\ stored[row.msg] = row.key

Keyed(key) == key[2] # NoId

\* Two handlers that both looked a key up in vain have excused it,
RacesExcused ==
  \A g, h \in Handlers :
     /\ g # h /\ handler[g].pc \in {"add", "set"} /\ handler[h].pc \in {"add", "set"}
     /\ ItemKey(g) = ItemKey(h) /\ Keyed(ItemKey(h))
     => ItemKey(h) \in excused

\* so has one that is about to store what is stored already,
AddsExcused ==
  \A h \in Handlers, m \in DOMAIN stored :
     handler[h].pc = "add" /\ Keyed(ItemKey(h)) /\ stored[m] = ItemKey(h)
       => ItemKey(h) \in excused

\* and what is stored has its row, or a handler about to write it.
StoredRemembered ==
  \A m \in DOMAIN stored : Keyed(stored[m]) =>
     \/ stored[m] \in excused \cup KeysIn(rows)
     \/ \E h \in Handlers : handler[h].pc = "set" /\ ItemKey(h) = stored[m]

\* "made" lists one message per sendable item of the batch before "upto".
ListsUpTo(b, made, upto) ==
  LET batch    == Admitted(b)
      sendable == {i \in DOMAIN batch : i < upto /\ batch[i].verdict = "sendable"}
  IN \E place \in [DOMAIN made -> sendable] :
       /\ \A m, n \in DOMAIN made : m < n => place[m] < place[n]
       /\ \A i \in sendable : \E n \in DOMAIN made : place[n] = i
       /\ \A n \in DOMAIN made : stored[made[n]] = KeyOf(b, batch[place[n]])

HandlersList ==
  \A h \in Handlers : handler[h].pc # "idle" =>
     ListsUpTo(handler[h].batch, handler[h].made, handler[h].next)

AnswersKnown ==
  \A a \in answers : a.batch \in Batches /\ a.made \in Seq(1..Len(stored))

IInv ==
  /\ TypeOK
  /\ HandlersBusy
  /\ MessagesNew
  /\ RowsStand
  /\ RacesExcused
  /\ AddsExcused
  /\ StoredRemembered
  /\ SecondCopyIsExcused
  /\ HandlersList
  /\ AnswersKnown
  /\ AnswerMatchesBatch

-----------------------------------------------------------------------------
(* Facts about the operators *)

\* The admitted items of a batch are a sequence, and their keys are store keys.
LEMMA AdmittedFacts ==
  ASSUME NEW b \in Batches
  PROVE  /\ Len(Admitted(b)) \in Nat
         /\ DOMAIN Admitted(b) = 1..Len(Admitted(b))
         /\ \A n \in DOMAIN Admitted(b) : /\ KeyOf(b, Admitted(b)[n]) \in Keys
                                          /\ Admitted(b)[n].verdict \in Verdicts
<1> DEFINE T   == {b.items[n] : n \in DOMAIN b.items}
           top == IF Len(b.items) < BatchMax THEN Len(b.items) ELSE BatchMax
<1>1. /\ b.items \in Seq(T) /\ BatchMax \in Nat
      /\ \A n \in DOMAIN b.items : b.items[n].verdict \in Verdicts
  BY BatchesAssumption, LimitsAssumption DEF BatchShape
<1>2. /\ Len(b.items) \in Nat /\ DOMAIN b.items = 1..Len(b.items)
  BY <1>1, LenProperties
<1>3. /\ top \in Int /\ \A i \in 1..top : i \in DOMAIN b.items
  BY <1>1, <1>2
<1>4. Admitted(b) = SubSeq(b.items, 1, top)
  BY DEF Admitted
<1> HIDE DEF top
<1>5. Admitted(b) \in Seq(T)
  BY <1>3, <1>4, SubSeqProperties
<1>6. /\ Len(Admitted(b)) \in Nat /\ DOMAIN Admitted(b) = 1..Len(Admitted(b))
      /\ Admitted(b) \in [1..Len(Admitted(b)) -> T]
  BY <1>5, LenProperties
<1>7. \A n \in DOMAIN Admitted(b) : Admitted(b)[n] \in T
  BY <1>6
<1>8. \A n \in DOMAIN Admitted(b) : KeyOf(b, Admitted(b)[n]) \in Keys
  BY DEF Keys, ItemsOf
<1>9. QED
  BY <1>1, <1>6, <1>7, <1>8

\* Two Appends: to the stored messages and to the messages of an answer.
LEMMA AppendFacts ==
  ASSUME NEW S, NEW seq \in Seq(S), NEW x
  PROVE  /\ Len(Append(seq, x)) = Len(seq) + 1 /\ Len(seq) \in Nat
         /\ DOMAIN seq = 1..Len(seq) /\ DOMAIN Append(seq, x) = 1..(Len(seq) + 1)
         /\ \A n \in 1..Len(seq) : Append(seq, x)[n] = seq[n]
         /\ Append(seq, x)[Len(seq) + 1] = x
<1>1. seq \in Seq(S \cup {x})
  BY SeqMonotonic
<1>2. Append(seq, x) \in Seq(S \cup {x})
  BY <1>1, AppendProperties
<1>3. QED
  BY <1>1, <1>2, AppendProperties, LenProperties

\* An item that is passed over adds nothing to the answer.
LEMMA ListsSkip ==
  ASSUME NEW b \in Batches, NEW made, NEW n \in DOMAIN Admitted(b),
         ListsUpTo(b, made, n), Admitted(b)[n].verdict # "sendable"
  PROVE  ListsUpTo(b, made, n + 1)
<1>1. {i \in DOMAIN Admitted(b) : i < n + 1 /\ Admitted(b)[i].verdict = "sendable"}
        = {i \in DOMAIN Admitted(b) : i < n /\ Admitted(b)[i].verdict = "sendable"}
  BY AdmittedFacts
<1>2. QED
  BY <1>1 DEF ListsUpTo

\* A sendable item adds one message of its key.
LEMMA ListsAppend ==
  ASSUME NEW b \in Batches, NEW made \in Seq(Nat), NEW n \in DOMAIN Admitted(b), NEW m \in Nat,
         ListsUpTo(b, made, n), Admitted(b)[n].verdict = "sendable",
         stored[m] = KeyOf(b, Admitted(b)[n])
  PROVE  ListsUpTo(b, Append(made, m), n + 1)
<1> DEFINE batch  == Admitted(b)
           before == {i \in DOMAIN batch : i < n /\ batch[i].verdict = "sendable"}
           after  == {i \in DOMAIN batch : i < n + 1 /\ batch[i].verdict = "sendable"}
           more   == Append(made, m)
           last   == Len(made) + 1
<1>1. PICK place \in [DOMAIN made -> before] :
        /\ \A j, k \in DOMAIN made : j < k => place[j] < place[k]
        /\ \A i \in before : \E k \in DOMAIN made : place[k] = i
        /\ \A k \in DOMAIN made : stored[made[k]] = KeyOf(b, batch[place[k]])
  BY DEF ListsUpTo
<1>2. /\ Len(made) \in Nat /\ DOMAIN made = 1..Len(made) /\ DOMAIN more = 1..last
      /\ \A k \in DOMAIN made : more[k] = made[k]
      /\ more[last] = m
  BY AppendFacts
<1>3. /\ DOMAIN batch = 1..Len(batch) /\ Len(batch) \in Nat
  BY AdmittedFacts
<1>4. after = before \cup {n}
  BY <1>3
<1> DEFINE longer == [k \in 1..last |-> IF k = last THEN n ELSE place[k]]
<1>5. \A k \in before : k \in Nat /\ k < n
  BY <1>3
<1> HIDE DEF batch, before, after, more
<1>6. longer \in [DOMAIN more -> after]
  BY <1>2, <1>4
<1>7. /\ \A k \in DOMAIN made : longer[k] = place[k] /\ k # last
      /\ longer[last] = n
      /\ DOMAIN more = DOMAIN made \cup {last}
  BY <1>2
<1>8. \A j, k \in DOMAIN more : j < k => longer[j] < longer[k]
  <2> SUFFICES ASSUME NEW j \in DOMAIN more, NEW k \in DOMAIN more, j < k
               PROVE  longer[j] < longer[k]
    OBVIOUS
  <2>1. j \in DOMAIN made
    BY <1>2
  <2>2. longer[j] = place[j] /\ place[j] < n
    BY <1>1, <1>5, <1>7, <2>1
  <2>3. CASE k = last
    BY <1>7, <2>2, <2>3
  <2>4. CASE k \in DOMAIN made
    BY <1>1, <1>7, <2>1, <2>4
  <2>5. QED
    BY <1>7, <2>3, <2>4
<1>9. \A i \in after : \E k \in DOMAIN more : longer[k] = i
  BY <1>1, <1>4, <1>7
<1>10. \A k \in DOMAIN more : stored[more[k]] = KeyOf(b, batch[longer[k]])
  BY <1>1, <1>2, <1>7 DEF batch
<1> HIDE DEF longer
<1>11. QED
  BY <1>6, <1>8, <1>9, <1>10 DEF ListsUpTo, batch, after, more

\* What is listed stays listed when another message is stored.
LEMMA ListsStored ==
  ASSUME NEW b, NEW made, NEW upto, ListsUpTo(b, made, upto),
         \A n \in DOMAIN made : stored'[made[n]] = stored[made[n]]
  PROVE  ListsUpTo(b, made, upto)'
BY DEF ListsUpTo

\* What AnswerMatchesBatch asks of one answer.
Matches(b, made) ==
  LET batch    == Admitted(b)
      sendable == {i \in DOMAIN batch : batch[i].verdict = "sendable"}
  IN \E place \in [DOMAIN made -> sendable] :
       /\ \A m, n \in DOMAIN made : m < n => place[m] < place[n]
       /\ \A i \in sendable : \E n \in DOMAIN made : place[n] = i
       /\ \A n \in DOMAIN made : stored[made[n]] = <<b.sender, batch[place[n]].cid>>

\* The property of the answers, by the operator that states it of one.
LEMMA AnswersMatch ==
  AnswerMatchesBatch <=> \A a \in answers : a.status = "ok" => Matches(a.batch, a.made)
BY DEF AnswerMatchesBatch, Matches

\* An answer that matches its batch does so for as long as its messages stay.
LEMMA MatchesStored ==
  ASSUME NEW b, NEW made, Matches(b, made),
         \A n \in DOMAIN made : stored'[made[n]] = stored[made[n]]
  PROVE  Matches(b, made)'
BY DEF Matches

\* What lists every item of the batch matches it.
LEMMA ListsAll ==
  ASSUME NEW b \in Batches, NEW made, NEW upto \in Nat, ListsUpTo(b, made, upto),
         ~ (upto <= Len(Admitted(b)))
  PROVE  Matches(b, made)
<1>1. {i \in DOMAIN Admitted(b) : i < upto /\ Admitted(b)[i].verdict = "sendable"}
        = {i \in DOMAIN Admitted(b) : Admitted(b)[i].verdict = "sendable"}
  BY AdmittedFacts
<1>2. QED
  BY <1>1 DEF ListsUpTo, KeyOf, Matches

\* Sweeping and trimming only delete.
LEMMA StoresShrink ==
  /\ \A t : Live(rows, t) \subseteq rows /\ SweptBy(t) \subseteq rows
  /\ \A rs : Trim(rs) \subseteq rs
BY DEF Live, SweptBy, Trim

\* A set adds one row under its key, and drops no other key.
LEMMA PutFacts ==
  ASSUME TypeOK, NEW rs \in SUBSET rows, NEW key \in Keys, NEW msg \in Nat \ {0}
  PROVE  /\ Put(rs, key, msg) \subseteq Row
         /\ KeysIn(Put(rs, key, msg)) = KeysIn(rs) \cup {key}
         /\ \A row \in Put(rs, key, msg) : row \in rs \/ (row.key = key /\ row.msg = msg)
<1> DEFINE old == {row \in rs : row.key = key}
           at  == IF old = {} THEN inserted ELSE (CHOOSE row \in old : TRUE).at
           new == [key |-> key, msg |-> msg, expiresAt |-> now + TtlMs, at |-> at]
<1>1. at \in Nat
  <2>1. CASE old = {}
    BY <2>1 DEF TypeOK
  <2>2. CASE old # {}
    <3>1. (CHOOSE row \in old : TRUE) \in old
      BY <2>2
    <3>2. (CHOOSE row \in old : TRUE) \in Row
      BY <3>1 DEF TypeOK
    <3>3. QED
      BY <2>2, <3>2 DEF Row
  <2>3. QED
    BY <2>1, <2>2
<1> HIDE DEF at
<1>2. new \in Row /\ new.key = key /\ new.msg = msg
  BY <1>1, LimitsAssumption DEF TypeOK, Row
<1>3. Put(rs, key, msg) = (rs \ old) \cup {new}
  BY DEF Put, at
<1> HIDE DEF new
<1>4. KeysIn((rs \ old) \cup {new}) = KeysIn(rs) \cup {key}
  BY <1>2 DEF KeysIn
<1>5. QED
  BY <1>2, <1>3, <1>4 DEF TypeOK

\* What a handler that is at an item knows of it.
LEMMA ItemFacts ==
  ASSUME HandlersBusy, NEW h \in Handlers, handler[h].pc # "idle",
         handler[h].next \in DOMAIN Admitted(handler[h].batch)
  PROVE  /\ handler[h].batch \in Batches
         /\ ItemKey(h) = KeyOf(handler[h].batch, Item(h))
         /\ ItemKey(h) \in Keys
         /\ Item(h).verdict \in Verdicts
         /\ (Keyed(ItemKey(h)) <=> Item(h).cid # NoId)
BY AdmittedFacts DEF HandlersBusy, ItemKey, Item, Keyed, KeyOf

-----------------------------------------------------------------------------
(* Steps that store nothing *)

\* The handlers stay where they are, are through with their item, or have
\* just remembered the message they carry; nothing stored becomes unknown.
QuietStep ==
  /\ stored' = stored
  /\ excused \subseteq excused'
  /\ \A h \in Handlers :
       \/ handler'[h] = handler[h]
       \/ handler'[h].pc \in {"idle", "next"}
       \/ /\ Carries(h) /\ handler'[h].pc = "tell"
          /\ handler'[h].msg = handler[h].msg /\ ItemKey(h)' = ItemKey(h)
  /\ \A h \in Handlers : Carries(h)' => handler[h].msg \notin told'
  /\ \A h \in Handlers :
       handler[h].pc = "set" /\ Keyed(ItemKey(h)) =>
          handler'[h] = handler[h] \/ ItemKey(h) \in excused' \cup KeysIn(rows')
  /\ KeysIn(rows) \subseteq excused' \cup KeysIn(rows')

\* A step that neither stores nor remembers keeps what is known of the messages.
LEMMA QuietStepKeeps ==
  ASSUME IInv, QuietStep
  PROVE  /\ MessagesNew' /\ RacesExcused' /\ AddsExcused'
         /\ StoredRemembered' /\ SecondCopyIsExcused'
<1>1. \A h \in Handlers : handler'[h] = handler[h] => ItemKey(h)' = ItemKey(h)
  BY DEF ItemKey, Item
<1>2. \A h \in Handlers : handler'[h].pc \in {"add", "set"} => handler'[h] = handler[h]
  BY DEF QuietStep
<1>3. \A h \in Handlers : Carries(h)' => /\ Carries(h) /\ handler'[h].msg = handler[h].msg
                                         /\ ItemKey(h)' = ItemKey(h)
  BY <1>1 DEF QuietStep, Carries
<1>4. MessagesNew'
  BY <1>3 DEF QuietStep, IInv, MessagesNew
<1>5. RacesExcused'
  BY <1>1, <1>2 DEF QuietStep, IInv, RacesExcused
<1>6. AddsExcused'
  BY <1>1, <1>2 DEF QuietStep, IInv, AddsExcused
<1>7. StoredRemembered'
  <2> SUFFICES ASSUME NEW m \in DOMAIN stored, Keyed(stored[m])
               PROVE  \/ stored[m] \in excused' \cup KeysIn(rows')
                      \/ \E h \in Handlers : handler'[h].pc = "set" /\ ItemKey(h)' = stored[m]
    BY DEF QuietStep, StoredRemembered
  <2>1. CASE stored[m] \in excused \cup KeysIn(rows)
    BY <2>1 DEF QuietStep
  <2>2. ASSUME NEW h \in Handlers, handler[h].pc = "set", ItemKey(h) = stored[m]
        PROVE  \/ stored[m] \in excused' \cup KeysIn(rows')
               \/ handler'[h].pc = "set" /\ ItemKey(h)' = stored[m]
    BY <1>1, <2>2 DEF QuietStep
  <2>3. QED
    BY <2>1, <2>2 DEF IInv, StoredRemembered
<1>8. SecondCopyIsExcused'
  BY DEF QuietStep, IInv, SecondCopyIsExcused
<1>9. QED
  BY <1>4, <1>5, <1>6, <1>7, <1>8

\* The numbers in a handler's record are within what exists.
HandlersBound ==
  \A h \in Handlers :
    /\ handler[h].since \in 0..now
    /\ handler[h].msg \in 0..Len(stored)
    /\ handler[h].made \in Seq(1..Len(stored))

\* What the invariant asks of the record of one handler.
GoodState(new) ==
  /\ new \in HandlerState
  /\ new.since \in 0..now
  /\ new.msg \in 0..Len(stored)
  /\ new.made \in Seq(1..Len(stored))
  /\ new.pc # "idle" => /\ new.batch \in Batches
                        /\ ListsUpTo(new.batch, new.made, new.next)
  /\ new.pc \in {"add", "set", "tell"} =>
       /\ new.next \in DOMAIN Admitted(new.batch)
       /\ Admitted(new.batch)[new.next].verdict = "sendable"
  /\ new.pc = "set" => Admitted(new.batch)[new.next].cid # NoId

\* The invariant, read of one handler.
LEMMA GoodHandlers ==
  ASSUME IInv, NEW h \in Handlers
  PROVE  GoodState(handler[h])
BY DEF IInv, TypeOK, HandlersBusy, HandlersList, GoodState, AtSendable, Item

\* An idle handler has nothing to account for.
LEMMA IdleIsGood == ASSUME IInv PROVE GoodState(IdleHandler)
<1>1. <<>> \in Seq(Nat) /\ <<>> \in Seq(1..Len(stored))
  BY EmptySeq
<1>2. stored \in Seq(Keys) /\ now \in Nat
  BY DEF IInv, TypeOK
<1>3. Len(stored) \in Nat
  BY <1>2, LenProperties
<1>4. QED
  BY <1>1, <1>2, <1>3 DEF GoodState, IdleHandler, HandlerState, NoBatch

\* Time and the stored messages only grow, by one.
Onward ==
  /\ now' \in {now, now + 1}
  /\ stored' = stored \/ \E key \in Keys : stored' = Append(stored, key)

\* Stored messages keep their places.
LEMMA StoredGrows ==
  ASSUME IInv, Onward
  PROVE  /\ Len(stored) \in Nat /\ Len(stored') \in Nat /\ Len(stored) <= Len(stored')
         /\ stored' \in Seq(Keys)
         /\ DOMAIN stored = 1..Len(stored) /\ DOMAIN stored' = 1..Len(stored')
         /\ \A n \in 1..Len(stored) : stored'[n] = stored[n]
<1>1. stored \in Seq(Keys)
  BY DEF IInv, TypeOK
<1>2. CASE stored' = stored
  BY <1>1, <1>2, LenProperties
<1>3. ASSUME NEW key \in Keys, stored' = Append(stored, key)
      PROVE  /\ Len(stored) \in Nat /\ Len(stored') \in Nat /\ Len(stored) <= Len(stored')
             /\ stored' \in Seq(Keys)
             /\ DOMAIN stored = 1..Len(stored) /\ DOMAIN stored' = 1..Len(stored')
             /\ \A n \in 1..Len(stored) : stored'[n] = stored[n]
  BY <1>1, <1>3, AppendFacts, AppendProperties
<1>4. QED
  BY <1>2, <1>3 DEF Onward

\* A good record stays good.
LEMMA GoodStays ==
  ASSUME IInv, Onward, NEW new, GoodState(new)
  PROVE  GoodState(new)'
<1>1. /\ new \in HandlerState /\ new.since \in 0..now /\ new.msg \in 0..Len(stored)
      /\ new.made \in Seq(1..Len(stored))
  BY DEF GoodState
<1>2. new.since \in 0..now' /\ new.msg \in 0..Len(stored')
  BY <1>1, StoredGrows DEF Onward, IInv, TypeOK
<1>3. 1..Len(stored) \subseteq 1..Len(stored')
  BY StoredGrows
<1>4. new.made \in Seq(1..Len(stored'))
  BY <1>1, <1>3, SeqMonotonic
<1>5. \A n \in DOMAIN new.made : stored'[new.made[n]] = stored[new.made[n]]
  BY <1>1, StoredGrows, ElementOfSeq, LenProperties
<1>6. ASSUME new.pc # "idle" PROVE ListsUpTo(new.batch, new.made, new.next)'
  BY <1>5, <1>6, ListsStored DEF GoodState
<1>7. QED
  BY <1>1, <1>2, <1>4, <1>6 DEF GoodState

\* If each handler's new record is good, so are the handlers.
LEMMA HandlersMove ==
  ASSUME NEW new, handler' = [h \in Handlers |-> new[h]],
         \A h \in Handlers : GoodState(new[h])'
  PROVE  HandlersBusy' /\ HandlersList' /\ HandlersBound'
<1>1. \A h \in Handlers : handler'[h] = new[h]
  OBVIOUS
<1>2. handler' \in [Handlers -> HandlerState]
  BY DEF GoodState
<1>3. HandlersBusy' /\ HandlersBound'
  BY <1>1, <1>2 DEF HandlersBusy, HandlersBound, GoodState, AtSendable, Item
<1>4. HandlersList'
  BY <1>1 DEF HandlersList, GoodState
<1>5. QED
  BY <1>3, <1>4

\* Handlers that stay are as good as before.
LEMMA HandlersStay ==
  ASSUME IInv, Onward, handler' = handler
  PROVE  HandlersBusy' /\ HandlersList' /\ HandlersBound'
<1>1. handler' = [h \in Handlers |-> handler[h]]
  BY DEF IInv, HandlersBusy
<1>2. \A h \in Handlers : GoodState(handler[h])'
  BY GoodHandlers, GoodStays
<1>3. QED
  BY <1>1, <1>2, HandlersMove

\* One handler moves and the others stay.
LEMMA HandlerMoves ==
  ASSUME IInv, Onward,
         NEW h \in Handlers, NEW new, handler' = [handler EXCEPT ![h] = new],
         GoodState(new) \/ GoodState(new)'
  PROVE  /\ HandlersBusy' /\ HandlersList' /\ HandlersBound'
         /\ handler'[h] = new
         /\ \A g \in Handlers : g # h => handler'[g] = handler[g]
<1> DEFINE all == [g \in Handlers |-> IF g = h THEN new ELSE handler[g]]
<1>1. handler' = [g \in Handlers |-> all[g]]
  BY DEF IInv, HandlersBusy
<1>2. \A g \in Handlers : GoodState(all[g])'
  BY GoodHandlers, GoodStays
<1>3. HandlersBusy' /\ HandlersList' /\ HandlersBound'
  BY <1>1, <1>2, HandlersMove
<1>4. QED
  BY <1>1, <1>3

\* Answers keep matching, whatever is stored.
LEMMA AnswersStay ==
  ASSUME IInv, Onward, UNCHANGED answers
  PROVE  AnswersKnown' /\ AnswerMatchesBatch'
<1>1. AnswersKnown'
  <2>1. 1..Len(stored) \subseteq 1..Len(stored')
    BY StoredGrows
  <2>2. QED
    BY <2>1, SeqMonotonic DEF IInv, AnswersKnown
<1>2. \A a \in answers : \A n \in DOMAIN a.made : stored'[a.made[n]] = stored[a.made[n]]
  BY StoredGrows, ElementOfSeq, LenProperties DEF IInv, AnswersKnown
<1>3. AnswerMatchesBatch'
  <2>1. \A a \in answers : a.status = "ok" => Matches(a.batch, a.made)'
    BY <1>2, AnswersMatch, MatchesStored DEF IInv
  <2>2. AnswerMatchesBatch' <=> (\A a \in answers : a.status = "ok" => Matches(a.batch, a.made))'
    BY AnswersMatch, PTL
  <2>3. QED
    BY <2>1, <2>2
<1>4. QED
  BY <1>1, <1>3

\* A request comes in.
LEMMA ReceiveKeepsIInv ==
  ASSUME IInv, NEW h \in Handlers, NEW b \in Batches, Receive(h, b)
  PROVE  IInv'
<1> DEFINE new == [IdleHandler EXCEPT !.pc = "next", !.batch = b, !.since = now]
<1>1. /\ handler[h].pc = "idle" /\ pushes < MaxPushes /\ pushes' = pushes + 1
      /\ handler' = [handler EXCEPT ![h] = new]
      /\ UNCHANGED <<now, rows, inserted, stored, told, answers, excused, silenced, faults>>
  BY DEF Receive
<1>2. GoodState(new)
  <2>1. /\ new.pc = "next" /\ new.batch = b /\ new.since = now
        /\ new.next = 1 /\ new.msg = 0 /\ new.made = <<>> /\ new \in HandlerState
    <3>1. /\ IdleHandler \in HandlerState /\ now \in Nat
          /\ IdleHandler.next = 1 /\ IdleHandler.msg = 0 /\ IdleHandler.made = <<>>
      BY IdleIsGood DEF GoodState, IdleHandler, IInv, TypeOK
    <3>2. QED
      BY <3>1 DEF HandlerState
  <2>2. now \in Nat
    BY DEF IInv, TypeOK
  <2>3. ListsUpTo(b, <<>>, 1)
    <3>1. \A i \in DOMAIN Admitted(b) : ~ (i < 1)
      BY AdmittedFacts
    <3>2. DOMAIN <<>> = {}
      OBVIOUS
    <3>3. <<>> \in [{} -> {i \in DOMAIN Admitted(b) :
                             i < 1 /\ Admitted(b)[i].verdict = "sendable"}]
      OBVIOUS
    <3>4. QED
      BY <3>1, <3>2, <3>3 DEF ListsUpTo
  <2>4. <<>> \in Seq(Nat) /\ <<>> \in Seq(1..Len(stored)) /\ 0 \in 0..Len(stored)
    BY IdleIsGood DEF GoodState, HandlerState, IdleHandler
  <2>5. QED
    <3> HIDE DEF new
    <3>1. QED
      BY <2>1, <2>2, <2>3, <2>4 DEF GoodState
<1>3. new.pc = "next"
  BY IdleIsGood DEF GoodState, HandlerState
<1> HIDE DEF new
<1>4. /\ HandlersBusy' /\ HandlersList' /\ HandlersBound' /\ handler'[h] = new
      /\ \A g \in Handlers : g # h => handler'[g] = handler[g]
  BY <1>1, <1>2, HandlerMoves DEF Onward
<1>5. QuietStep
  BY <1>1, <1>3, <1>4 DEF QuietStep, Carries, IInv, MessagesNew
<1>6. TypeOK'
  BY <1>1, <1>4, LimitsAssumption DEF IInv, TypeOK, HandlersBusy, HandlersBound, HandlerState
<1>7. RowsStand'
  BY <1>1 DEF IInv, RowsStand
<1>8. QED
  BY <1>1, <1>4, <1>5, <1>6, <1>7, QuietStepKeeps, AnswersStay DEF IInv, Onward

\* An item is passed over.
LEMMA SkipKeepsIInv ==
  ASSUME IInv, NEW h \in Handlers, SkipItem(h)
  PROVE  IInv'
<1> DEFINE new == [handler[h] EXCEPT !.next = @ + 1]
<1>1. /\ handler[h].pc = "next" /\ MoreItems(h) /\ Item(h).verdict = "skipped"
      /\ handler' = [handler EXCEPT ![h].next = @ + 1]
      /\ UNCHANGED <<now, rows, inserted, stored, told, answers, excused, silenced, pushes,
                     faults>>
  BY DEF SkipItem, AtItem
<1>2. /\ new.pc = "next" /\ new.next = handler[h].next + 1 /\ new \in HandlerState
      /\ new.batch = handler[h].batch /\ new.since = handler[h].since
      /\ new.msg = handler[h].msg /\ new.made = handler[h].made
      /\ handler' = [handler EXCEPT ![h] = new]
  <2>1. handler \in [Handlers -> HandlerState] /\ handler[h] \in HandlerState
    BY DEF IInv, HandlersBusy
  <2>2. handler[h].next + 1 \in Nat \ {0}
    BY <2>1 DEF HandlerState
  <2>3. QED
    BY <1>1, <2>1, <2>2 DEF HandlerState
<1> HIDE DEF new
<1>3. GoodState(new)
  <2>1. handler[h].next \in DOMAIN Admitted(handler[h].batch)
    BY <1>1, AdmittedFacts DEF IInv, HandlersBusy, HandlerState, MoreItems
  <2>2. ListsUpTo(new.batch, new.made, new.next)
    BY <1>1, <1>2, <2>1, GoodHandlers, ListsSkip DEF GoodState, Item
  <2>3. QED
    BY <1>1, <1>2, <2>2, GoodHandlers DEF GoodState
<1>4. /\ HandlersBusy' /\ HandlersList' /\ HandlersBound' /\ handler'[h] = new
      /\ \A g \in Handlers : g # h => handler'[g] = handler[g]
  BY <1>1, <1>2, <1>3, HandlerMoves DEF Onward
<1>5. QuietStep
  BY <1>1, <1>2, <1>4 DEF QuietStep, Carries, IInv, MessagesNew
<1>6. TypeOK'
  BY <1>1, <1>4 DEF IInv, TypeOK, HandlersBusy, HandlersBound, HandlerState
<1>7. RowsStand'
  BY <1>1 DEF IInv, RowsStand
<1>8. QED
  BY <1>1, <1>4, <1>5, <1>6, <1>7, QuietStepKeeps, AnswersStay DEF IInv, Onward

\* Two facts about a handler between two items.
LEMMA AtItemFacts ==
  ASSUME IInv, NEW h \in Handlers, handler[h].pc = "next", MoreItems(h)
  PROVE  /\ handler[h].batch \in Batches
         /\ handler[h].next \in DOMAIN Admitted(handler[h].batch)
BY AdmittedFacts DEF IInv, HandlersBusy, HandlerState, MoreItems

\* A known item is answered with the message of its row.
LEMMA LookUpHitKeepsIInv ==
  ASSUME IInv, NEW h \in Handlers, NEW row \in rows, AtItem(h, "sendable"),
         row.key = ItemKey(h), LookUpHit(h, row),
         rows' \subseteq rows, excused' = excused \cup KeysIn(rows \ rows'),
         UNCHANGED <<now, inserted, stored, told, answers, silenced, pushes, faults>>
  PROVE  IInv'
<1> DEFINE new == [handler[h] EXCEPT !.made = Append(@, row.msg), !.next = @ + 1]
<1>1. /\ handler[h].pc = "next" /\ Item(h).verdict = "sendable"
      /\ handler[h].batch \in Batches
      /\ handler[h].next \in DOMAIN Admitted(handler[h].batch)
  BY AtItemFacts DEF AtItem
<1>2. row.msg \in 1..Len(stored) /\ row.msg \in Nat /\ stored[row.msg] = ItemKey(h)
  BY LenProperties DEF IInv, TypeOK, RowsStand, Row
<1>3. /\ handler[h].made \in Seq(Nat) /\ handler[h].made \in Seq(1..Len(stored))
      /\ handler[h].next \in Nat \ {0}
  BY DEF IInv, TypeOK, HandlersBusy, HandlerState
<1>4. /\ Append(handler[h].made, row.msg) \in Seq(Nat)
      /\ Append(handler[h].made, row.msg) \in Seq(1..Len(stored))
  BY <1>2, <1>3, AppendProperties
<1>5. /\ new.pc = "next" /\ new.next = handler[h].next + 1 /\ new \in HandlerState
      /\ new.batch = handler[h].batch /\ new.since = handler[h].since
      /\ new.msg = handler[h].msg /\ new.made = Append(handler[h].made, row.msg)
      /\ handler' = [handler EXCEPT ![h] = new]
  BY <1>1, <1>3, <1>4 DEF IInv, HandlersBusy, HandlerState, LookUpHit
<1> HIDE DEF new
<1>6. GoodState(new)
  <2>1. ListsUpTo(handler[h].batch, handler[h].made, handler[h].next)
    BY <1>1 DEF IInv, HandlersList
  <2>2. ListsUpTo(new.batch, new.made, new.next)
    BY <1>1, <1>2, <1>3, <1>5, <2>1, ListsAppend DEF Item, ItemKey
  <2>3. QED
    BY <1>1, <1>4, <1>5, <2>2, GoodHandlers DEF GoodState
<1>7. /\ HandlersBusy' /\ HandlersList' /\ HandlersBound' /\ handler'[h] = new
      /\ \A g \in Handlers : g # h => handler'[g] = handler[g]
  BY <1>5, <1>6, HandlerMoves DEF Onward
<1>8. QuietStep
  <2>1. KeysIn(rows) \subseteq KeysIn(rows \ rows') \cup KeysIn(rows')
    BY DEF KeysIn
  <2>2. QED
    BY <1>1, <1>5, <1>7, <2>1 DEF QuietStep, Carries, IInv, MessagesNew
<1>9. TypeOK'
  <2>1. KeysIn(rows) \subseteq Keys
    BY DEF IInv, TypeOK, Row, KeysIn
  <2>2. excused' \subseteq Keys
    BY <2>1 DEF KeysIn, IInv, TypeOK
  <2>3. QED
    BY <1>7, <2>2 DEF IInv, TypeOK, HandlersBusy, HandlersBound, HandlerState
<1>10. RowsStand'
  BY DEF IInv, RowsStand
<1>11. QED
  BY <1>7, <1>8, <1>9, <1>10, QuietStepKeeps, AnswersStay DEF IInv, Onward

\* Changing only a handler's place in its batch keeps its record well-formed.
LEMMA PcFacts ==
  ASSUME IInv, NEW h \in Handlers, NEW pc \in {"next", "add", "set", "tell"},
         handler' = [handler EXCEPT ![h].pc = pc]
  PROVE  LET new == [handler[h] EXCEPT !.pc = pc]
         IN  /\ handler' = [handler EXCEPT ![h] = new]
             /\ new \in HandlerState /\ new.pc = pc
             /\ new.batch = handler[h].batch /\ new.since = handler[h].since
             /\ new.next = handler[h].next /\ new.msg = handler[h].msg
             /\ new.made = handler[h].made
<1>1. handler \in [Handlers -> HandlerState] /\ handler[h] \in HandlerState
  BY DEF IInv, HandlersBusy
<1>2. QED
  BY <1>1 DEF HandlerState

\* A handler goes on to store its item, after a lookup in vain or without one.
LEMMA ToAddKeepsIInv ==
  ASSUME IInv, NEW h \in Handlers, AtItem(h, "sendable"),
         handler' = [handler EXCEPT ![h].pc = "add"],
         rows' \subseteq rows, KeysIn(rows) \subseteq excused' \cup KeysIn(rows'),
         excused \subseteq excused', excused' \subseteq Keys,
         Keyed(ItemKey(h)) /\ (ItemKey(h) \in KeysIn(rows) \/ InFlight(ItemKey(h)) # {})
           => ItemKey(h) \in excused',
         UNCHANGED <<now, inserted, stored, told, answers, silenced, pushes, faults>>
  PROVE  IInv'
<1> DEFINE new == [handler[h] EXCEPT !.pc = "add"]
<1>1. /\ handler[h].pc = "next" /\ Item(h).verdict = "sendable"
      /\ handler[h].batch \in Batches
      /\ handler[h].next \in DOMAIN Admitted(handler[h].batch)
  BY AtItemFacts DEF AtItem
<1>2. /\ handler' = [handler EXCEPT ![h] = new]
      /\ new \in HandlerState /\ new.pc = "add"
      /\ new.batch = handler[h].batch /\ new.since = handler[h].since
      /\ new.next = handler[h].next /\ new.msg = handler[h].msg
      /\ new.made = handler[h].made
  BY PcFacts
<1> HIDE DEF new
<1>3. GoodState(new)
  BY <1>1, <1>2, GoodHandlers DEF GoodState, Item
<1>4. /\ HandlersBusy' /\ HandlersList' /\ HandlersBound' /\ handler'[h] = new
      /\ \A g \in Handlers : g # h => handler'[g] = handler[g]
  BY <1>2, <1>3, HandlerMoves DEF Onward
<1>5. \A g \in Handlers : ItemKey(g)' = ItemKey(g)
  BY <1>2, <1>4 DEF ItemKey, Item
<1>6. MessagesNew'
  BY <1>2, <1>4, <1>5 DEF IInv, MessagesNew, Carries
<1>7. RacesExcused'
  <2>1. ASSUME NEW f \in Handlers, NEW g \in Handlers, f # g,
               handler'[f].pc \in {"add", "set"}, handler'[g].pc \in {"add", "set"},
               ItemKey(f) = ItemKey(g), Keyed(ItemKey(g))
        PROVE  ItemKey(g) \in excused'
    <3>1. CASE f # h /\ g # h
      BY <1>4, <2>1, <3>1 DEF IInv, RacesExcused
    <3>2. CASE f = h \/ g = h
      BY <1>4, <2>1, <3>2 DEF InFlight
    <3>3. QED
      BY <3>1, <3>2
  <2>2. QED
    BY <1>5, <2>1 DEF RacesExcused
<1>8. AddsExcused'
  <2>1. ASSUME NEW m \in DOMAIN stored, Keyed(ItemKey(h)), stored[m] = ItemKey(h)
        PROVE  ItemKey(h) \in excused'
    <3>1. \/ ItemKey(h) \in excused \cup KeysIn(rows)
          \/ \E g \in Handlers : handler[g].pc = "set" /\ ItemKey(g) = ItemKey(h)
      BY <2>1 DEF IInv, StoredRemembered
    <3>2. QED
      BY <2>1, <3>1 DEF InFlight
  <2>2. QED
    BY <1>4, <1>5, <2>1 DEF IInv, AddsExcused
<1>9. StoredRemembered'
  <2>1. \A g \in Handlers : handler[g].pc = "set" => handler'[g].pc = "set"
    BY <1>1, <1>4
  <2>2. QED
    BY <1>5, <2>1 DEF IInv, StoredRemembered
<1>10. SecondCopyIsExcused' /\ RowsStand'
  BY DEF IInv, SecondCopyIsExcused, RowsStand
<1>11. TypeOK'
  BY <1>4 DEF IInv, TypeOK, HandlersBusy, HandlersBound, HandlerState
<1>12. QED
  BY <1>4, <1>6, <1>7, <1>8, <1>9, <1>10, <1>11, AnswersStay DEF IInv, Onward

\* An item without a client id is stored without a lookup.
LEMMA SendUnkeyedKeepsIInv ==
  ASSUME IInv, NEW h \in Handlers, SendUnkeyed(h)
  PROVE  IInv'
<1>1. ~ Keyed(ItemKey(h))
  BY DEF SendUnkeyed, Keyed, ItemKey, KeyOf
<1>2. excused \subseteq Keys
  BY DEF IInv, TypeOK
<1>3. QED
  BY <1>1, <1>2, ToAddKeepsIInv DEF SendUnkeyed

\* An item is looked up, and found or not.
LEMMA LookUpKeepsIInv ==
  ASSUME IInv, NEW h \in Handlers, LookUp(h)
  PROVE  IInv'
<1> DEFINE key  == ItemKey(h)
           live == Live(rows, handler[h].since)
           kept == SweptBy(handler[h].since)
<1>1. /\ AtItem(h, "sendable") /\ rows' = kept
      /\ UNCHANGED <<now, inserted, stored, told, answers, silenced, pushes, faults>>
      /\ live \subseteq rows /\ kept \subseteq rows
  BY StoresShrink DEF LookUp
<1>2. ASSUME NEW row \in live, row.key = key, LookUpHit(h, row),
             excused' = excused \cup KeysIn(rows \ kept)
      PROVE  IInv'
  BY <1>1, <1>2, LookUpHitKeepsIInv
<1>3. ASSUME key \notin KeysIn(live), handler' = [handler EXCEPT ![h].pc = "add"],
             excused' = excused \cup KeysIn(rows \ kept)
                \cup {k \in {key} : k \in KeysIn(rows) \/ InFlight(k) # {}}
      PROVE  IInv'
  <2>1. key \in Keys
    BY <1>1, AtItemFacts, ItemFacts DEF AtItem, IInv
  <2>2. KeysIn(rows) \subseteq Keys /\ KeysIn(rows \ kept) \subseteq Keys
    BY DEF IInv, TypeOK, Row, KeysIn
  <2>3. KeysIn(rows) \subseteq KeysIn(rows \ kept) \cup KeysIn(kept)
    BY DEF KeysIn
  <2>4. excused \subseteq Keys
    BY DEF IInv, TypeOK
  <2> HIDE DEF key, kept
  <2>5. excused \subseteq excused' /\ excused' \subseteq Keys
    BY <1>3, <2>1, <2>2, <2>4
  <2>6. key \in KeysIn(rows) \/ InFlight(key) # {} => key \in excused'
    BY <1>3
  <2>7. QED
    BY <1>1, <1>3, <2>3, <2>5, <2>6, ToAddKeepsIInv DEF key, kept
<1>4. QED
  BY <1>2, <1>3 DEF LookUp

\* The message is stored: a second of its key is excused, as two handlers that
\* both looked the key up in vain, or its own lookup, have seen to.
LEMMA AddMessageKeepsIInv ==
  ASSUME IInv, NEW h \in Handlers, AddMessage(h)
  PROVE  IInv'
<1> DEFINE key  == ItemKey(h)
           last == Len(stored) + 1
           pc   == IF Item(h).cid = NoId THEN "tell" ELSE "set"
           new  == [handler[h] EXCEPT !.msg = last, !.pc = pc]
<1>1. /\ handler[h].pc = "add" /\ stored' = Append(stored, key)
      /\ UNCHANGED <<now, rows, inserted, told, answers, excused, silenced, pushes, faults>>
  BY DEF AddMessage
<1>2. /\ handler[h].batch \in Batches /\ AtSendable(h) /\ key \in Keys
      /\ (Keyed(key) <=> Item(h).cid # NoId)
  BY <1>1, ItemFacts DEF IInv, HandlersBusy, AtSendable
<1>3. Onward
  BY <1>1, <1>2 DEF Onward
<1>4. /\ stored' \in Seq(Keys) /\ Len(stored) \in Nat /\ Len(stored') = last
      /\ DOMAIN stored = 1..Len(stored) /\ DOMAIN stored' = 1..last
      /\ \A n \in 1..Len(stored) : stored'[n] = stored[n]
      /\ stored'[last] = key
  BY <1>1, <1>3, StoredGrows, AppendFacts DEF IInv, TypeOK
<1>5. /\ handler' = [handler EXCEPT ![h] = new]
      /\ new \in HandlerState /\ new.pc = pc /\ new.msg = last
      /\ new.batch = handler[h].batch /\ new.since = handler[h].since
      /\ new.next = handler[h].next /\ new.made = handler[h].made
  <2>1. handler \in [Handlers -> HandlerState] /\ handler[h] \in HandlerState
    BY DEF IInv, HandlersBusy
  <2>2. pc \in {"set", "tell"} /\ last \in Nat
    BY <1>4
  <2>3. QED
    BY <2>1, <2>2 DEF HandlerState, AddMessage
<1> HIDE DEF new
<1>6. ASSUME NEW state, state = new PROVE GoodState(state)'
  <2>1. ASSUME NEW old, old = handler[h] PROVE GoodState(old)'
    BY <1>3, <2>1, GoodHandlers, GoodStays
  <2>2. /\ last \in 0..Len(stored')
        /\ pc = "set" => Admitted(handler[h].batch)[handler[h].next].cid # NoId
    BY <1>4 DEF Item
  <2>3. QED
    BY <1>1, <1>5, <1>6, <2>1, <2>2 DEF GoodState
<1>7. /\ HandlersBusy' /\ HandlersList' /\ HandlersBound' /\ handler'[h] = new
      /\ \A g \in Handlers : g # h => handler'[g] = handler[g]
  BY <1>3, <1>5, <1>6, HandlerMoves
<1>8. \A g \in Handlers : ItemKey(g)' = ItemKey(g)
  BY <1>5, <1>7 DEF ItemKey, Item
<1>9. MessagesNew'
  <2>1. told \subseteq 1..Len(stored)
    BY DEF IInv, TypeOK
  <2>2. \A g \in Handlers : g # h /\ Carries(g)' => Carries(g) /\ handler[g].msg \in 1..Len(stored)
    BY <1>4, <1>7 DEF IInv, MessagesNew, Carries
  <2>3. \A g \in Handlers : Carries(g)' =>
          /\ handler'[g].msg \in DOMAIN stored'
          /\ stored'[handler'[g].msg] = ItemKey(g)'
          /\ handler'[g].msg \notin told'
    BY <1>1, <1>4, <1>5, <1>7, <1>8, <2>1, <2>2 DEF IInv, MessagesNew
  <2>4. \A f, g \in Handlers :
          Carries(f)' /\ Carries(g)' /\ f # g => handler'[f].msg # handler'[g].msg
    BY <1>4, <1>5, <1>7, <2>2 DEF IInv, MessagesNew
  <2>5. QED
    BY <2>3, <2>4 DEF MessagesNew
<1>10. RacesExcused'
  BY <1>1, <1>7, <1>8 DEF IInv, RacesExcused
<1>11. AddsExcused'
  <2> SUFFICES ASSUME NEW g \in Handlers, NEW m \in DOMAIN stored', handler'[g].pc = "add",
                      Keyed(ItemKey(g)), stored'[m] = ItemKey(g)
               PROVE  ItemKey(g) \in excused
    BY <1>1, <1>8 DEF AddsExcused
  <2>1. g # h /\ handler[g].pc = "add"
    BY <1>5, <1>7
  <2>2. CASE m \in DOMAIN stored
    BY <1>4, <2>1, <2>2 DEF IInv, AddsExcused
  <2>3. CASE m = last
    BY <1>1, <1>4, <2>1, <2>3 DEF IInv, RacesExcused
  <2>4. QED
    BY <1>4, <2>2, <2>3
<1>12. StoredRemembered'
  <2> SUFFICES ASSUME NEW m \in DOMAIN stored', Keyed(stored'[m])
               PROVE  \/ stored'[m] \in excused \cup KeysIn(rows)
                      \/ \E g \in Handlers : handler'[g].pc = "set" /\ ItemKey(g)' = stored'[m]
    BY <1>1 DEF StoredRemembered
  <2>1. CASE m \in DOMAIN stored
    <3>1. \/ stored[m] \in excused \cup KeysIn(rows)
          \/ \E g \in Handlers : handler[g].pc = "set" /\ ItemKey(g) = stored[m]
      BY <1>4, <2>1 DEF IInv, StoredRemembered
    <3>2. QED
      BY <1>1, <1>4, <1>7, <1>8, <2>1, <3>1
  <2>2. CASE m = last
    BY <1>2, <1>4, <1>5, <1>7, <1>8, <2>2
  <2>3. QED
    BY <1>4, <2>1, <2>2
<1>13. SecondCopyIsExcused'
  <2> SUFFICES ASSUME NEW m \in DOMAIN stored', NEW n \in DOMAIN stored', m < n,
                      stored'[m] = stored'[n], Keyed(stored'[m])
               PROVE  stored'[m] \in excused
    BY <1>1 DEF SecondCopyIsExcused, Keyed
  <2>1. m \in DOMAIN stored /\ stored'[m] = stored[m]
    BY <1>4
  <2>2. CASE n \in DOMAIN stored
    BY <1>4, <2>1, <2>2 DEF IInv, SecondCopyIsExcused, Keyed
  <2>3. CASE n = last
    BY <1>1, <1>4, <2>1, <2>3 DEF IInv, AddsExcused
  <2>4. QED
    BY <1>4, <2>2, <2>3
<1>14. RowsStand'
  BY <1>1, <1>4 DEF IInv, RowsStand
<1>15. TypeOK'
  BY <1>1, <1>4, <1>7 DEF IInv, TypeOK, HandlersBusy, HandlersBound, HandlerState
<1>16. QED
  BY <1>1, <1>3, <1>7, <1>9, <1>10, <1>11, <1>12, <1>13, <1>14, <1>15, AnswersStay DEF IInv

\* The message is remembered under its key, and the store swept and trimmed.
LEMMA RememberKeepsIInv ==
  ASSUME IInv, NEW h \in Handlers, Remember(h)
  PROVE  IInv'
<1> DEFINE key  == ItemKey(h)
           msg  == handler[h].msg
           base == SweptBy(now)
           full == Put(base, key, msg)
           kept == Trim(full)
           new  == [handler[h] EXCEPT !.pc = "tell"]
<1>1. /\ handler[h].pc = "set" /\ rows' = kept
      /\ inserted' = inserted + (IF key \in KeysIn(base) THEN 0 ELSE 1)
      /\ excused' = excused \cup KeysIn(rows \ base)
                      \cup ((KeysIn(base) \cup {key}) \ KeysIn(kept))
      /\ handler' = [handler EXCEPT ![h].pc = "tell"]
      /\ UNCHANGED <<now, stored, told, answers, silenced, pushes, faults>>
  BY DEF Remember
<1>2. /\ AtSendable(h) /\ key \in Keys
      /\ msg \in DOMAIN stored /\ stored[msg] = key /\ msg \notin told
  BY <1>1, ItemFacts DEF IInv, HandlersBusy, AtSendable, MessagesNew, Carries
<1>3. msg \in Nat \ {0}
  BY <1>2, LenProperties DEF IInv, TypeOK
<1>4. /\ base \subseteq rows /\ kept \subseteq full
      /\ full \subseteq Row
      /\ \A row \in full : row \in base \/ (row.key = key /\ row.msg = msg)
  <2>1. base \subseteq rows /\ kept \subseteq full
    BY StoresShrink
  <2>2. TypeOK /\ base \in SUBSET rows /\ key \in Keys
    BY <1>2, <2>1 DEF IInv
  <2> HIDE DEF base, key, msg, kept
  <2>3. /\ full \subseteq Row
        /\ \A row \in full : row \in base \/ (row.key = key /\ row.msg = msg)
    BY <1>3, <2>2, PutFacts
  <2>4. QED
    BY <2>1, <2>3
<1>5. /\ handler' = [handler EXCEPT ![h] = new]
      /\ new \in HandlerState /\ new.pc = "tell"
      /\ new.batch = handler[h].batch /\ new.since = handler[h].since
      /\ new.next = handler[h].next /\ new.msg = handler[h].msg
      /\ new.made = handler[h].made
  BY <1>1, PcFacts
<1> HIDE DEF new, key, msg, base, full, kept
<1>6. GoodState(new)
  BY <1>1, <1>2, <1>5, GoodHandlers DEF GoodState
<1>7. /\ HandlersBusy' /\ HandlersList' /\ HandlersBound' /\ handler'[h] = new
      /\ \A g \in Handlers : g # h => handler'[g] = handler[g]
  BY <1>1, <1>5, <1>6, HandlerMoves DEF Onward
<1>8. \A g \in Handlers : ItemKey(g)' = ItemKey(g)
  BY <1>5, <1>7 DEF ItemKey, Item
<1>9. QuietStep
  <2>1. KeysIn(rows) \subseteq KeysIn(rows \ base) \cup KeysIn(base)
    BY DEF KeysIn
  <2>2. excused \subseteq excused' /\ KeysIn(rows) \subseteq excused' \cup KeysIn(rows')
    BY <1>1, <2>1
  <2>3. key \in excused' \cup KeysIn(rows')
    BY <1>1
  <2>4. \A g \in Handlers : Carries(g)' => handler[g].msg \notin told'
    BY <1>1, <1>2, <1>7 DEF Carries, IInv, MessagesNew, msg
  <2>5. \A g \in Handlers :
          \/ handler'[g] = handler[g]
          \/ /\ Carries(g) /\ handler'[g].pc = "tell"
             /\ handler'[g].msg = handler[g].msg /\ ItemKey(g)' = ItemKey(g)
    BY <1>1, <1>5, <1>7, <1>8 DEF Carries
  <2>6. \A g \in Handlers : handler'[g] = handler[g] \/ ItemKey(g) = key
    BY <1>7 DEF key
  <2>7. QED
    BY <1>1, <2>2, <2>3, <2>4, <2>5, <2>6 DEF QuietStep
<1>10. TypeOK'
  <2>1. KeysIn(rows \ base) \subseteq Keys /\ KeysIn(base) \subseteq Keys
    BY <1>4 DEF IInv, TypeOK, Row, KeysIn
  <2>2. excused' \subseteq Keys /\ rows' \subseteq Row
    BY <1>1, <1>2, <1>4, <2>1 DEF IInv, TypeOK
  <2>3. inserted' \in Nat
    BY <1>1 DEF IInv, TypeOK
  <2>4. QED
    BY <1>1, <1>7, <2>2, <2>3 DEF IInv, TypeOK, HandlersBusy, HandlersBound, HandlerState
<1>11. RowsStand'
  BY <1>1, <1>2, <1>4 DEF IInv, RowsStand
<1>12. QED
  BY <1>1, <1>7, <1>9, <1>10, <1>11, QuietStepKeeps, AnswersStay DEF IInv, Onward

\* Expired rows are deleted from the table.
LEMMA SweepKeepsIInv ==
  ASSUME IInv, NEW h \in Handlers, SweepTable(h)
  PROVE  IInv'
<1> DEFINE kept == Live(rows, now)
<1>1. /\ rows' = kept /\ excused' = excused \cup KeysIn(rows \ kept) /\ kept \subseteq rows
      /\ UNCHANGED <<now, inserted, stored, handler, told, answers, silenced, pushes, faults>>
  BY StoresShrink DEF SweepTable
<1> HIDE DEF kept
<1>2. HandlersBusy' /\ HandlersList' /\ HandlersBound'
  BY <1>1, HandlersStay DEF Onward
<1>3. QuietStep
  <2>1. KeysIn(rows) \subseteq KeysIn(rows \ kept) \cup KeysIn(kept)
    BY DEF KeysIn
  <2>2. QED
    BY <1>1, <2>1 DEF QuietStep, Carries, IInv, MessagesNew
<1>4. TypeOK'
  <2>1. KeysIn(rows \ kept) \subseteq Keys
    BY DEF IInv, TypeOK, Row, KeysIn
  <2>2. QED
    BY <1>1, <2>1 DEF IInv, TypeOK
<1>5. RowsStand'
  BY <1>1 DEF IInv, RowsStand
<1>6. QED
  BY <1>1, <1>2, <1>3, <1>4, <1>5, QuietStepKeeps, AnswersStay DEF IInv, Onward

\* The message joins the answer and is broadcast.
LEMMA BroadcastKeepsIInv ==
  ASSUME IInv, NEW h \in Handlers, Broadcast(h)
  PROVE  IInv'
<1> DEFINE msg  == handler[h].msg
           made == Append(handler[h].made, msg)
           new  == [handler[h] EXCEPT !.pc = "next", !.next = @ + 1, !.made = made]
<1>1. /\ handler[h].pc = "tell" /\ told' = told \cup {msg}
      /\ UNCHANGED <<now, rows, inserted, stored, answers, excused, silenced, pushes, faults>>
  BY DEF Broadcast
<1>2. /\ handler[h].batch \in Batches /\ AtSendable(h)
      /\ msg \in DOMAIN stored /\ stored[msg] = ItemKey(h) /\ msg \notin told
  BY <1>1 DEF IInv, HandlersBusy, MessagesNew, Carries
<1>3. msg \in 1..Len(stored) /\ msg \in Nat
  BY <1>2, LenProperties DEF IInv, TypeOK
<1>4. /\ handler \in [Handlers -> HandlerState] /\ handler[h] \in HandlerState
      /\ handler[h].made \in Seq(Nat) /\ handler[h].made \in Seq(1..Len(stored))
      /\ handler[h].next \in Nat \ {0}
  BY DEF IInv, TypeOK, HandlersBusy, HandlerState
<1>5. made \in Seq(Nat) /\ made \in Seq(1..Len(stored))
  BY <1>3, <1>4, AppendProperties
<1>6. /\ handler' = [handler EXCEPT ![h] = new]
      /\ new \in HandlerState /\ new.pc = "next"
      /\ new.batch = handler[h].batch /\ new.since = handler[h].since
      /\ new.next = handler[h].next + 1 /\ new.msg = handler[h].msg
      /\ new.made = made
  <2>1. handler[h].next + 1 \in Nat \ {0}
    BY <1>4
  <2>2. handler' = [handler EXCEPT ![h] = new]
    BY <1>4 DEF HandlerState, Broadcast
  <2> HIDE DEF made
  <2>3. QED
    BY <1>4, <1>5, <2>1, <2>2 DEF HandlerState
<1> HIDE DEF new, made
<1>7. GoodState(new)
  <2>1. ListsUpTo(handler[h].batch, handler[h].made, handler[h].next)
    BY <1>1 DEF IInv, HandlersList
  <2>2. ListsUpTo(new.batch, new.made, new.next)
    BY <1>2, <1>3, <1>4, <1>6, <2>1, ListsAppend DEF AtSendable, Item, ItemKey, made
  <2>3. QED
    BY <1>2, <1>5, <1>6, <2>2, GoodHandlers DEF GoodState
<1>8. /\ HandlersBusy' /\ HandlersList' /\ HandlersBound' /\ handler'[h] = new
      /\ \A g \in Handlers : g # h => handler'[g] = handler[g]
  BY <1>1, <1>6, <1>7, HandlerMoves DEF Onward
<1>9. QuietStep
  <2>1. \A g \in Handlers : g # h /\ Carries(g) => handler[g].msg \notin told'
    BY <1>1 DEF IInv, MessagesNew, Carries
  <2>2. \A g \in Handlers : Carries(g)' => handler[g].msg \notin told'
    BY <1>6, <1>8, <2>1 DEF Carries
  <2>3. QED
    BY <1>1, <1>6, <1>8, <2>2 DEF QuietStep
<1>10. TypeOK'
  BY <1>1, <1>3, <1>8 DEF IInv, TypeOK, HandlersBusy, HandlersBound, HandlerState
<1>11. RowsStand'
  BY <1>1 DEF IInv, RowsStand
<1>12. QED
  BY <1>1, <1>8, <1>9, <1>10, <1>11, QuietStepKeeps, AnswersStay DEF IInv, Onward

\* A request ends, with an answer that lists its whole batch or with an error.
LEMMA FinishKeepsIInv ==
  ASSUME IInv, NEW h \in Handlers, handler[h].pc # "idle", NEW status, FinishWith(h, status),
         status = "ok" => ~ MoreItems(h),
         handler[h].pc = "set" => ItemKey(h) \in excused' \cup KeysIn(rows'),
         KeysIn(rows) \subseteq excused' \cup KeysIn(rows'),
         excused \subseteq excused', excused' \subseteq Keys,
         rows' \subseteq Row, RowsStand', inserted' \in Nat,
         silenced' \subseteq 1..Len(stored), faults' \in 0..MaxFaults,
         UNCHANGED <<now, stored, told, pushes>>
  PROVE  IInv'
<1> DEFINE answer == [batch |-> handler[h].batch, made |-> handler[h].made, status |-> status]
<1>1. /\ answers' = answers \cup {answer} /\ handler' = [handler EXCEPT ![h] = IdleHandler]
      /\ answer.batch = handler[h].batch /\ answer.made = handler[h].made
      /\ answer.status = status
  BY DEF FinishWith
<1> HIDE DEF answer
<1>2. IdleHandler.pc = "idle"
  BY DEF IdleHandler
<1>3. /\ HandlersBusy' /\ HandlersList' /\ HandlersBound' /\ handler'[h] = IdleHandler
      /\ \A g \in Handlers : g # h => handler'[g] = handler[g]
  BY <1>1, IdleIsGood, HandlerMoves DEF Onward
<1>4. QuietStep
  BY <1>2, <1>3 DEF QuietStep, Carries, IInv, MessagesNew
<1>5. TypeOK'
  BY <1>3 DEF IInv, TypeOK, HandlersBusy, HandlersBound, HandlerState
<1>6. AnswersKnown'
  <2>1. answer.batch \in Batches /\ answer.made \in Seq(1..Len(stored))
    BY <1>1 DEF IInv, TypeOK, HandlersBusy
  <2>2. QED
    BY <1>1, <2>1 DEF IInv, AnswersKnown
<1>7. AnswerMatchesBatch'
  <2>1. ASSUME status = "ok" PROVE Matches(answer.batch, answer.made)
    <3>1. /\ handler[h].batch \in Batches /\ handler[h].next \in Nat
          /\ ListsUpTo(handler[h].batch, handler[h].made, handler[h].next)
          /\ ~ (handler[h].next <= Len(Admitted(handler[h].batch)))
      BY <2>1 DEF IInv, HandlersBusy, HandlerState, HandlersList, MoreItems
    <3>2. QED
      BY <1>1, <3>1, ListsAll
  <2>2. ASSUME NEW a \in answers', a.status = "ok" PROVE Matches(a.batch, a.made)
    BY <1>1, <2>1, <2>2, AnswersMatch DEF IInv
  <2>3. ASSUME NEW a \in answers', a.status = "ok" PROVE Matches(a.batch, a.made)'
    BY <2>2, <2>3, MatchesStored
  <2>4. AnswerMatchesBatch' <=> (\A a \in answers : a.status = "ok" => Matches(a.batch, a.made))'
    BY AnswersMatch, PTL
  <2>5. QED
    BY <2>3, <2>4
<1>8. QED
  BY <1>3, <1>4, <1>5, <1>6, <1>7, QuietStepKeeps DEF IInv

\* An answer lists what its handler has made, and forgets the handler.
LEMMA AnswerKeepsIInv ==
  ASSUME IInv, NEW h \in Handlers, Answer(h) \/ Forbid(h) \/ FailToAdd(h)
  PROVE  IInv'
<1>1. PICK status \in {"ok", "error"} : Finish(h, status) /\ (status = "ok" => ~ MoreItems(h))
  BY DEF Answer, Forbid, FailToAdd
<1>2. handler[h].pc \in {"next", "add"}
  BY DEF Answer, Forbid, FailToAdd, AtItem
<1>3. /\ FinishWith(h, status)
      /\ UNCHANGED <<now, rows, inserted, stored, told, excused, silenced, pushes, faults>>
  BY <1>1 DEF Finish
<1>4. /\ RowsStand' /\ rows \subseteq Row /\ excused \subseteq Keys /\ inserted \in Nat
      /\ silenced \subseteq 1..Len(stored) /\ faults \in 0..MaxFaults
  BY <1>3 DEF IInv, RowsStand, TypeOK
<1>5. QED
  BY <1>1, <1>2, <1>3, <1>4, FinishKeepsIInv

\* What a handler leaves behind when it is lost.
LEMMA LostFacts ==
  ASSUME IInv, NEW hs \in SUBSET Handlers
  PROVE  Untold(hs) \subseteq 1..Len(stored) /\ {ItemKey(g) : g \in Unremembered(hs)} \subseteq Keys
<1>1. \A g \in hs : handler[g].pc \in {"set", "tell"} => handler[g].msg \in 1..Len(stored)
  BY LenProperties DEF IInv, TypeOK, MessagesNew, Carries
<1>2. \A g \in hs : handler[g].pc = "set" => ItemKey(g) \in Keys
  BY ItemFacts DEF IInv, HandlersBusy, AtSendable
<1>3. QED
  BY <1>1, <1>2 DEF Untold, Unremembered

\* A query fails and the request with it.
LEMMA FailQueryKeepsIInv ==
  ASSUME IInv, NEW h \in Handlers, FailQuery(h)
  PROVE  IInv'
<1> DEFINE lost == {ItemKey(g) : g \in Unremembered({h})}
           full == Put(rows, ItemKey(h), handler[h].msg)
<1>1. /\ faults < MaxFaults /\ faults' = faults + 1
      /\ excused' = excused \cup lost /\ silenced' = silenced \cup Untold({h})
      /\ FinishWith(h, "error")
      /\ UNCHANGED <<now, stored, told, pushes>>
      /\ \/ AtItem(h, "sendable") /\ rows' = rows /\ inserted' = inserted
         \/ handler[h].pc = "set" /\ rows' = rows /\ inserted' = inserted
         \/ /\ handler[h].pc = "set" /\ rows' = full
            /\ inserted' = inserted + (IF ItemKey(h) \in KeysIn(rows) THEN 0 ELSE 1)
  BY DEF FailQuery
<1>2. handler[h].pc \in {"next", "set"}
  BY <1>1 DEF AtItem
<1>3. handler[h].pc = "set" => ItemKey(h) \in excused'
  BY <1>1 DEF Unremembered
<1>4. Untold({h}) \subseteq 1..Len(stored) /\ lost \subseteq Keys
  BY LostFacts
<1>5. ASSUME handler[h].pc = "set"
      PROVE  /\ full \subseteq Row /\ KeysIn(rows) \subseteq KeysIn(full)
             /\ \A row \in full : row.msg \in DOMAIN stored /\ stored[row.msg] = row.key
  <2>1. ItemKey(h) \in Keys
    BY <1>5, ItemFacts DEF IInv, HandlersBusy, AtSendable
  <2>2. handler[h].msg \in DOMAIN stored /\ stored[handler[h].msg] = ItemKey(h)
    BY <1>5 DEF IInv, MessagesNew, Carries
  <2>3. handler[h].msg \in Nat \ {0}
    BY <2>2, LenProperties DEF IInv, TypeOK
  <2>4. TypeOK /\ RowsStand
    BY DEF IInv
  <2>5. /\ full \subseteq Row /\ KeysIn(rows) \subseteq KeysIn(full)
        /\ \A row \in full : row \in rows \/ (row.key = ItemKey(h) /\ row.msg = handler[h].msg)
    BY <2>1, <2>3, <2>4, PutFacts
  <2> HIDE DEF full
  <2>6. QED
    BY <2>2, <2>4, <2>5 DEF RowsStand
<1> HIDE DEF lost, full
<1>6. /\ rows' \subseteq Row /\ KeysIn(rows) \subseteq KeysIn(rows') /\ inserted' \in Nat
      /\ \A row \in rows' : row.msg \in DOMAIN stored /\ stored[row.msg] = row.key
  BY <1>1, <1>5 DEF IInv, TypeOK, RowsStand
<1>7. RowsStand'
  BY <1>1, <1>6 DEF RowsStand
<1>8. /\ excused' \subseteq Keys /\ silenced' \subseteq 1..Len(stored)
      /\ faults' \in 0..MaxFaults
  <2>1. /\ faults \in 0..MaxFaults /\ MaxFaults \in Nat /\ excused \subseteq Keys
        /\ silenced \subseteq 1..Len(stored)
    BY LimitsAssumption DEF IInv, TypeOK
  <2>2. faults < MaxFaults /\ faults' = faults + 1
    BY <1>1
  <2>3. faults' \in 0..MaxFaults
    BY <2>1, <2>2
  <2>4. QED
    BY <1>1, <1>4, <2>1, <2>3
<1>9. QED
  BY <1>1, <1>2, <1>3, <1>6, <1>7, <1>8, FinishKeepsIInv

\* A process dies: its handlers start anew, and in memory its rows are gone.
LEMMA RestartKeepsIInv ==
  ASSUME IInv, Restart
  PROVE  IInv'
<1> DEFINE memory == Store = "memory"
<1>1. PICK dead \in SUBSET Handlers :
        /\ memory => dead = Handlers
        /\ handler' = [h \in Handlers |-> IF h \in dead THEN IdleHandler ELSE handler[h]]
        /\ excused' = excused \cup {ItemKey(h) : h \in Unremembered(dead)}
                        \cup (IF memory THEN KeysIn(rows) ELSE {})
        /\ silenced' = silenced \cup Untold(dead)
  BY DEF Restart
<1>2. /\ faults < MaxFaults /\ faults' = faults + 1
      /\ rows' = IF memory THEN {} ELSE rows
      /\ UNCHANGED <<now, inserted, stored, told, answers, pushes>>
  BY DEF Restart
<1> DEFINE new == [h \in Handlers |-> IF h \in dead THEN IdleHandler ELSE handler[h]]
<1>3. /\ handler' = [h \in Handlers |-> new[h]]
      /\ \A h \in Handlers : new[h] = IF h \in dead THEN IdleHandler ELSE handler[h]
  BY <1>1
<1> HIDE DEF new
<1>4. HandlersBusy' /\ HandlersList' /\ HandlersBound'
  <2>1. \A h \in Handlers : GoodState(new[h])
    BY <1>3, IdleIsGood, GoodHandlers
  <2>2. ASSUME NEW all, all = new, NEW h \in Handlers PROVE GoodState(all[h])'
    BY <1>2, <2>1, <2>2, GoodStays DEF Onward
  <2>3. QED
    BY <1>3, <2>2, HandlersMove
<1>5. /\ Untold(dead) \subseteq 1..Len(stored)
      /\ {ItemKey(g) : g \in Unremembered(dead)} \subseteq Keys
  BY LostFacts
<1>6. KeysIn(rows) \subseteq Keys
  BY DEF IInv, TypeOK, Row, KeysIn
<1>7. QuietStep
  <2>1. KeysIn(rows) \subseteq excused' \cup KeysIn(rows')
    BY <1>1, <1>2
  <2>2. \A h \in Handlers : handler'[h] = handler[h] \/ (h \in dead /\ handler'[h].pc = "idle")
    BY <1>3 DEF IdleHandler
  <2>3. \A h \in dead : handler[h].pc = "set" => ItemKey(h) \in excused'
    BY <1>1 DEF Unremembered
  <2>4. QED
    BY <1>1, <1>2, <2>1, <2>2, <2>3 DEF QuietStep, Carries, IInv, MessagesNew
<1>8. TypeOK'
  <2>1. /\ faults \in 0..MaxFaults /\ MaxFaults \in Nat /\ excused \subseteq Keys
        /\ silenced \subseteq 1..Len(stored)
    BY LimitsAssumption DEF IInv, TypeOK
  <2>2. /\ excused' \subseteq Keys /\ silenced' \subseteq 1..Len(stored)
        /\ faults' \in 0..MaxFaults
    <3>1. faults' \in 0..MaxFaults
      BY <1>2, <2>1
    <3>2. QED
      BY <1>1, <1>5, <1>6, <2>1, <3>1
  <2>3. rows' \subseteq rows
    BY <1>2
  <2>4. QED
    BY <1>2, <1>4, <2>2, <2>3 DEF IInv, TypeOK, HandlersBusy, HandlersBound, HandlerState
<1>9. RowsStand'
  BY <1>2 DEF IInv, RowsStand
<1>10. QED
  BY <1>2, <1>4, <1>7, <1>8, <1>9, QuietStepKeeps, AnswersStay DEF IInv, Onward

\* Time passes, or nothing happens at all.
LEMMA IdleStepKeepsIInv ==
  ASSUME IInv, Tick \/ UNCHANGED vars
  PROVE  IInv'
<1>1. /\ now' \in {now, now + 1} /\ now' \in 0..MaxTime
      /\ UNCHANGED <<rows, inserted, stored, handler, told, answers, excused, silenced, pushes,
                     faults>>
  BY LimitsAssumption DEF Tick, vars, IInv, TypeOK
<1>2. Onward
  BY <1>1 DEF Onward
<1>3. HandlersBusy' /\ HandlersList' /\ HandlersBound'
  BY <1>1, <1>2, HandlersStay
<1>4. QuietStep
  BY <1>1 DEF QuietStep, Carries, IInv, MessagesNew
<1>5. TypeOK'
  BY <1>1, <1>3 DEF IInv, TypeOK, HandlersBusy, HandlersBound, HandlerState
<1>6. RowsStand'
  BY <1>1 DEF IInv, RowsStand
<1>7. QED
  BY <1>1, <1>2, <1>3, <1>4, <1>5, <1>6, QuietStepKeeps, AnswersStay DEF IInv

-----------------------------------------------------------------------------
(* The theorems *)

\* The invariant holds of what a process starts with.
LEMMA InitIInv == Init => IInv
<1> SUFFICES ASSUME Init PROVE IInv
  OBVIOUS
<1>1. /\ now = 0 /\ rows = {} /\ inserted = 0 /\ stored = <<>> /\ told = {} /\ answers = {}
      /\ excused = {} /\ silenced = {} /\ pushes = 0 /\ faults = 0
      /\ handler = [h \in Handlers |-> IdleHandler]
  BY DEF Init
<1>2. /\ <<>> \in Seq(Nat) /\ <<>> \in Seq(1..Len(stored)) /\ stored \in Seq(Keys)
      /\ Len(stored) = 0 /\ DOMAIN stored = {}
  BY <1>1, EmptySeq
<1>3. /\ IdleHandler \in HandlerState /\ IdleHandler.pc = "idle" /\ IdleHandler.since = 0
      /\ IdleHandler.msg = 0 /\ IdleHandler.made = <<>> /\ IdleHandler.batch = NoBatch
  BY <1>2 DEF IdleHandler, HandlerState
<1>4. \A h \in Handlers : handler[h] = IdleHandler
  BY <1>1
<1>5. TypeOK
  <2>1. \A h \in Handlers :
          /\ handler[h].pc = "idle" /\ handler[h].batch = NoBatch /\ handler[h].since \in 0..now
          /\ handler[h].msg \in 0..Len(stored) /\ handler[h].made \in Seq(1..Len(stored))
    <3>1. 0 \in 0..now /\ 0 \in 0..Len(stored)
      BY <1>1, <1>2
    <3>2. QED
      BY <1>2, <1>3, <1>4, <3>1
  <2>2. QED
    BY <1>1, <1>2, <2>1, LimitsAssumption DEF TypeOK
<1>6. HandlersBusy
  BY <1>1, <1>3, <1>4 DEF HandlersBusy
<1>7. MessagesNew /\ RacesExcused /\ AddsExcused /\ HandlersList
  BY <1>3, <1>4 DEF MessagesNew, RacesExcused, AddsExcused, HandlersList, Carries
<1>8. RowsStand /\ StoredRemembered /\ SecondCopyIsExcused /\ AnswersKnown /\ AnswerMatchesBatch
  BY <1>1, <1>2 DEF RowsStand, StoredRemembered, SecondCopyIsExcused, AnswersKnown,
                    AnswerMatchesBatch
<1>9. QED
  BY <1>5, <1>6, <1>7, <1>8 DEF IInv

\* No step breaks the invariant: one case per action of Next.
LEMMA StepKeepsIInv == IInv /\ [Next]_vars => IInv'
<1> SUFFICES ASSUME IInv, [Next]_vars PROVE IInv'
  OBVIOUS
<1>1. ASSUME NEW h \in Handlers, SkipItem(h) PROVE IInv'
  BY <1>1, SkipKeepsIInv
<1>2. ASSUME NEW h \in Handlers, SendUnkeyed(h) PROVE IInv'
  BY <1>2, SendUnkeyedKeepsIInv
<1>3. ASSUME NEW h \in Handlers, LookUp(h) PROVE IInv'
  BY <1>3, LookUpKeepsIInv
<1>4. ASSUME NEW h \in Handlers, AddMessage(h) PROVE IInv'
  BY <1>4, AddMessageKeepsIInv
<1>5. ASSUME NEW h \in Handlers, Remember(h) PROVE IInv'
  BY <1>5, RememberKeepsIInv
<1>6. ASSUME NEW h \in Handlers, Broadcast(h) PROVE IInv'
  BY <1>6, BroadcastKeepsIInv
<1>7. ASSUME NEW h \in Handlers, Answer(h) \/ Forbid(h) \/ FailToAdd(h) PROVE IInv'
  BY <1>7, AnswerKeepsIInv
<1>8. ASSUME NEW h \in Handlers, SweepTable(h) PROVE IInv'
  BY <1>8, SweepKeepsIInv
<1>9. ASSUME NEW h \in Handlers, FailQuery(h) PROVE IInv'
  BY <1>9, FailQueryKeepsIInv
<1>10. ASSUME NEW h \in Handlers, NEW b \in Batches, Receive(h, b) PROVE IInv'
  BY <1>10, ReceiveKeepsIInv
<1>11. ASSUME Restart PROVE IInv'
  BY <1>11, RestartKeepsIInv
<1>12. ASSUME RejectPush \/ Tick \/ UNCHANGED vars PROVE IInv'
  BY <1>12, IdleStepKeepsIInv DEF RejectPush
<1>13. QED
  BY <1>1, <1>2, <1>3, <1>4, <1>5, <1>6, <1>7, <1>8, <1>9, <1>10, <1>11, <1>12
  DEF Next, Proceed

\* The inductive invariant holds in every reachable state.
THEOREM AlwaysIInv == Spec => []IInv
BY InitIInv, StepKeepsIInv, PTL DEF Spec

\* The state keeps its types; rows, answers and broadcasts name messages that
\* addMessage has stored.
THEOREM TypeCorrect == Spec => []TypeOK
<1>1. IInv => TypeOK
  BY DEF IInv
<1>2. QED
  BY <1>1, AlwaysIInv, PTL

\* A retry of pushHandler stores a second copy of a keyed message only when the
\* idempotency row was dropped, never written, or not written yet.
THEOREM SecondCopiesAreExcused == Spec => []SecondCopyIsExcused
<1>1. IInv => SecondCopyIsExcused
  BY DEF IInv
<1>2. QED
  BY <1>1, AlwaysIInv, PTL

\* An accepted batch is answered with one message per sendable item, in order,
\* each of its item, whether this handler or an earlier one stored it.
THEOREM AnswersAreComplete == Spec => []AnswerMatchesBatch
<1>1. IInv => AnswerMatchesBatch
  BY DEF IInv
<1>2. QED
  BY <1>1, AlwaysIInv, PTL

\* No message goes out to the session twice: a handler on its way to the
\* broadcast carries a message that it stored itself and nobody has told of.
THEOREM NothingIsToldTwice == Spec => BroadcastOnce
<1>1. IInv /\ [Next]_vars =>
        [\A h \in Handlers : handler[h].pc = "tell" /\ handler'[h].pc = "next" =>
            handler[h].msg \notin told]_vars
  BY DEF IInv, MessagesNew, Carries
<1>2. QED
  BY <1>1, AlwaysIInv, PTL DEF Spec, BroadcastOnce
=============================================================================
