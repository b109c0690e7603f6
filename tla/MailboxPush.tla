---------------------------- MODULE MailboxPush ----------------------------
(***************************************************************************)
(* The mailbox push handler (pushHandler in mailbox-message.ts) over its    *)
(* two idempotency stores.  A handler works through its batch item by item *)
(* and gives up the event loop at each await: looking an item up, storing  *)
(* the message, remembering it and broadcasting it are separate steps, and *)
(* a client that sees no answer sends the same batch again.                *)
(*                                                                         *)
(* Over "memory" all handlers and the rows live in one process; over       *)
(* "postgres" the handlers may be of several processes, a query may fail,  *)
(* expired rows stay until a sweep and nothing is trimmed.                 *)
(*                                                                         *)
(* storage.addMessage and pubsub are external: addMessage either stores    *)
(* one new message or throws.  The memory get and set sweep the store and  *)
(* touch it in the next microtask; both parts are taken together, as       *)
(* whatever runs in between sweeps the same rows.                          *)
(***************************************************************************)
EXTENDS Integers, Sequences, FiniteSets

CONSTANTS
  Store,         \* "memory" or "postgres": VORYX_MESSAGE_IDEMPOTENCY_STORE
  Handlers,      \* pushes that can be in progress at once
  Batches,       \* batches clients send: [sender, items]
  NoId,          \* an item without a usable clientMessageId
  BatchMax,      \* METADATA_PUSH_BATCH_MAX
  MaxEntries,    \* MESSAGE_IDEMPOTENCY_MAX_ENTRIES
  TtlMs,         \* MESSAGE_IDEMPOTENCY_TTL_MS
  MaxTime,       \* bound: the clock stops here
  MaxPushes,     \* bound: pushes received
  MaxFaults      \* bound: process restarts and failed queries

\* What the checks before the lookup make of an item.
Verdicts == {"sendable", "skipped", "forbidden"}

BatchShape(b) ==
  /\ DOMAIN b = {"sender", "items"}
  /\ b.items \in Seq({b.items[n] : n \in DOMAIN b.items})
  /\ \A n \in DOMAIN b.items : b.items[n].verdict \in Verdicts

ASSUME BatchesAssumption == \A b \in Batches : BatchShape(b)

ASSUME StoreAssumption == Store \in {"memory", "postgres"}

ASSUME LimitsAssumption ==
  /\ BatchMax \in Nat /\ MaxEntries \in Nat /\ TtlMs \in Nat \ {0}
  /\ MaxTime \in Nat /\ MaxPushes \in Nat /\ MaxFaults \in Nat

VARIABLES
  now,        \* Date.now()
  rows,       \* Memory...IdempotencyStore.rows, or voryx_message_idempotency
  inserted,   \* rows inserted so far: the insertion order of the Map
  stored,     \* the session's messages in the order addMessage stored them
  handler,    \* progress of each handler
  told,       \* history: messages that were broadcast
  answers,    \* history: what clients were answered
  excused,    \* history: keys whose row was dropped, or not there yet in a race
  silenced,   \* history: messages whose handler was lost before it told of them
  pushes,     \* pushes received so far
  faults      \* process restarts and failed queries so far

vars ==
  <<now, rows, inserted, stored, handler, told, answers, excused, silenced, pushes, faults>>

-----------------------------------------------------------------------------
KeyWithoutSender(b, item) == <<"any", item.cid>>

\* idempotencyKey; the session is fixed in this module.
KeyOf(b, item) == <<b.sender, item.cid>>

\* rawBatch.slice(0, METADATA_PUSH_BATCH_MAX)
Admitted(b) == SubSeq(b.items, 1, IF Len(b.items) < BatchMax THEN Len(b.items) ELSE BatchMax)

ItemsOf(b) == {Admitted(b)[n] : n \in DOMAIN Admitted(b)}

Keys == UNION {{KeyOf(b, item) : item \in ItemsOf(b)} : b \in Batches}

NoBatch == [sender |-> NoId, items |-> <<>>]

IdleHandler ==
  [pc |-> "idle", batch |-> NoBatch, since |-> 0, next |-> 1, msg |-> 0, made |-> <<>>]

Item(h) == Admitted(handler[h].batch)[handler[h].next]

ItemKey(h) == KeyOf(handler[h].batch, Item(h))

MoreItems(h) == handler[h].next <= Len(Admitted(handler[h].batch))

AtItem(h, verdict) ==
  handler[h].pc = "next" /\ MoreItems(h) /\ Item(h).verdict = verdict

Live(rs, t) == {row \in rs : row.expiresAt > t}

KeysIn(rs) == {row.key : row \in rs}

\* cleanup() comes before each memory get and set.
SweptBy(t) == IF Store = "memory" THEN Live(rows, t) ELSE rows

\* trim(), in memory only: once over the limit, delete from the oldest on until 95 % is left.
Trim(rs) ==
  IF Store = "postgres" \/ Cardinality(rs) <= MaxEntries THEN rs
  ELSE {row \in rs : Cardinality({x \in rs : x.at > row.at}) < (MaxEntries * 95) \div 100}

PutExpired(rs, key, msg) ==
  rs \cup {[key |-> key, msg |-> msg, expiresAt |-> now - TtlMs, at |-> inserted]}

\* rows.set, or the upsert: a key already in the Map keeps its place in the order.
Put(rs, key, msg) ==
  LET old == {row \in rs : row.key = key} IN
  (rs \ old) \cup {[key |-> key, msg |-> msg, expiresAt |-> now + TtlMs,
                    at |-> IF old = {} THEN inserted ELSE (CHOOSE row \in old : TRUE).at]}

\* A handler that has looked key up in vain and not remembered a message yet.
InFlight(key) == {h \in Handlers : handler[h].pc \in {"add", "set"} /\ ItemKey(h) = key}

-----------------------------------------------------------------------------
Init ==
  /\ now = 0
  /\ rows = {}
  /\ inserted = 0
  /\ stored = <<>>
  /\ handler = [h \in Handlers |-> IdleHandler]
  /\ told = {}
  /\ answers = {}
  /\ excused = {}
  /\ silenced = {}
  /\ pushes = 0
  /\ faults = 0

\* A client sends, or sends again, a batch; "now" is read once per request.
Receive(h, b) ==
  /\ handler[h].pc = "idle"
  /\ pushes < MaxPushes
  /\ pushes' = pushes + 1
  /\ handler' = [handler EXCEPT ![h] =
                   [IdleHandler EXCEPT !.pc = "next", !.batch = b, !.since = now]]
  /\ UNCHANGED <<now, rows, inserted, stored, told, answers, excused, silenced, faults>>

\* A push without mailbox authorization is refused before it reads anything.
RejectPush == UNCHANGED vars

\* Items of another kind, without content or without an envelope are passed over.
SkipItem(h) ==
  /\ AtItem(h, "skipped")
  /\ handler' = [handler EXCEPT ![h].next = @ + 1]
  /\ UNCHANGED <<now, rows, inserted, stored, told, answers, excused, silenced, pushes, faults>>

\* An item without a client id is stored without a lookup.
SendUnkeyed(h) ==
  /\ AtItem(h, "sendable")
  /\ Item(h).cid = NoId
  /\ handler' = [handler EXCEPT ![h].pc = "add"]
  /\ UNCHANGED <<now, rows, inserted, stored, told, answers, excused, silenced, pushes, faults>>

LookUpHitTold(h, row) ==
  handler' = [handler EXCEPT ![h].pc = "tell", ![h].msg = row.msg]

\* A known item is answered with the message it once created.
LookUpHit(h, row) ==
  handler' = [handler EXCEPT ![h].made = Append(@, row.msg), ![h].next = @ + 1]

\* messageIdempotency.get at the time the request came in; a row expired by
\* then does not answer.
LookUp(h) ==
  LET key  == ItemKey(h)
      live == Live(rows, handler[h].since)
      kept == SweptBy(handler[h].since)
  IN /\ AtItem(h, "sendable")
     /\ Item(h).cid # NoId
     /\ rows' = kept
     /\ \/ /\ \E row \in live : row.key = key /\ LookUpHit(h, row)
           /\ excused' = excused \cup KeysIn(rows \ kept)
        \/ /\ key \notin KeysIn(live)
           /\ handler' = [handler EXCEPT ![h].pc = "add"]
           /\ excused' = excused \cup KeysIn(rows \ kept)
                \cup {k \in {key} : k \in KeysIn(rows) \/ InFlight(k) # {}}
     /\ UNCHANGED <<now, inserted, stored, told, answers, silenced, pushes, faults>>

AddUnremembered(h) ==
  /\ handler[h].pc = "add"
  /\ stored' = Append(stored, ItemKey(h))
  /\ handler' = [handler EXCEPT ![h].msg = Len(stored) + 1, ![h].pc = "tell"]
  /\ UNCHANGED <<now, rows, inserted, told, answers, excused, silenced, pushes, faults>>

\* addMessage stores a new message; only keyed items are remembered.
AddMessage(h) ==
  /\ handler[h].pc = "add"
  /\ stored' = Append(stored, ItemKey(h))
  /\ handler' = [handler EXCEPT ![h].msg = Len(stored) + 1,
                                ![h].pc = IF Item(h).cid = NoId THEN "tell" ELSE "set"]
  /\ UNCHANGED <<now, rows, inserted, told, answers, excused, silenced, pushes, faults>>

\* messageIdempotency.set: sweep and trim in memory, an upsert in the table.
Remember(h) ==
  LET base == SweptBy(now)
      kept == Trim(Put(base, ItemKey(h), handler[h].msg))
  IN /\ handler[h].pc = "set"
     /\ rows' = kept
     /\ inserted' = inserted + (IF ItemKey(h) \in KeysIn(base) THEN 0 ELSE 1)
     /\ excused' = excused \cup KeysIn(rows \ base)
                     \cup ((KeysIn(base) \cup {ItemKey(h)}) \ KeysIn(kept))
     /\ handler' = [handler EXCEPT ![h].pc = "tell"]
     /\ UNCHANGED <<now, stored, told, answers, silenced, pushes, faults>>

\* cleanupOccasionally before a set, or ensureReady before an instance's first query.
SweepTable(h) ==
  /\ Store = "postgres"
  /\ handler[h].pc \in {"next", "set"}
  /\ Live(rows, now) # rows
  /\ rows' = Live(rows, now)
  /\ excused' = excused \cup KeysIn(rows \ Live(rows, now))
  /\ UNCHANGED <<now, inserted, stored, handler, told, answers, silenced, pushes, faults>>

BroadcastNothing(h) ==
  /\ handler[h].pc = "tell"
  /\ handler' = [handler EXCEPT ![h].pc = "next", ![h].next = @ + 1,
                                ![h].made = Append(@, handler[h].msg)]
  /\ UNCHANGED <<now, rows, inserted, stored, told, answers, excused, silenced, pushes, faults>>

\* The message joins the answer and is broadcast to the session.
Broadcast(h) ==
  /\ handler[h].pc = "tell"
  /\ told' = told \cup {handler[h].msg}
  /\ handler' = [handler EXCEPT ![h].pc = "next", ![h].next = @ + 1,
                                ![h].made = Append(@, handler[h].msg)]
  /\ UNCHANGED <<now, rows, inserted, stored, answers, excused, silenced, pushes, faults>>

FinishWith(h, status) ==
  /\ answers' = answers \cup
       {[batch |-> handler[h].batch, made |-> handler[h].made, status |-> status]}
  /\ handler' = [handler EXCEPT ![h] = IdleHandler]

Finish(h, status) ==
  /\ FinishWith(h, status)
  /\ UNCHANGED <<now, rows, inserted, stored, told, excused, silenced, pushes, faults>>

\* The batch is through: all its messages are listed in the answer.
Answer(h) ==
  /\ handler[h].pc = "next"
  /\ ~ MoreItems(h)
  /\ Finish(h, "ok")

\* A missing permission answers 403 at once, a throwing addMessage at its
\* await; messages of earlier items stay where they are.
Forbid(h)     == AtItem(h, "forbidden") /\ Finish(h, "error")
FailToAdd(h)  == handler[h].pc = "add" /\ Finish(h, "error")

\* Handlers that have stored a message and neither remembered nor told it.
Unremembered(hs) == {h \in hs : handler[h].pc = "set"}
Untold(hs) == {handler[h].msg : h \in {g \in hs : handler[g].pc \in {"set", "tell"}}}

\* A get or set of the table fails and the request with it: after a set whose
\* answer was lost the row is there all the same.
FailQuery(h) ==
  /\ Store = "postgres"
  /\ faults < MaxFaults
  /\ faults' = faults + 1
  /\ \/ AtItem(h, "sendable") /\ Item(h).cid # NoId /\ rows' = rows /\ UNCHANGED inserted
     \/ handler[h].pc = "set" /\ rows' = rows /\ UNCHANGED inserted
     \/ /\ handler[h].pc = "set"
        /\ rows' = Put(rows, ItemKey(h), handler[h].msg)
        /\ inserted' = inserted + (IF ItemKey(h) \in KeysIn(rows) THEN 0 ELSE 1)
  /\ excused' = excused \cup {ItemKey(g) : g \in Unremembered({h})}
  /\ silenced' = silenced \cup Untold({h})
  /\ FinishWith(h, "error")
  /\ UNCHANGED <<now, stored, told, pushes>>

\* A process dies and its handlers with it; the rows only if it held them.
Restart ==
  /\ faults < MaxFaults
  /\ faults' = faults + 1
  /\ \E dead \in IF Store = "memory" THEN {Handlers} ELSE SUBSET Handlers \ {{}} :
       /\ handler' = [h \in Handlers |-> IF h \in dead THEN IdleHandler ELSE handler[h]]
       /\ excused' = excused \cup {ItemKey(h) : h \in Unremembered(dead)}
                       \cup (IF Store = "memory" THEN KeysIn(rows) ELSE {})
       /\ silenced' = silenced \cup Untold(dead)
  /\ rows' = IF Store = "memory" THEN {} ELSE rows
  /\ UNCHANGED <<now, inserted, stored, told, answers, pushes>>

Tick ==
  /\ now < MaxTime
  /\ now' = now + 1
  /\ UNCHANGED <<rows, inserted, stored, handler, told, answers, excused, silenced, pushes, faults>>

Proceed(h) ==
  \/ SkipItem(h) \/ SendUnkeyed(h) \/ LookUp(h) \/ AddMessage(h) \/ Remember(h)
  \/ Broadcast(h) \/ Answer(h) \/ Forbid(h) \/ FailToAdd(h)

Next ==
  \/ \E h \in Handlers :
       Proceed(h) \/ SweepTable(h) \/ FailQuery(h) \/ \E b \in Batches : Receive(h, b)
  \/ RejectPush
  \/ Restart
  \/ Tick

\* The event loop resumes every handler whose promise has settled.
Fairness == \A h \in Handlers : WF_vars(Proceed(h))

Spec == Init /\ [][Next]_vars /\ Fairness

-----------------------------------------------------------------------------
Row == [key : Keys, msg : Nat \ {0}, expiresAt : Nat, at : Nat]

\* Types of the state; rows and answers refer to messages that are stored.
TypeOK ==
  /\ now \in 0..MaxTime
  /\ rows \subseteq Row
  /\ inserted \in Nat
  /\ stored \in Seq(Keys)
  /\ \A h \in Handlers :
       /\ handler[h].pc \in {"idle", "next", "add", "set", "tell"}
       /\ handler[h].batch \in Batches \cup {NoBatch}
       /\ handler[h].since \in 0..now
       /\ handler[h].msg \in 0..Len(stored)
       /\ handler[h].made \in Seq(1..Len(stored))
  /\ told \subseteq 1..Len(stored)
  /\ excused \subseteq Keys
  /\ silenced \subseteq 1..Len(stored)
  /\ pushes \in 0..MaxPushes
  /\ faults \in 0..MaxFaults

\* A keyed message is stored twice only if its row was dropped (expired,
\* trimmed, lost in a restart), was never written because its handler failed
\* first, or was not there yet when a second push looked: retries after an
\* answer, a refusal or a partial batch are safe.
SecondCopyIsExcused ==
  \A m, n \in DOMAIN stored :
     m < n /\ stored[m] = stored[n] /\ stored[m][2] # NoId => stored[m] \in excused

\* A successful answer lists, in batch order, one message per sendable item,
\* each of the sender and client id of its item, whoever stored it.
AnswerMatchesBatch ==
  \A a \in answers : a.status = "ok" =>
    LET batch    == Admitted(a.batch)
        sendable == {i \in DOMAIN batch : batch[i].verdict = "sendable"}
    IN \E place \in [DOMAIN a.made -> sendable] :
         /\ \A m, n \in DOMAIN a.made : m < n => place[m] < place[n]
         /\ \A i \in sendable : \E n \in DOMAIN a.made : place[n] = i
         /\ \A n \in DOMAIN a.made :
              stored[a.made[n]] = <<a.batch.sender, batch[place[n]].cid>>

\* No message is broadcast twice, however often its batch is sent again.
BroadcastOnce ==
  [][\A h \in Handlers : handler[h].pc = "tell" /\ handler'[h].pc = "next" =>
        handler[h].msg \notin told]_vars

\* A message an answer lists reaches the session's other members, even when a
\* retry was answered between set and broadcast; it stays untold only if the
\* handler that stored it died or failed before its broadcast.
AnsweredIsBroadcast ==
  \A m \in 1..(MaxPushes * BatchMax) :
     (\E a \in answers : \E n \in DOMAIN a.made : a.made[n] = m)
        ~> (m \in told \cup silenced)
=============================================================================
