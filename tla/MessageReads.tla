---------------------------- MODULE MessageReads ----------------------------
(***************************************************************************)
(* What a member of one session learns of its messages: the pull and       *)
(* history handlers of mailbox-message.ts over the stored messages and the *)
(* deletion events of message-lifecycle-store.ts.                          *)
(*                                                                         *)
(* A handler reads the clock, the messages and the deletion events at      *)
(* different instants, and a client that has two requests under way may    *)
(* get the answers in either order, or not at all.                         *)
(*                                                                         *)
(* External: storage.addMessage, updateMessage, deleteMessage and          *)
(* getMessages, and the client.  The client asks for what is new since     *)
(* just before the newest event it has seen, adds the messages of an       *)
(* answer to its view and then takes out every id the answer calls         *)
(* deleted.  Deletions also come from MessageDeadlines.                    *)
(*                                                                         *)
(* A list is the set of its items, which know their place in it.           *)
(***************************************************************************)
EXTENDS Integers, FiniteSets

CONSTANTS
  MessageIds,    \* message ids, in the order they are handed out
  Requests,      \* requests a client can have under way at once
  Limit,         \* how many items a request asks for
  WindowMs,      \* MAILBOX_PULL_WINDOW_DEFAULT_MS
  ReconcileMax,  \* METADATA_PULL_BATCH_MAX * 6
  MaxEvents,     \* max in recordMessageDeletion
  MaxTime        \* bound: the clock stops here

ASSUME ReadsAssumption ==
  /\ MessageIds \subseteq Nat \ {0}
  /\ Limit \in Nat \ {0} /\ WindowMs \in Nat
  /\ ReconcileMax \in Nat \ {0} /\ MaxEvents \in Nat \ {0} /\ MaxTime \in Nat \ {0}

VARIABLES
  now,        \* Date.now()
  messages,   \* the session's messages
  events,     \* messageDeleteEvents of the session
  request,    \* progress of the client's requests
  view,       \* what the client shows: pairs of id and eventTs
  newest,     \* the newest eventTs the client was sent
  deleted,    \* history: ids of deleted messages
  cut         \* history: messages an answer had no room for, as they are now

client == <<request, view, newest, cut>>
vars   == <<now, messages, events, deleted, client>>

-----------------------------------------------------------------------------
TimestampOnly(m) == m.ts

LastChange(m) == IF m.editedAt > m.ts THEN m.editedAt ELSE m.ts

\* eventTs
EventTs(m) == LastChange(m)

\* What an answer says of a message: its id and which version it is.
Shown(m) == <<m.id, LastChange(m)>>

IdsOf(list) == {item.id : item \in list}

ShownOf(list) == {Shown(m) : m \in list}

\* slice(-n)
LastOf(list, n) == {item \in list : Cardinality({x \in list : x.at > item.at}) < n}

Exists(id) == id \in IdsOf(messages)

\* getMessageDeleteEvents
DeleteEvents(since, from, to, most) ==
  LastOf({e \in events : e.ts > since /\ e.ts >= from /\ e.ts <= to},
         IF most < MaxEvents THEN most ELSE MaxEvents)

EveryDeleteEvent == DeleteEvents(0, 0, MaxTime, ReconcileMax)

\* recordMessageDeletion: the oldest events beyond the maximum go.
WithEvent(id) ==
  LastOf(events \cup {[id |-> id, ts |-> now, at |-> Cardinality(deleted)]}, MaxEvents)

\* The messages of a pull, before and after its cut to the limit.
Matching(since, from, to) ==
  {m \in messages : EventTs(m) > since /\ EventTs(m) >= from /\ EventTs(m) <= to}

Free == [pc |-> "free", op |-> "pull", since |-> 0, end |-> 0,
         found |-> {}, gone |-> {}, before |-> {}]

-----------------------------------------------------------------------------
Init ==
  /\ now = 1
  /\ messages = {}
  /\ events = {}
  /\ deleted = {}
  /\ request = [r \in Requests |-> Free]
  /\ view = {}
  /\ newest = 0
  /\ cut = {}

\* addMessage, at the end of the list; ids number the messages in its order.
Send(id) ==
  /\ \A n \in MessageIds : n < id => Exists(n) \/ n \in deleted
  /\ ~ Exists(id) /\ id \notin deleted
  /\ messages' = messages \cup {[id |-> id, at |-> id, ts |-> now, editedAt |-> 0]}
  /\ UNCHANGED <<now, events, deleted, client>>

\* Action "edit" of a message that is still there when updateMessage looks.
Edit(m) ==
  /\ m \in messages
  /\ messages' = (messages \ {m}) \cup {[m EXCEPT !.editedAt = now]}
  /\ cut' = cut \ {m.id}
  /\ UNCHANGED <<now, events, deleted, request, view, newest>>

RecordOnly(id) ==
  /\ Exists(id)
  /\ events' = WithEvent(id)
  /\ deleted' = deleted \cup {id}
  /\ UNCHANGED <<now, messages, request, view, newest, cut>>

\* deleteMessage and deleteMessageBySystem: the message goes, its event stays.
DeleteMessage(id) ==
  /\ Exists(id)
  /\ messages' = {m \in messages : m.id # id}
  /\ events' = WithEvent(id)
  /\ deleted' = deleted \cup {id}
  /\ cut' = cut \ {id}
  /\ UNCHANGED <<now, request, view, newest>>

-----------------------------------------------------------------------------
Step(r, fields) == request' = [request EXCEPT ![r] = fields]

\* A pull, or a history request for what is not later than end.
Ask(r, op, end) ==
  /\ request[r].pc = "free"
  /\ Step(r, [Free EXCEPT !.op = op, !.end = end, !.before = deleted,
                          !.since = IF newest > 0 THEN newest - 1 ELSE 0,
                          !.pc = IF op = "pull" THEN "messages" ELSE "reconcile"])
  /\ UNCHANGED <<now, messages, events, deleted,
                 view, newest, cut>>

AskPull(r) == Ask(r, "pull", now)
AskHistory(r) == \E end \in 1..now : Ask(r, "history", end)

WindowStart(r) == IF request[r].end > WindowMs THEN request[r].end - WindowMs ELSE 0

\* Pull: getMessages, those in the window, the last of them.
ReadMessages(r) ==
  LET matching == Matching(request[r].since, WindowStart(r), request[r].end)
      wanted   == Matching(request[r].since, 0, request[r].end)
      found    == LastOf(matching, Limit)
  IN /\ request[r].pc = "messages" /\ request[r].op = "pull"
     /\ Step(r, [request[r] EXCEPT !.found = ShownOf(found), !.pc = "deletes"])
     /\ cut' = cut \cup (IdsOf(wanted) \ IdsOf(found))
     /\ UNCHANGED <<now, messages, events, deleted, view, newest>>

\* Pull: the deletions of the window.
ReadDeletes(r) ==
  /\ request[r].pc = "deletes"
  /\ Step(r, [request[r] EXCEPT !.pc = "reconcile", !.since = 0, !.end = 0,
       !.gone = IdsOf(DeleteEvents(request[r].since, WindowStart(r), request[r].end, Limit))])
  /\ UNCHANGED <<now, messages, events, deleted,
                 view, newest, cut>>

ReconcileWindow(r) ==
  /\ request[r].pc = "reconcile"
  /\ Step(r, [request[r] EXCEPT !.pc = IF request[r].op = "pull" THEN "answer" ELSE "messages"])
  /\ UNCHANGED <<now, messages, events, deleted,
                 view, newest, cut>>

\* allDeleteEvents: last in a pull, first in a history request.
ReadAllDeletes(r) ==
  /\ request[r].pc = "reconcile"
  /\ Step(r, [request[r] EXCEPT !.gone = @ \cup IdsOf(EveryDeleteEvent),
                !.pc = IF request[r].op = "pull" THEN "answer" ELSE "messages"])
  /\ UNCHANGED <<now, messages, events, deleted,
                 view, newest, cut>>

\* History: the last messages not later than its end and not among the deleted.
ReadHistory(r) ==
  /\ request[r].pc = "messages" /\ request[r].op = "history"
  /\ Step(r, [request[r] EXCEPT !.pc = "answer",
       !.since = 0, !.end = 0,
       !.found = ShownOf(LastOf({m \in messages :
                   m.ts <= request[r].end /\ m.id \notin request[r].gone}, Limit))])
  /\ UNCHANGED <<now, messages, events, deleted,
                 view, newest, cut>>

\* A message the client has in a newer version keeps it.
Merged(shown, found) ==
  LET all == shown \cup found
  IN {x \in all : ~ \E y \in all : y[1] = x[1] /\ y[2] > x[2]}

NewestOf(found) ==
  CHOOSE t \in {newest} \cup {x[2] : x \in found} :
    t >= newest /\ \A x \in found : t >= x[2]

\* An answer reaches the client; only pulls move its cursor.
Apply(r) ==
  LET found == request[r].found IN
  /\ request[r].pc = "answer"
  /\ view' = {x \in Merged(view, found) : x[1] \notin request[r].gone}
  /\ newest' = IF request[r].op = "pull" THEN NewestOf(found) ELSE newest
  /\ Step(r, Free)
  /\ UNCHANGED <<now, messages, events, deleted, cut>>

\* A handler fails or its answer is lost; it has only read.
LoseAnswer(r) ==
  /\ request[r].pc \notin {"free", "answer"}
  /\ Step(r, Free)
  /\ UNCHANGED <<now, messages, events, deleted,
                 view, newest, cut>>

Tick ==
  /\ now < MaxTime
  /\ now' = now + 1
  /\ UNCHANGED <<messages, events, deleted, client>>

Next ==
  \/ \E id \in MessageIds : Send(id) \/ DeleteMessage(id)
  \/ \E m \in messages : Edit(m)
  \/ \E r \in Requests :
       \/ AskPull(r) \/ AskHistory(r) \/ ReadMessages(r) \/ ReadDeletes(r)
       \/ ReadAllDeletes(r) \/ ReadHistory(r) \/ Apply(r) \/ LoseAnswer(r)
  \/ Tick

Spec == Init /\ [][Next]_vars

-----------------------------------------------------------------------------
Message == [id : MessageIds, at : MessageIds, ts : 1..now, editedAt : 0..now]

DeleteEvent == [id : deleted, ts : 1..now, at : Nat]

\* Types of the state; a message is there or deleted, never both.
TypeOK ==
  /\ now \in 1..MaxTime
  /\ messages \subseteq Message
  /\ events \subseteq DeleteEvent
  /\ deleted \subseteq MessageIds \ IdsOf(messages)
  /\ view \subseteq MessageIds \X (1..now)
  /\ \A x, y \in view : x[1] = y[1] => x = y
  /\ newest \in 0..now
  /\ cut \subseteq IdsOf(messages)

\* A client that keeps asking from just before the newest event it has seen
\* misses nothing older: it shows the current version of every message, unless
\* an answer had no room for it or its window did not reach back so far.
NothingSkipped ==
  \A m \in messages :
    LastChange(m) < newest => Shown(m) \in view \/ m.id \in cut

\* Deletions that were recorded before a request and are still listed.
Listed(r) == request[r].before \cap IdsOf(EveryDeleteEvent)

\* An answer never leaves a message in the view that was deleted before its
\* request, not even one that a late answer to an older request brought back,
\* for as long as the deletion is among the last ReconcileMax of the session.
DeletionsReachTheView ==
  [][\A r \in Requests :
       request[r].pc = "answer" /\ request'[r].pc = "free" =>
         \A x \in view' : x[1] \notin Listed(r)]_vars
=============================================================================
