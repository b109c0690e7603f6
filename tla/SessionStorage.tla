--------------------------- MODULE SessionStorage ---------------------------
(***************************************************************************)
(* Sessions, their per-session stores and the deletion lifecycle: creating,*)
(* joining, leaving, ending and deleting sessions, and purging everything  *)
(* linked to a public key when one of its keys is killed or expires        *)
(* (server/storage: session-core, session-lifecycle, key-lifecycle and     *)
(* storage-deletion-purge).                                                *)
(*                                                                         *)
(* Each function changes the in-memory maps before its first await, so it  *)
(* is one step; destroySession awaits its event before it deletes, creating*)
(* and joining await theirs before they add a notice to the session's      *)
(* messages, and a push awaits between its guards and its message: these   *)
(* are two.  There is no clock: a key may expire and a session may be      *)
(* marked at any moment.  The rows of the smaller per-session stores and   *)
(* the messages are written by code outside the repository: NewRow and     *)
(* Deliver add what those stores may hold.                                 *)
(***************************************************************************)
EXTENDS Integers, FiniteSets

CONSTANTS
  KeyIds,           \* ids of key records; each is used once
  PublicKeys,       \* public keys; several ids may share one
  PublicKeyOf,      \* the public key a key id is created with
  Sids,             \* session ids; each is used once
  Nodes,            \* infrastructure nodes
  NodesOf,          \* the nodes selected for a session
  MaxParticipants,  \* session.maxParticipants
  StrictPassphrase, \* creatorOnlyStrictPassphrase
  LoggedTypes,      \* bound: the types of event kept in the log
  StoresInUse,      \* bound: the stores NewRow fills
  MaxRows,          \* bound: rows NewRow keeps at once
  MaxMessages,      \* bound: messages when somebody sends one
  MaxUnderway,      \* bound: equal messages on their way at once
  MaxDestroying     \* bound: destroySession calls waiting at once

NoSession == "no session"
NoKeyId == "no key id"
NoPublicKey == "no public key"

\* The sender of a notice.
System == "system"

ASSUME NamesAssumption ==
  /\ PublicKeyOf \in [KeyIds -> PublicKeys]
  /\ NodesOf \in [Sids -> SUBSET Nodes]
  /\ NoSession \notin Sids /\ NoKeyId \notin KeyIds
  /\ NoPublicKey \notin PublicKeys /\ System \notin PublicKeys

ASSUME SizesAssumption ==
  /\ IsFiniteSet(Sids)
  /\ MaxParticipants \in Nat \ {0} /\ MaxRows \in Nat /\ MaxMessages \in Nat
  /\ MaxUnderway \in Nat /\ MaxDestroying \in Nat
  /\ StrictPassphrase \in BOOLEAN

VARIABLES
  keys,         \* "unused", "active", "inactive" (expireAllKeys) or "gone"
  sessions,     \* status and members of every session id
  load,         \* node.activeSessions
  messages,     \* messages: session, author and whether the author is named
  underway,     \* how many of each message are on their way to addMessage
  rows,         \* rows of the other stores: store, session, public keys named
  events,       \* the event log
  destroying,   \* sessions whose destroySession waits for its event
  left,         \* history: <<session, public key>> that left, until a purge
  undercounted, \* history: nodes a terminateSession has lowered
  overtaken     \* history: messages on their way when their session was deleted

pending == <<underway, overtaken>>
history == <<left, undercounted>>

vars == <<keys, sessions, load, messages, rows, events, destroying, history, pending>>

-----------------------------------------------------------------------------
(* Records *)

Ended == {"expired", "terminated"}
Listed == {"active", "expiring_soon"} \cup Ended

Member == [pk : PublicKeys, keyId : KeyIds, creator : BOOLEAN]

Session == [status : Listed \cup {"none", "deleted"}, members : SUBSET Member]

\* Stores emptied with their session, and stores that name a public key.
SessionStores ==
  {"trace", "passphrase", "grant", "joinRequest", "invite", "writeBlock",
   "reentryBlock", "feedback", "task"}

LinkedStoresNoGrants ==
  {"task", "reputation", "feedback", "trust", "joinRequest", "writeBlock",
   "reentryBlock"}

\* The stores purgePublicKeyLinkedStores goes through.
LinkedStores ==
  {"task", "reputation", "feedback", "trust", "joinRequest", "grant", "writeBlock",
   "reentryBlock"}

Row(store, sid, about) == [store |-> store, sid |-> sid, about |-> about]

\* A task names who created it and who it is assigned to.
TaskRow(s, creator, assignee) == Row("task", s, {creator, assignee})

\* Tasks go with either of the two, rows of the other linked stores likewise.
LinkedRow(r, p) == r.store \in LinkedStores /\ p \in r.about

Messages == [sid : Sids, author : PublicKeys \cup {System}, named : BOOLEAN]

Message(s, author, named) == [sid |-> s, author |-> author, named |-> named]

\* The notice of a start or a join, which names nobody.
Notice(s) == Message(s, System, TRUE)

Event(type, sid, keyId, pk) == [type |-> type, sid |-> sid, keyId |-> keyId, pk |-> pk]

Logged(es) == {e \in es : e.type \in LoggedTypes}

SessionEvent(type, sid) == Event(type, sid, NoKeyId, NoPublicKey)
KeyEvent(type, id) == Event(type, NoSession, id, NoPublicKey)

Exists(s) == sessions[s].status \in Listed

Held(id) == keys[id] \in {"active", "inactive"}

PksOf(members) == {m.pk : m \in members}

Participants(s) == PksOf(sessions[s].members)

\* getSessionCreatorPublicKey.  The participants list only ever holds the
\* creator and loses it together with the details, so the fallback to its
\* first element never finds anyone else.
IsCreator(s, p) == \E m \in sessions[s].members : m.creator /\ m.pk = p

CreatedBy(p) == {s \in Sids : Exists(s) /\ IsCreator(s, p)}

MembersWithout(s, p) == {m \in sessions[s].members : m.pk # p}

HasRow(store, s, about) == Row(store, s, about) \in rows

\* canUseSessionMessages
CanUseMessages(s, p) ==
  /\ Exists(s)
  /\ p \in Participants(s)
  /\ \/ IsCreator(s, p)
     \/ /\ ~ StrictPassphrase
        /\ HasRow("passphrase", s, {})
        /\ HasRow("grant", s, {p})

-----------------------------------------------------------------------------
(* Deleting sessions and purging a public key *)

Underway == {m \in Messages : underway[m] > 0}

KeepLoad(n, sids) == load[n]

\* Each deleted session lowers the count of its nodes, never below zero.
Lowered(n, sids) ==
  LET sum == Cardinality({s \in sids : n \in NodesOf[s]}) IN
  IF load[n] > sum THEN load[n] - sum ELSE 0

Deleted == [status |-> "deleted", members |-> {}]

RowsForgotten(rs, sids) ==
  {r \in rs : r.sid \notin sids \/ r.store \notin SessionStores \ {"writeBlock"}}

\* purgeDeletedSessionStores
RowsWithout(rs, sids) == {r \in rs : r.sid \notin sids \/ r.store \notin SessionStores}

Overtaken(sids) == {m \in Underway : m.sid \in sids}

DeleteSessions(sids) ==
  /\ sessions' = [s \in Sids |-> IF s \in sids THEN Deleted ELSE sessions[s]]
  /\ load' = [n \in Nodes |-> Lowered(n, sids)]
  /\ messages' = {m \in messages : m.sid \notin sids}
  /\ rows' = RowsWithout(rows, sids)
  /\ overtaken' = overtaken \cup Overtaken(sids)

LinkedAfterRemoval(m, p) == m.author = p /\ m.named

\* isMessageLinkedToPurgedPublicKey: by sender, or, for a message that only
\* carries a scope id, through the peer index of a session p is still in.
LinkedMessage(m, p) == m.author = p /\ (m.named \/ p \in Participants(m.sid))

\* shouldKeepEventAfterPublicKeyPurge
KeptEvent(e, p, ids, created) == e.pk # p /\ e.keyId \notin ids /\ e.sid \notin created

\* purgePublicKeyData: messages first, then created sessions, memberships,
\* linked stores and events; "before" joins the log first, "after" last.
PurgePublicKey(p, ids, before, after) ==
  LET linked  == {m \in messages : LinkedMessage(m, p)}
      created == CreatedBy(p)
      traces  == {Row("trace", m.sid, {}) : m \in linked}
  IN /\ sessions' = [s \in Sids |->
          IF s \in created THEN Deleted
          ELSE IF ~ Exists(s) THEN sessions[s]
          ELSE [members |-> MembersWithout(s, p),
                status  |-> IF MembersWithout(s, p) = {} THEN "terminated"
                            ELSE sessions[s].status]]
     /\ load' = [n \in Nodes |-> Lowered(n, created)]
     /\ messages' = {m \in messages \ linked : m.sid \notin created}
     /\ rows' = {r \in RowsWithout(rows \ traces, created) : ~ LinkedRow(r, p)}
     /\ events' = {e \in events \cup Logged(before) : KeptEvent(e, p, ids, created)}
                      \cup Logged(after)
     /\ left' = {l \in left : l[2] # p}
     /\ overtaken' = overtaken \cup Overtaken(created)

-----------------------------------------------------------------------------
Init ==
  /\ keys = [id \in KeyIds |-> "unused"]
  /\ sessions = [s \in Sids |-> [status |-> "none", members |-> {}]]
  /\ load = [n \in Nodes |-> 0]
  /\ messages = {}
  /\ rows = {}
  /\ events = {}
  /\ destroying = {}
  /\ left = {}
  /\ undercounted = {}
  /\ underway = [m \in Messages |-> 0]
  /\ overtaken = {}

CreateKey(id) ==
  /\ keys[id] = "unused"
  /\ keys' = [keys EXCEPT ![id] = "active"]
  /\ events' = events \cup Logged({KeyEvent("key.created", id)})
  /\ UNCHANGED <<sessions, load, messages, rows, destroying, history, pending>>

\* A message sets out for addMessage.
Send(m) ==
  /\ underway[m] < MaxUnderway
  /\ underway' = [underway EXCEPT ![m] = @ + 1]

\* assertCreateSessionCreatorKeyAllowed
MayCreate(id) == keys[id] = "active"

\* createSession, up to its await: the creator is its only participant, its
\* nodes count it, and its start has to be announced.
CreateSession(id, s) ==
  /\ MayCreate(id)
  /\ sessions[s].status = "none"
  /\ Send(Notice(s))
  /\ sessions' = [sessions EXCEPT ![s] =
       [status  |-> "active",
        members |-> {[pk |-> PublicKeyOf[id], keyId |-> id, creator |-> TRUE]}]]
  /\ load' = [n \in Nodes |-> load[n] + (IF n \in NodesOf[s] THEN 1 ELSE 0)]
  /\ events' = events \cup Logged({SessionEvent("session.created", s)})
  /\ UNCHANGED <<keys, messages, rows, destroying, history, overtaken>>

JoinAgain(id, s) ==
  LET p == PublicKeyOf[id] IN
  /\ keys[id] = "active"
  /\ sessions[s].status \in {"active", "expiring_soon"}
  /\ ~ HasRow("reentryBlock", s, {p})
  /\ Cardinality(Participants(s)) < MaxParticipants
  /\ Send(Notice(s))
  /\ sessions' = [sessions EXCEPT ![s].members =
       @ \cup {[pk |-> p, keyId |-> id, creator |-> FALSE]}]
  /\ events' = events \cup Logged({SessionEvent("session.joined", s)})
  /\ UNCHANGED <<keys, load, messages, rows, destroying, history, overtaken>>

\* joinSession, up to its await, by a key that is not in the session yet and has
\* no re-entry block.  The key's reputation and blocks between peers may also
\* refuse it: those joins do not happen.
JoinSession(id, s) ==
  LET p == PublicKeyOf[id] IN
  /\ keys[id] = "active"
  /\ sessions[s].status \in {"active", "expiring_soon"}
  /\ ~ HasRow("reentryBlock", s, {p})
  /\ p \notin Participants(s)
  /\ Cardinality(Participants(s)) < MaxParticipants
  /\ Send(Notice(s))
  /\ sessions' = [sessions EXCEPT ![s].members =
       @ \cup {[pk |-> p, keyId |-> id, creator |-> FALSE]}]
  /\ events' = events \cup Logged({SessionEvent("session.joined", s)})
  /\ UNCHANGED <<keys, load, messages, rows, destroying, history, overtaken>>

LeaveUnblocked(s, p) ==
  /\ Exists(s)
  /\ sessions' = [sessions EXCEPT ![s].members = MembersWithout(s, p)]
  /\ rows' = rows \ {Row("writeBlock", s, {p})}
  /\ events' = events \cup Logged({SessionEvent("session.left", s)})
  /\ left' = left \cup {<<s, p>>}
  /\ UNCHANGED <<keys, load, messages, destroying, undercounted, pending>>

\* leaveSession: out, kept from coming back, no longer write-blocked, whether or
\* not p was in.
LeaveSession(s, p) ==
  /\ Exists(s)
  /\ sessions' = [sessions EXCEPT ![s].members = MembersWithout(s, p)]
  /\ rows' = (rows \ {Row("writeBlock", s, {p})}) \cup {Row("reentryBlock", s, {p})}
  /\ events' = events \cup Logged({SessionEvent("session.left", s)})
  /\ left' = left \cup {<<s, p>>}
  /\ UNCHANGED <<keys, load, messages, destroying, undercounted, pending>>

\* terminateSession: the session stays listed, its nodes stop counting it.
TerminateSession(s) ==
  /\ Exists(s)
  /\ sessions' = [sessions EXCEPT ![s].status = "terminated"]
  /\ load' = [n \in Nodes |-> Lowered(n, {s})]
  /\ undercounted' = undercounted \cup NodesOf[s]
  /\ events' = events \cup Logged({SessionEvent("session.terminated", s)})
  /\ UNCHANGED <<keys, messages, rows, destroying, left, pending>>

\* destroySession, up to its await ...
StartDestroy(s) ==
  /\ Exists(s)
  /\ destroying' = destroying \cup {s}
  /\ Cardinality(destroying') <= MaxDestroying
  /\ events' = events \cup Logged({SessionEvent("session.terminated", s)})
  /\ UNCHANGED <<keys, sessions, load, messages, rows, history, pending>>

\* ... and after it: the session may be gone by then.
FinishDestroy(s) ==
  /\ s \in destroying
  /\ destroying' = destroying \ {s}
  /\ \/ Exists(s) /\ DeleteSessions({s})
     \/ ~ Exists(s) /\ UNCHANGED <<sessions, load, messages, rows, overtaken>>
  /\ UNCHANGED <<keys, events, history, underway>>

Expiry(s, status) == {SessionEvent("session.expired", s) : x \in {status} \cap Ended}

MarkAnySession(s, status) ==
  /\ Exists(s)
  /\ sessions' = [sessions EXCEPT ![s].status = status]
  /\ events' = events \cup Logged(Expiry(s, status))
  /\ UNCHANGED <<keys, load, messages, rows, destroying, history, pending>>

\* markExpiredSessions touches active sessions only: shortly before their end,
\* or after it.
MarkSession(s, status) ==
  /\ sessions[s].status = "active"
  /\ sessions' = [sessions EXCEPT ![s].status = status]
  /\ events' = events \cup Logged(Expiry(s, status))
  /\ UNCHANGED <<keys, load, messages, rows, destroying, history, pending>>

MarkAllTerminated ==
  /\ sessions' = [s \in Sids |->
       IF Exists(s) THEN [sessions[s] EXCEPT !.status = "terminated"] ELSE sessions[s]]
  /\ UNCHANGED <<keys, load, messages, rows, events, destroying, history, pending>>

DropAllKeys ==
  /\ keys' = [id \in KeyIds |-> IF keys[id] = "active" THEN "gone" ELSE keys[id]]
  /\ UNCHANGED <<sessions, load, messages, rows, events, destroying, history, pending>>

\* expireAllKeys
DeactivateAllKeys ==
  /\ keys' = [id \in KeyIds |-> IF keys[id] = "active" THEN "inactive" ELSE keys[id]]
  /\ UNCHANGED <<sessions, load, messages, rows, events, destroying, history, pending>>

\* killKey, by its owner or by the idle clean-up.
KillKey(id) ==
  /\ Held(id)
  /\ PurgePublicKey(PublicKeyOf[id], {id}, {},
       {Event("key.killed", NoSession, id, PublicKeyOf[id])})
  /\ keys' = [keys EXCEPT ![id] = "gone"]
  /\ UNCHANGED <<destroying, undercounted, underway>>

\* What an expired key announces before it is purged.
ExpiryEvents(id) ==
  LET p == PublicKeyOf[id] IN
  {KeyEvent("key.expired", id)}
    \cup {Event("session.terminated", s, id, NoPublicKey) : s \in CreatedBy(p)}
    \cup {Event("session.left", s, id, NoPublicKey) :
            s \in {t \in Sids : Exists(t) /\ p \in Participants(t)} \ CreatedBy(p)}

ExpireKeyAnnounceLast(id) ==
  /\ Held(id)
  /\ PurgePublicKey(PublicKeyOf[id], {id}, {}, ExpiryEvents(id))
  /\ keys' = [keys EXCEPT ![id] = "gone"]
  /\ UNCHANGED <<destroying, undercounted, underway>>

\* cleanupExpiredKeys, one key at a time.
ExpireKey(id) ==
  /\ Held(id)
  /\ PurgePublicKey(PublicKeyOf[id], {id}, ExpiryEvents(id), {})
  /\ keys' = [keys EXCEPT ![id] = "gone"]
  /\ UNCHANGED <<destroying, undercounted, underway>>

IdsOf(p) == {id \in KeyIds : PublicKeyOf[id] = p /\ Held(id)}

\* removePublicKeyFromAllSessions: a purge that leaves the key records.
RemovePublicKey(p) ==
  /\ PurgePublicKey(p, IdsOf(p), {}, {})
  /\ UNCHANGED <<keys, destroying, undercounted, underway>>

\* killUserData: the records of all keys go too, and the notice names nobody.
KillUserData(p) ==
  /\ PurgePublicKey(p, IdsOf(p), {}, {KeyEvent("key.killed", NoKeyId)})
  /\ keys' = [id \in KeyIds |-> IF id \in IdsOf(p) THEN "gone" ELSE keys[id]]
  /\ UNCHANGED <<destroying, undercounted, underway>>

\* Rows the other stores may get for session s.
PossibleRows(s) ==
  {Row(store, s, {}) : store \in {"passphrase", "invite"}}
    \cup {Row(store, s, {p}) : store \in {"grant", "writeBlock"}, p \in Participants(s)}
    \cup {Row("joinRequest", s, {p}) : p \in PublicKeys \ Participants(s)}
    \cup {TaskRow(s, p, q) : p \in Participants(s), q \in Participants(s)}
    \cup {Row("feedback", s, {p, q}) : p \in Participants(s), q \in Participants(s)}

NewRow(s) ==
  /\ Exists(s)
  /\ \E row \in PossibleRows(s) :
       /\ row.store \in StoresInUse
       /\ rows' = rows \cup {row}
       /\ Cardinality(rows') <= MaxRows
  /\ UNCHANGED <<keys, sessions, load, messages, events, destroying, history, pending>>

\* addMessage for those who may use the session's messages, up to the await
\* between the guards of a push and the message.
SendMessage(s, p, named) ==
  LET m == Message(s, p, named) IN
  /\ CanUseMessages(s, p)
  /\ Send(m)
  /\ Cardinality(messages \cup Underway \cup {m}) <= MaxMessages
  /\ UNCHANGED <<keys, sessions, load, messages, rows, events, destroying, history, overtaken>>

\* addMessage moves the session's trace head.
AddMessage(m) ==
  /\ messages' = messages \cup {m}
  /\ rows' = rows \cup {Row("trace", m.sid, {})}

\* What follows the await.  The session may be gone by then, and nothing on the
\* way looks; the call may also fail, and then there is no message.
Deliver(m) ==
  /\ underway[m] > 0
  /\ underway' = [underway EXCEPT ![m] = @ - 1]
  /\ AddMessage(m) \/ UNCHANGED <<messages, rows>>
  /\ UNCHANGED <<keys, sessions, load, events, destroying, history, overtaken>>

KeyStep(id) == CreateKey(id) \/ KillKey(id) \/ ExpireKey(id)

SessionStep(s) ==
  \/ \E id \in KeyIds : CreateSession(id, s) \/ JoinSession(id, s)
  \/ \E p \in PublicKeys :
       LeaveSession(s, p) \/ \E named \in BOOLEAN : SendMessage(s, p, named)
  \/ TerminateSession(s) \/ StartDestroy(s) \/ FinishDestroy(s) \/ NewRow(s)
  \/ \E status \in {"expiring_soon", "expired"} : MarkSession(s, status)

Next ==
  \/ \E id \in KeyIds : KeyStep(id)
  \/ \E s \in Sids : SessionStep(s)
  \/ \E m \in Messages : Deliver(m)
  \/ \E p \in PublicKeys : RemovePublicKey(p) \/ KillUserData(p)
  \/ DeactivateAllKeys
  \/ MarkAllTerminated

Spec == Init /\ [][Next]_vars

-----------------------------------------------------------------------------
\* Types of the state; only listed sessions have members, each member once.
TypeOK ==
  /\ keys \in [KeyIds -> {"unused", "active", "inactive", "gone"}]
  /\ sessions \in [Sids -> Session]
  /\ load \in [Nodes -> Nat]
  /\ messages \subseteq Messages
  /\ \A r \in rows : r.sid \in Sids /\ r.about \subseteq PublicKeys
  /\ \A s \in Sids : \A m, n \in sessions[s].members : m.pk = n.pk => m = n
  /\ destroying \subseteq Sids
  /\ left \subseteq Sids \X PublicKeys
  /\ undercounted \subseteq Nodes
  /\ underway \in [Messages -> Nat]
  /\ overtaken \subseteq Messages

\* Killing, expiring or purging any key of a public key takes the public key
\* out of every session: no member outlives the key record it joined with.
MembersHaveKeys ==
  \A s \in Sids : \A m \in sessions[s].members :
     Held(m.keyId) /\ PublicKeyOf[m.keyId] = m.pk

\* Whichever path deletes a session, what is left of it are messages that the
\* deletion overtook: stored by a start, a join or a push whose await it came
\* into, with the trace row addMessage makes, and never looked for again.
OnlyOvertakenRemain ==
  /\ \A s \in Sids : ~ Exists(s) => sessions[s].members = {}
  /\ \A m \in messages : Exists(m.sid) \/ m \in overtaken
  /\ \A r \in rows : Exists(r.sid)
                     \/ \E m \in overtaken : r = Row("trace", m.sid, {})

\* Who left a session is out until everything about the public key is purged:
\* neither a rejoin nor a second key id of the same public key brings it back.
LeftStaysOut == \A l \in left : Exists(l[1]) => l[2] \notin Participants(l[1])

\* activeSessions never counts more sessions than exist on a node, and counts
\* them exactly until a terminateSession lowers it for a session still listed.
LoadNeverOvercounts ==
  \A n \in Nodes :
    LET sum == Cardinality({s \in Sids : Exists(s) /\ n \in NodesOf[s]}) IN
    load[n] <= sum /\ (n \notin undercounted => load[n] = sum)

\* When a key record goes, everything linked to its public key goes with it:
\* memberships, rows, named messages, scope-id messages of the sessions it was
\* still in, and every event (a sibling id's notice too) but the notice of this
\* kill.
PurgeIsComplete ==
  [][\A id \in KeyIds : Held(id) /\ ~ Held(id)' =>
       LET p == PublicKeyOf[id] IN
       /\ \A s \in Sids : p \notin Participants(s)'
       /\ \A r \in rows' : p \notin r.about
       /\ \A m \in messages' : m.author = p => ~ m.named /\ p \notin Participants(m.sid)
       /\ \A e \in events' : e.pk = p \/ e.keyId = id
            => e = Event("key.killed", NoSession, id, p)]_vars

\* Joining is not access: even after a purge has lifted the re-entry block, no
\* grant of an earlier stay lets the new member read or write messages.
JoinGrantsNoAccess ==
  [][\A s \in Sids, p \in PublicKeys :
       Exists(s) /\ p \notin Participants(s) /\ p \in Participants(s)'
         => ~ CanUseMessages(s, p)']_vars

\* An ended or deleted session is never opened again, and no session returns
\* from its last minute to plain activity.
StatusRank(status) ==
  CASE status = "none" -> 0 [] status = "active" -> 1 [] status = "expiring_soon" -> 2
    [] status \in Ended -> 3 [] status = "deleted" -> 4

StatusOnlyAdvances ==
  [][\A s \in Sids : StatusRank(sessions[s].status) <= StatusRank(sessions'[s].status)]_vars
=============================================================================
