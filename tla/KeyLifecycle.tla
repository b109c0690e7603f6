---------------------------- MODULE KeyLifecycle ----------------------------
(***************************************************************************)
(* Key records: creation with a reserved label, extension, idle and expiry *)
(* clean-up, the expiry of all keys (server/storage/key-lifecycle-store.ts)*)
(*                                                                         *)
(* Every function here changes the key map before its first await, so each *)
(* is one step.  What deleting a key does to sessions, messages and events *)
(* is in SessionStorage; here a deleted key is simply no longer a key.     *)
(* Clean-up runs when a timer outside the code calls it: a key may stay in *)
(* the map after its expiry for any time.                                  *)
(***************************************************************************)
EXTENDS Integers

CONSTANTS
  KeyIds,            \* ids handed out by randomUUID: each is used once
  Labels,            \* normalized labels
  NoLabel,           \* the key has no label
  Ttls,              \* lifetimes clients ask for; 0 asks for a key without end
  AllowNonExpiring,  \* the server's security policy
  MaxIdleMs,         \* idle time after which a key is killed
  Never,             \* Number.MAX_SAFE_INTEGER
  MaxTime,           \* bound: the clock stops here
  MaxExtensions      \* bound: extensions granted

ASSUME TimesAssumption ==
  /\ Ttls \subseteq Nat
  /\ Never \in Nat /\ MaxTime \in Nat /\ MaxTime < Never
  /\ MaxIdleMs \in Nat /\ MaxExtensions \in Nat

ASSUME LabelsAssumption == NoLabel \notin Labels

ASSUME PolicyAssumption == AllowNonExpiring \in BOOLEAN

VARIABLES
  now,         \* Date.now()
  issued,      \* ids given out so far
  keys,        \* the records of the ids in "held"
  held,        \* DOMAIN of the key map
  extensions,  \* extensions granted so far
  revived,     \* history: keys extended after they had expired
  swept        \* history: keys that expireAllKeys hit

vars == <<now, issued, keys, held, extensions, revived, swept>>

-----------------------------------------------------------------------------
KeyRecord ==
  [label : Labels \cup {NoLabel}, ttl : Nat, expiresAt : Nat,
   isActive : BOOLEAN, lastSeenAt : Nat]

NoRecord ==
  [label |-> NoLabel, ttl |-> 0, expiresAt |-> 0, isActive |-> FALSE, lastSeenAt |-> 0]

\* Active and not expired.
Current(id) == id \in held /\ keys[id].isActive /\ keys[id].expiresAt > now

LabelReservedSwapped(label) ==
  label # NoLabel /\ \E id \in held :
     keys[id].isActive /\ keys[id].expiresAt <= now /\ keys[id].label = label

\* isLabelReservedByExistingKey
LabelReserved(label) ==
  label # NoLabel /\ \E id \in held : Current(id) /\ keys[id].label = label

ExpiryBefore(ttl) == IF ttl = 0 THEN Never ELSE now - ttl

\* A lifetime of 0 stands for a key without end.
ExpiryOf(ttl) == IF ttl = 0 THEN Never ELSE now + ttl

Expired == {id \in held : keys[id].expiresAt <= now}

Idle == {id \in held : keys[id].isActive /\ now - keys[id].lastSeenAt > MaxIdleMs}

\* deleteKeyRuntimeMetadata
Drop(ids) ==
  /\ held' = held \ ids
  /\ keys' = [id \in KeyIds |-> IF id \in ids THEN NoRecord ELSE keys[id]]
  /\ UNCHANGED <<now, issued, extensions, revived, swept>>

-----------------------------------------------------------------------------
Init ==
  /\ now = 0
  /\ issued = {}
  /\ keys = [id \in KeyIds |-> NoRecord]
  /\ held = {}
  /\ extensions = 0
  /\ revived = {}
  /\ swept = {}

\* createKey: the label must be free and the lifetime allowed.
CreateKey(id, label, ttl) ==
  /\ id \notin issued
  /\ ~ LabelReserved(label)
  /\ ttl > 0 \/ AllowNonExpiring
  /\ issued' = issued \cup {id}
  /\ held' = held \cup {id}
  /\ keys' = [keys EXCEPT ![id] =
       [label |-> label, ttl |-> ttl, expiresAt |-> ExpiryOf(ttl),
        isActive |-> TRUE, lastSeenAt |-> now]]
  /\ UNCHANGED <<now, extensions, revived, swept>>

\* extendKey: half the lifetime more, for any active key still in the map.
ExtendKey(id) ==
  /\ id \in held
  /\ keys[id].isActive
  /\ extensions < MaxExtensions
  /\ extensions' = extensions + 1
  /\ keys' = [keys EXCEPT ![id].expiresAt = @ + keys[id].ttl \div 2]
  /\ revived' = revived \cup {k \in {id} : keys[id].expiresAt <= now}
  /\ UNCHANGED <<now, issued, held, swept>>

\* touchKeyActivity
TouchKey(id) ==
  /\ id \in held
  /\ keys[id].isActive
  /\ keys' = [keys EXCEPT ![id].lastSeenAt = now]
  /\ UNCHANGED <<now, issued, held, extensions, revived, swept>>

KillKey(id) == id \in held /\ Drop({id})

\* cleanupInactiveKeys: killKey for every idle key, in one go.
CleanupInactiveKeys == Idle # {} /\ Drop(Idle)

\* cleanupExpiredKeys: every key found expired is deleted, in one go.
CleanupExpiredKeys == Expired # {} /\ Drop(Expired)

ExpireAllByClock ==
  /\ held # {}
  /\ keys' = [id \in KeyIds |->
       IF id \in held THEN [keys[id] EXCEPT !.expiresAt = now] ELSE keys[id]]
  /\ swept' = swept \cup held
  /\ UNCHANGED <<now, issued, held, extensions, revived>>

\* expireAllKeys
ExpireAllKeys ==
  /\ held # {}
  /\ keys' = [id \in KeyIds |->
       IF id \in held THEN [keys[id] EXCEPT !.isActive = FALSE, !.expiresAt = now]
       ELSE keys[id]]
  /\ swept' = swept \cup held
  /\ UNCHANGED <<now, issued, held, extensions, revived>>

Tick ==
  /\ now < MaxTime
  /\ now' = now + 1
  /\ UNCHANGED <<issued, keys, held, extensions, revived, swept>>

\* createKey that throws, extendKey and killKey of an unknown key.
Refuse == UNCHANGED vars

Next ==
  \/ \E id \in KeyIds, label \in Labels \cup {NoLabel}, ttl \in Ttls :
       CreateKey(id, label, ttl)
  \/ \E id \in KeyIds : ExtendKey(id) \/ TouchKey(id) \/ KillKey(id)
  \/ CleanupInactiveKeys \/ CleanupExpiredKeys \/ ExpireAllKeys
  \/ Refuse
  \/ Tick

Spec == Init /\ [][Next]_vars

-----------------------------------------------------------------------------
\* Types of the state; only ids that were given out are held or remembered.
TypeOK ==
  /\ now \in 0..MaxTime
  /\ issued \subseteq KeyIds
  /\ keys \in [KeyIds -> KeyRecord]
  /\ held \subseteq issued
  /\ extensions \in 0..MaxExtensions
  /\ revived \subseteq issued
  /\ swept \subseteq issued

\* A username belongs to one current key: two current keys can share a label
\* only if extendKey brought one of them back after its expiry.
LabelSharedOnlyByRevival ==
  \A i, j \in KeyIds :
     i # j /\ Current(i) /\ Current(j) /\ keys[i].label = keys[j].label
       /\ keys[i].label # NoLabel
     => i \in revived \/ j \in revived

\* "Username is reserved only by active, non-expired keys": while a key is
\* active and not expired, no other such key has its label.
LabelIsReserved ==
  \A i, j \in KeyIds :
     i # j /\ Current(i) /\ Current(j) /\ keys[i].label = keys[j].label
     => keys[i].label = NoLabel

\* expireAllKeys is final: no extension, touch or clean-up makes a key it hit
\* usable again.
ExpireAllIsFinal == \A id \in swept : ~ Current(id)
=============================================================================
