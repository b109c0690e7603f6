# Verification of voryx-sessions-core

TLA+ models of the server side of voryx-sessions-core, the TLC instances that
check them and the TLAPS proofs about them. Paths are relative to the
repository (`src/`). `PROJECT.json` lists the runs, the source lines behind
every definition, the hazards and the findings.

    tlc -config RequestAuth_full.cfg MCRequestAuth     # one run
    tlapm RequestAuth_proofs.tla                       # the proofs of one module

## 1. The system

The repository is a snapshot of a larger server: functions over maps that the
storage class passes in, Express handlers, and two stores with a memory and a
Postgres version. JavaScript runs a function without interruption up to its
next `await`, so an interleaving can only happen at an await or between
processes that share a database.

| Component | State | Operations | Correct when |
|---|---|---|---|
| Request authentication (`request-auth.ts`) | none of its own | `verifyRequestSignature`: headers, timestamp, body hash, signature, then `consume` | a request that was let through is not let through again; a failing request leaves no trace |
| Nonce store (`request-nonce-store.ts`) | Map `used`, or table `voryx_request_nonces`, `ready`, `cleanupCounter` | `consume`, `cleanup`, `trim`, `ensureReady` | both rows of a nonce are stored or none; rows outlive the timestamp window |
| Schema lock (`postgres-schema-lock.ts`) | an advisory lock on a pooled client | `withPostgresSchemaLock` | a set-up ends whatever happens to the set-ups before it |
| Mailbox push (`mailbox-message.ts`) | local to each request | `pushHandler` | retries store nothing twice; every stored message is announced once |
| Message idempotency (`mailbox-message-idempotency.ts`) | Map `rows`, or a table | `get`, `set`, `cleanup`, `trim` | as above, within its size limit |
| Mailbox pull, history, actions (`mailbox-message.ts`) | local | `pull`, `history`, `action`, token routes | a member sees each message and each deletion |
| Mailbox plane (`mailbox-plane-state.ts`, `mailbox-plane-store.ts`) | buckets and tokens with expiry, in Maps or tables | resolve a bucket, issue, resolve and delete tokens | a token only works for what it was issued for, while that still holds; a member has one bucket |
| Access guards, access policy | reads sessions and grants | permission checks, `canUseSessionMessages` | membership alone does not open messages |
| Key lifecycle (`key-lifecycle-store.ts`) | `keys`, `keyOwners`, `keyLastSeenAt` | create, extend, touch, kill, idle and expiry clean-up, `expireAllKeys` | a username has one current key; an ended key stays ended |
| Session core and lifecycle (`session-core-store.ts`, `session-lifecycle-store.ts`) | `sessions`, `nodes[].activeSessions` | create, join, leave, terminate, destroy, mark expired, delete | members belong there; of a deleted session only messages that were on their way remain |
| Deletion and purge (`storage-deletion-purge.ts`) | all of the above plus events | session deletion, public-key purge, kill user or owner data | everything linked to a public key goes |
| Message lifecycle (`message-lifecycle-store.ts`) | deletion events, deadlines, reactions | record, expire, list | no deletion is missed |
| Tasks, reputation, feedback | rows and counters | create, update, delete; scores and blocks; posts and reactions | rows go with whom they name; votes count in one direction; a client counts once |
| Ratchet (`native/voryx-crypto-wasm`) | chain keys and counters | step, receive, seal, open | the two sides stay in step; nothing opens twice unless the receiver reopens an older sealed state |
| Cryptography and encodings | none | hash, sign, canonicalise | outside the reach of model checking |

Interactions: every guarded route first calls `verifyRequestSignature`, which
awaits the nonce store; the mailbox routes then resolve a route token through
the plane, which re-checks the session through the guards; `pushHandler` awaits
the idempotency store, `storage.addMessage` and `pubsub`; timers outside the
repository call the clean-ups; killing, expiring or purging a key calls the
purge, which walks through messages, sessions, the smaller stores and the event
log. The hard parts are the awaits in the Postgres `consume` and in
`pushHandler`, stores that forget (expiry, trim, restart), clean-ups that come
late, and the order in which a purge does its work. `PROJECT.json` lists each
hazard at its line.

## 2. Modules

`SignedRequest` holds the checks of `verifyRequestSignature` and the two store
keys. `RequestAuth` (memory store) and `RequestAuthPostgres` both extend it and
both implement `ReplayProtection`, the abstract single-use promise.

* **ReplayProtection** knows a clock and how often each request was let
  through: `Serve` needs an authentic request inside its timestamp window whose
  nonce no served request with a running deadline has used. `GraceMs` is the
  longest wait between the timestamp check and the consumption.
* **RequestAuth**: `used` is the Map as a set of rows that carry their insertion
  position, since `trim` deletes in that order. The memory `consume` has no
  await, so `AcceptRequest` is the whole of `verifyRequestSignature` with
  `cleanup`, both inserts and `trim`. `Restart` empties the Map. `lost` records
  the global keys that left the Map before they expired.
* **RequestAuthPostgres**: `VerifyRequest` does the checks and puts the handler
  into `pending`; the transaction comes later as `CommitConsume`,
  `RollBackConsume` or `FailConsume`, whose third branch is a COMMIT that
  succeeded although its answer was lost. `SetUpSchema` and `FailSchema` are
  `ensureReady`, whose promise is memoised either way. `sweepIn` is
  `cleanupCounter++ % 1000`. The transaction is one step: the primary key makes
  conflicting inserts wait for each other and ROLLBACK undoes the sweep.
* **MailboxPush**: one handler per push in progress, over the memory or the
  Postgres idempotency store (`Store`). Each await ends a step: `LookUp` (get),
  `AddMessage`, `Remember` (set), `Broadcast`. `Forbid` and `FailToAdd` answer
  early; in Postgres `FailQuery` fails a get or a set (which may have taken
  effect all the same), `SweepTable` is the occasional clean-up, and single
  processes die. `excused` collects the keys whose row was dropped, never written
  because the handler failed first, or not there yet during a race: the only
  excuses for a second copy. `silenced` collects messages whose handler was lost
  before its broadcast.
* **MailboxPlane**: one worker per request. `AskToken` is a plane-token route:
  the guards, then `ResolveBucket` (message plane only), then `IssueToken`.
  `PresentToken` is a request with a token: `ReadToken`, `CheckRow`, `CheckKey`,
  then the same guards `ReadSession`, `CheckMember`, `CheckCreator`,
  `CheckGrant`; a failed check before the guards deletes the token
  (`DropToken`). Each check follows its own await, so the environment (kill,
  join, leave, grant, revoke, end of a session) steps in between. Both stores
  are in: memory sweeps in every call and is lost in a restart, Postgres keeps
  expired rows until `SweepTables` and reads its clock before the awaits.
  `entitled` is what a request could have seen at one instant since it came in.
* **MessageReads**: a client's pulls and history requests. Messages and deletion
  events are sets of items that know their place in the list. A pull reads messages
  (`ReadMessages`), the deletions of its window (`ReadDeletes`) and all
  deletions (`ReadAllDeletes`) at three instants, a history request the other
  way round; `Apply` is the answer's arrival, in any order. `cut` collects what
  an answer had no room for.
* **MessageDeadlines**: `Register` keeps the earliest deadline; the scheduler's
  timer may come late or never, and `CleanupExpired` comes round for what is due.
* **SchemaLock**: every instance has a pool of its own; the lock holds one client
  while the statements want a second. Faults are failing connections, statements
  and unlocks, and crashes, after which the database ends the session.
* **Ratchet**: keys are terms (the chain after n derivations), the counter wraps
  (release build) or panics (with overflow checks, chosen in `Init`), messages
  are lost, repeated and reordered, and either side may reopen an older copy.
* **KeyReputation** and **PublicFeedback**: the decision over votes and strikes;
  posts and reactions through export, import and reset, with digests as terms.
* **Parts** composes the last five (they share nothing); `Init` chooses
  which of them a behaviour is about and `part` never changes, so each of them
  runs exactly as it would alone and one run covers all five. **MCParts** gives it
  its constants.
* **KeyLifecycle**: the key records with a clock. Clean-up may come at any time
  after an expiry because its timer is outside the repository.
* **SessionStorage**: sessions with status and members, the nodes' counts,
  messages, one set of rows for all the smaller stores, and the event log.
  `PurgePublicKey` follows `purgePublicKeyData` in its order: messages (with the
  trace heads of the sessions they are taken from), sessions the key created,
  memberships, linked stores, events. `KillKey`, `ExpireKey`, `RemovePublicKey`
  and `KillUserData` differ in the key ids they pass and in what they log before
  and after. What follows an await is a step of its own: `StartDestroy` and
  `FinishDestroy` are the two halves of `destroySession`; `CreateSession` and
  `JoinSession` put their notice, and `SendMessage` a member's message, into
  `underway`, and `Deliver` takes it to `addMessage`, when the session may be gone.
  `overtaken` remembers the messages that were on their way when their session was
  deleted.

`MC*` modules give the constants values. Operators that are not used by the
specification and stand just before the one they resemble are the deliberate
mistakes the mutation check swaps in.

## 3. What is checked

| Run | Question | Instance |
|---|---|---|
| `memory` | what holds when nonces are dropped early, and is the single-use promise kept until then? | 5 requests, skew 1, TTL 3, room for 4 rows, one restart |
| `evict` (violation) | are replays always rejected? | as above, no restart |
| `shared` | does the shared table keep the promise? | 2 instances, skew 1, wait 1, TTL 4, one fault |
| `retry` | can a retry store or broadcast twice? | memory; 2 handlers, 3 pushes of two batches with a common client id, 2 rows, one restart |
| `answers` | is every answered message broadcast, and what do failing queries cost? | Postgres; 2 handlers, 2 pushes, skipped, unkeyed and forbidden items, batch limit 3, one fault |
| `labels` | who may hold a username? | 3 keys, 1 label, lifetimes 2 and none, clock to 3, 2 extensions |
| `reservation` (violation) | is a username reserved by its current key? | as above |
| `access` | who can read what after joins, leaves and purges? | 1 session, 3 key ids of 2 public keys; passphrase and grant rows, one member's message beside the notices |
| `ends` | do all ways to end a session leave the stores and counts right, also when messages come late? | 2 sessions of one owner on 1 node; every store, one member's message beside the notices |
| `plane` | can a request get through, or to a token, on checks that never held together? | both stores; 1 worker, 3 key ids of 2 public keys, 1 session, 2 tokens and buckets |
| `reads` | does a client that keeps asking miss a message or keep a deleted one? | 2 messages, 2 requests at once, answers cut to 1, window 2, 1 deletion listed |
| `parts` | do set-ups end, due messages go, the ratchet sides stay in step, votes pull one way, clients count once? | 3 instances with pools of 1 and 2; 2 messages, 3 ticks; counters of 3 values, 5 derivations; 12 votes; 2 posts, 2 clients |

Why the bounds are enough. *Replay*: two requests with one nonce, two clock ticks
beyond the TTL and one spare request are what a replay needs; the TTL of the
passing runs is the smallest that works (`NonceTtlMs = 2 * SkewMs` in memory,
`2 * SkewMs + ConsumeDelayMax` in Postgres already fail). *Push*: a second copy
needs two pushes of one key, and a third push lets a trimmed or expired row meet
a retry. *Keys*: a clash over a label needs two keys, an expiry and one
extension. *Sessions*: a purge is interesting with a second key id of the same
public key, another member, and one message, grant and row, which is `access`; two
sessions on one node are what the counts need, and their one owner can still lose
only one of them in a purge, having left the other. `ends` uses all nine stores and
both kinds of message, notices and members', and joins happen in `access`. *Plane*: two key ids of one public key separate
the token's own key from its owner, the creator's key gives and takes grants, one
tick expires a row; the checks of one request race with the environment and not
with another request, which only meets it in the bucket table, where every
operation is one statement. A request that
strays names a session or route that is not its token's. *Reads*: two messages and
answers of one are enough for a cut, an edit that overtakes a newer message, and a
deletion that falls out of a list of one. *Ratchet*: three counter values and five
derivations cross the wrap with messages of both eras under way.
`MaxTime`, `MaxInserted`, `MaxRestarts`,
`MaxFaults`, `MaxPushes`, `MaxExtensions`, `MaxRows`, `MaxMessages`, `MaxUnderway`
(equal messages on their way at once), `MaxDestroying` (calls of `destroySession`
waiting at once; none in `access`), `MaxTokens`,
`MaxChain`, `MaxVotes` and `LoggedTypes` are bounds of the model and not of the
code. `LoggedTypes` leaves event types a run does not look at out of its log.
Symmetry is used for the key ids of `KeyLifecycle`, the two key ids of one owner
in `SessionStorage` and `MailboxPlane`, the two sessions of `ends` and the requests of `MessageReads`, in runs without liveness.

Deadlock is checked in every run but two. In `plane` nobody can ask for anything
once every key is gone and no token was issued, and in `parts` a set-up that is done
and a store without messages stop for good. A request or call that is refused is a
stuttering step.

Fairness. `MailboxPush`: every handler's next step, since the event loop resumes a
handler whose promise has settled and the promises settle unless the process dies
(`Restart`). `SchemaLock`: the next step of every set-up for the same reason, and
the database ends the session of a client that is gone. `MessageDeadlines`: time
passes and the periodic clean-up comes round for each due message, which
`cleanupExpiredMessageDeletesScoped` exists for; nothing is assumed of the timers.
Nothing is assumed of clients. The other modules claim no liveness.

### Findings

* `evict`: `trim()` drops the oldest nonces whether or not they have expired. Past
  `requestNonceCacheMax` a replayed request with a fresh timestamp is accepted
  (`request-nonce-store.ts:42`), against `docs/PROTOCOL_SPEC.md:112-115`. What
  remains true is `ReplayNeedsLostNonce`.
* `reservation`: `extendKeyScoped` does not look at the expiry
  (`key-lifecycle-store.ts:487`). It revives a key whose label has been given
  away, against the comment at line 69. What remains true is
  `LabelSharedOnlyByRevival`.

Also seen while modelling, and contradicted by no document: the notice of a start
or a join (`session-core-store.ts:199`, `:233`) and a pushed message are added after
an await at which nobody looks for the session again, so they can be stored for a
session that has been deleted, and no later step takes them out on its account
(`OnlyOvertakenRemain` allows exactly that); `terminateSession`
lowers `activeSessions` and leaves the session in the map, so a later end lowers
it again (`LoadNeverOvercounts` allows exactly that); the notice of `killKey`
names the key and public key just purged, while that of `killUserData` names
nobody (`PurgeIsComplete` excepts it); a session marked `expiring_soon` is never
marked `expired`; a pool of one client starves the statements of a set-up that
holds the lock with it, and the failure is remembered until a restart
(`SetUpSucceeds` excepts it); when `set` fails after `addMessage`, the retry
stores a second copy and nobody is told of the first; after a wrap of its
counter, a stretch of lost messages puts the ratchet's sides out of step for good
(`InStep`); a sender that reopens an old sealed state uses a message key twice; an
approval can keep a key out if it is the vote that reaches the total for
enforcement (`VotesPullOneWay`); a message token can outlive the bucket it names,
since the life of a bucket is counted from its creation.

## 4. What is proved

Every safety property of the passing runs is a theorem of its module,
for every value of the constants that meets the named assumptions: any number of
requests, instances, handlers, keys, sessions, messages and clients, all limits and
times to live. Each `*_proofs` module begins with its inductive invariant `IInv`,
which was model-checked on the run of its module before it was proved; the
properties alone are not inductive. Then follow lemmas on the operators, one lemma
per action or group of actions, and the theorems.

* `RequestAuth_proofs`: `TypeCorrect`, `ReplayOnlyByLoss`,
  `PairsCutFromTheScope`, `FailuresBurnNoNonce`, `NewestSurvives` (for
  `CacheMax >= 2`) and `KeepsPromiseWhileNothingLost`, the refinement of
  `ReplayProtection` by every behaviour that loses no nonce, if
  `NonceTtlMs > 2 * SkewMs`. `IInv` adds that
  positions are unique and below `inserted`, that a scoped row is followed by
  its global row at the next position with the same expiry, and that the nonce
  of every served request is either stored until after its window, or lost, or
  its window is over. `TrimDeletes` and `TrimKeepsNewer` say what `trim` may
  remove; the middle of a pair can only be cut from the scoped side because the
  order of positions is the order of deletion.
* `RequestAuthPostgres_proofs`: `TypeCorrect`, `PairsAreAtomic` and
  `SharedTableKeepsPromise`, the refinement of `ReplayProtection` by any number of
  instances over one table, if `TtlCoversWait`, that is
  `NonceTtlMs > 2 * SkewMs + ConsumeDelayMax`. `IInv` adds that no handler waits
  longer than `ConsumeDelayMax`, and that the global row of a served request
  expires after the last instant at which a copy could be let through. A sweep
  then takes no row that still matters, and a commit that finds neither row only
  serves what has no served copy within its deadline.
* `KeyLifecycle_proofs`: `KeysTypeCorrect`, `LabelsAreExclusive` and
  `ExpiryOfAllIsFinal`. `IInv` says that two active, unexpired keys share a label
  only if one of them was revived, that every revived key was issued, and that
  what `expireAllKeys` hit stays inactive; one lemma per action.
* `SessionStorage_proofs`: `TypeCorrect`, `MembersKeepTheirKeys`,
  `OnlyLateMessagesOutlive`, `LeaversStayOut`, `CountersFollowSessions`,
  `PurgeLeavesNothing`, `JoiningIsNotAccess` and `StatusNeverGoesBack`. `IInv` adds
  that every row that names somebody is in a store the purge goes through, that a
  grant belongs to a member or to someone behind a re-entry block, and that who left
  has that block, and that what is on its way to a session that is gone was
  overtaken by its deletion (`LateAreOvertaken`). All ways to end a key go through one lemma on
  `PurgePublicKey`; the counters need that the sessions it deletes are counted once
  on each of their nodes.
* `MailboxPush_proofs`, for both stores: `TypeCorrect`, `SecondCopiesAreExcused`,
  `AnswersAreComplete` and `NothingIsToldTwice`. `IInv` says that a keyed message
  has its row, or a handler about to write it, or an excuse (`StoredRemembered`);
  that two handlers past a lookup of one key in vain have excused it
  (`RacesExcused`), and so has one about to store what is there (`AddsExcused`);
  that a handler on its way to the broadcast carries a message of its own nobody has
  told of; and that `made` lists one message per item so far.
* `MailboxPlane_proofs`, for both stores: `TypeCorrect`, `GuardsAddUp`,
  `TokensStayInScope` and `BucketsAreOfOneMember`. `Scoped` is what a request's token
  has been checked for so far; `Vetted` is what `entitled` must have recorded
  whatever happens around the request. Its central part: whoever is a member now
  and holds a grant if one is needed, with a key that was active since the request
  came in, has been entitled. It needs that members have an active key
  (`MembersAreActive`). For buckets, `ClaimsAgree` says of everyone who has been
  told of a bucket (tokens, stored buckets, requests about to issue a token) that
  they are one member.
* `MessageReads_proofs`: `TypeCorrect`, `PullsMissNothing` and `DeletionsAreSeen`.
  `IInv` says that nothing shown or found is newer than what is stored, that what a
  pull found has no gap above the client's cursor (`NoGap`), and that a request
  which has read the whole list of deletions knows those from before it that are
  still listed. A deletion that fell out of a list of bounded length never comes
  back into it (`LastOfAdded`), and a message that changes is as new as the clock;
  so what a request knows stays true while the server moves on (`ServerKeeps`),
  in whatever order requests end.
* `Parts_proofs` proves the safety properties of three of the five small modules,
  from `PartsAssumption`. `RatchetsStayInStep`: counters are
  chains modulo `Counters`, on both sides, in every sealed copy and message, so
  catching up by counters reaches the key exactly within one era; for counters of
  any width. `VotesNeverBackfire`: the rounded rate reaches a limit of 1 to 100
  percent exactly if a linear inequality of the weights does (`RateReaches`), which
  gives monotony; limits of a score below zero and of at least one strike are
  assumed, as the code has them. `VoicesAreCountedOnce`: reactions and the clients'
  last words are in bijection, for any finite set of clients. Each is stated of
  its module's own initial states and steps; `PartsAreSafe` takes the three over
  to `Parts`, whose behaviours are behaviours of each of its modules
  (`PartsRunAlone`).

Proving changed the models in three places. In `MessageReads` a list is the set of
its items with their places, since the provers know nothing of what `SelectSeq`
and recursion over sequences return, and its clock is assumed to have a first tick.
`AnswerMatchesBatch` states by an order-preserving map what it stated by
`SelectSeq`. `BatchShape` says that the items of a batch are a sequence.

Only model-checked: the liveness properties `AnsweredIsBroadcast`, `SetUpSucceeds`
and `DueIsDeleted`, since fairness and ENABLED are out of the prover's reach. That
`trim` and the cut of a list leave at most so many items is an induction over data,
which the provers cannot do, and is stated nowhere; no proof needs it.

## 5. Assumptions and abstractions

* `requireRequestSignature` is on. Nonces and names are in canonical form:
  trimmed, without the separator that joins store keys, so that store keys are
  compared as tuples. Body hash and signature are one flag, `authentic`.
* Clocks do not go back, and the instances' clocks agree; time passes in units.
* `storage.addMessage` stores one message or throws; for a session that is gone the
  model has both, since the code at hand does not tell. `addEvent` appends to the log before its
  first await. `pubsub` does not throw. These are outside the repository.
* `get` and `set` of the memory idempotency store await their own synchronous
  `cleanup`: the microtask in between is merged with the operation.
* Each storage function changes its maps before its first await, hence one step;
  what it does after the await is another.
* A peer id is known for current members only, as the comment at
  `storage-deletion-purge.ts:190` says of the peer index.
* The list `participants` only ever holds the creator, so the fallback in
  `getSessionCreatorPublicKey` finds nobody else.
* `joinSession` gives the role of a plain participant. A join refused by
  reputation or by a block between peers is a join that does not happen.
* Rows of passphrases, grants, invites, join requests, write blocks, feedback and
  tasks are put in by code outside the repository: `NewRow` adds those that can exist
  while the session does. A leave without a public key only logs its event.
* A passphrase grant exists only beside its session's passphrase, so `hasGrant`
  stands for both in `MailboxPlane`. The routes that issue control tokens are
  outside the repository and are taken to check what a use checks.
* A client asks for what is newer than just before the newest event it was sent,
  adds what an answer brings and then removes what the answer calls deleted. It
  may lose an answer. `getMessages` has room for a session's messages.
* A failing unlock is a failing connection, whose session the database ends.
* `KeyReputation` rounds the exact ratio half up. The code's float falls short of a
  half for some ratios, the first being 23 of 40, and its rate is then one percent
  lower; the totals of the run stay below that, and a float rate grows with the
  ratio as the exact one does.
* No client id begins with the prefix of a digest (`pfr1_`, `storage-utils.ts:239`),
  which `sanitizeStoredFeedbackReactionActor` takes as it is.
* The clients of the ratchet keep a new state only if the message opened.
* Every disappearing message has the same time to live, and `markMessagesRead`
  registers its deadlines as `decrypt_ack` does.

## 6. Not modelled, and the plan

Next, in this order:

1. `SchemaLock` and `MessageDeadlines`: the safety their liveness rests on (one
   set-up at a time inside the lock, a deadline that never moves later), stated,
   model-checked with the parts and proved.
2. `MailboxPush`: that a message whose broadcast is outstanding has a live handler
   or is in `silenced`, the invariant under `AnsweredIsBroadcast`.
3. A clock in `SessionStorage`, for the hazards no property covers yet: a key past
   its expiry that joins, a session that is never marked expired.

Left out of modelled components: starring and pinning (a toggled set), control
events, `requireSessionCreator` and permissions (their routes are elsewhere),
updates and cancellation of tasks (callbacks from outside), the warning flags of
`getKeyRiskState`, look-ups, the order of listings, answer wording and padding.

Left out for good: cryptographic primitives and canonical encodings (stateless,
and only meaningful with their bytes), type declarations, constants and index
strings, deletion certificates, and deletion by owner tag, whose purge is outside
the repository.
