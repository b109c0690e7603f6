---------------------------- MODULE MailboxPlane ----------------------------
(***************************************************************************)
(* Mailbox capabilities: the tokens of mailbox-plane-state.ts, the two     *)
(* stores of mailbox-plane-store.ts and the guards that a request passes   *)
(* on its way to a mailbox (session-access-guards.ts).                     *)
(*                                                                         *)
(* Every check of a request comes after an await of its own, so keys,      *)
(* memberships, grants and sessions may change between any two of them.    *)
(* Those are external here: what the functions of SessionStorage do to     *)
(* them, as far as the checks can tell.                                    *)
(*                                                                         *)
(* Tokens are numbered in the order they are issued; a row never changes,  *)
(* so a handler that is told a token's number knows what its row says, and *)
(* reads from the store whether the row is still there.                    *)
(***************************************************************************)
EXTENDS Integers, Sequences, FiniteSets

CONSTANTS
  Providers,     \* the stores to look at: VORYX_MAILBOX_PLANE_STORE
  Workers,       \* requests that can be in progress at once
  KeyIds,        \* key ids
  OwnerOf,       \* KeyIds -> public keys
  Creator,       \* the public key that created the sessions
  Sessions,      \* session ids
  NoSession,     \* session and key of a worker without a request
  MessageTtl,    \* mailboxMessagePlaneTokenTtlMs
  ControlTtl,    \* mailboxControlPlaneTokenTtlMs
  LeastBucketTtl,\* 10 minutes
  MaxTime,       \* bound: the clock stops here
  MaxTokens      \* bound: tokens and buckets ever minted, each

PublicKeys == {OwnerOf[k] : k \in KeyIds}

Planes == {"message", "control"}

ASSUME OwnersAssumption == DOMAIN OwnerOf = KeyIds /\ Creator \in PublicKeys

ASSUME PlaneAssumption ==
  /\ Providers \subseteq {"memory", "postgres"}
  /\ MessageTtl \in Nat /\ ControlTtl \in Nat /\ LeastBucketTtl \in Nat
  /\ MaxTime \in Nat /\ MaxTokens \in Nat

VARIABLES
  provider,   \* which store this deployment has
  now,        \* Date.now()
  active,     \* key ids with an active record
  sessions,   \* sessions that exist
  members,    \* pairs of session and public key
  grants,     \* pairs of session and public key that hold a passphrase grant
  minted,     \* rows of all tokens ever issued
  tokens,     \* numbers of the tokens the store holds
  buckets,    \* rows of the bucket capabilities the store holds
  opened,     \* buckets minted so far
  worker      \* progress of each request

environment == <<active, sessions, members, grants>>
store       == <<minted, tokens, buckets, opened>>
vars        == <<provider, now, environment, store, worker>>

-----------------------------------------------------------------------------
Idle == [pc |-> "idle", op |-> "none", plane |-> "message", session |-> NoSession,
         key |-> NoSession, token |-> 0, strays |-> FALSE, since |-> 0, bucket |-> 0,
         keyLived |-> FALSE, entitled |-> FALSE]

Subject(w) == <<worker[w].session, OwnerOf[worker[w].key]>>

\* mailboxBucketCapabilityTtlMs
BucketTtl ==
  CHOOSE t \in {MessageTtl, ControlTtl, LeastBucketTtl} :
    \A u \in {MessageTtl, ControlTtl, LeastBucketTtl} : u <= t

LiveTokens(t)  == {n \in tokens : minted[n].expiresAt > t}
LiveBuckets(t) == {b \in buckets : b.expiresAt > t}

\* cleanup(now) opens every memory operation but deleteToken.
KeptTokens(t)  == IF provider = "memory" THEN LiveTokens(t) ELSE tokens
KeptBuckets(t) == IF provider = "memory" THEN LiveBuckets(t) ELSE buckets

\* Postgres reads the clock before the awaits of its sweep, memory in the call.
Clock(w) == IF provider = "memory" THEN now ELSE worker[w].since

\* What the guards ask of a public key, all at one instant: an active key, an
\* existing session, membership and, for messages, creation or a grant.
Entitled(w, keys, open, present, granted) ==
  /\ \E k \in keys : OwnerOf[k] = Subject(w)[2]
  /\ Subject(w)[1] \in open
  /\ Subject(w) \in present
  /\ worker[w].plane = "message" => Subject(w)[2] = Creator \/ Subject(w) \in granted

\* Progress of the requests after a change around them: what each could have
\* seen since it came in.
Witnessed ==
  worker' = [w \in Workers |->
    IF worker[w].pc \in {"idle", "drop"} THEN worker[w]
    ELSE [worker[w] EXCEPT
            !.entitled = @ \/ Entitled(w, active', sessions', members', grants')]]

-----------------------------------------------------------------------------
Init ==
  /\ provider \in Providers
  /\ now = 0
  /\ active = KeyIds
  /\ sessions = Sessions
  /\ members = {<<s, Creator>> : s \in Sessions}
  /\ grants = {}
  /\ minted = <<>>
  /\ tokens = {}
  /\ buckets = {}
  /\ opened = 0
  /\ worker = [w \in Workers |-> Idle]

-----------------------------------------------------------------------------
\* A new request about key k and session s: entitled is what holds as it arrives.
Began(w, request) ==
  [request EXCEPT
     !.since = now,
     !.keyLived = request.key \in active,
     !.entitled =
        /\ \E k \in active : OwnerOf[k] = OwnerOf[request.key]
        /\ request.session \in sessions
        /\ <<request.session, OwnerOf[request.key]>> \in members
        /\ request.plane = "message" =>
             \/ OwnerOf[request.key] = Creator
             \/ <<request.session, OwnerOf[request.key]>> \in grants]

\* The plane-token routes: a verified key asks for a token of session s.
AskToken(w, k, s, plane) ==
  /\ worker[w].pc = "idle"
  /\ k \in active
  /\ Len(minted) < MaxTokens
  /\ worker' = [worker EXCEPT ![w] = Began(w,
       [Idle EXCEPT !.pc = "session", !.op = "issue", !.plane = plane,
                    !.session = s, !.key = k])]
  /\ UNCHANGED <<provider, now, environment, store>>

\* A mailbox request with token n, bound for a plane; its route may name a
\* session or a route token that is not the token's own, and so stray.
PresentToken(w, n, strays, plane) ==
  /\ worker[w].pc = "idle"
  /\ n \in DOMAIN minted
  /\ worker' = [worker EXCEPT ![w] = Began(w,
       [Idle EXCEPT !.pc = "token", !.op = "use", !.plane = plane, !.token = n,
                    !.session = minted[n].session, !.key = minted[n].key,
                    !.strays = strays])]
  /\ UNCHANGED <<provider, now, environment, store>>

GoTo(w, pc) == worker' = [worker EXCEPT ![w].pc = pc]

Refuse(w) == worker' = [worker EXCEPT ![w] = Idle]

\* Of a request whose token is to be dropped, only the token matters.
Condemn(w) ==
  worker' = [worker EXCEPT ![w] = [Idle EXCEPT !.pc = "drop", !.token = worker[w].token]]

\* store.getToken: no row, one of the other plane or an expired one is refused.
ReadToken(w) ==
  LET found == {n \in LiveTokens(now) \cap {worker[w].token} :
                  minted[n].plane = worker[w].plane}
  IN /\ worker[w].pc = "token"
     /\ tokens' = KeptTokens(now)
     /\ buckets' = KeptBuckets(now)
     /\ IF found = {} THEN Refuse(w) ELSE GoTo(w, "row")
     /\ UNCHANGED <<provider, now, environment, minted, opened>>

\* A row of another session or route, or expired meanwhile, is dropped.
CheckRow(w) ==
  /\ worker[w].pc = "row"
  /\ IF worker[w].strays \/ minted[worker[w].token].expiresAt <= now
     THEN Condemn(w) ELSE GoTo(w, "key")
  /\ UNCHANGED <<provider, now, environment, store>>

CheckKeyOfOwner(w) ==
  /\ worker[w].pc = "key"
  /\ IF \E k \in active : OwnerOf[k] = OwnerOf[worker[w].key]
     THEN GoTo(w, "session") ELSE Condemn(w)
  /\ UNCHANGED <<provider, now, environment, store>>

\* storage.getKey: the token's own key must still be active.
CheckKey(w) ==
  /\ worker[w].pc = "key"
  /\ IF worker[w].key \in active THEN GoTo(w, "session") ELSE Condemn(w)
  /\ UNCHANGED <<provider, now, environment, store>>

\* store.deleteToken, then 401 or 403.
DropToken(w) ==
  /\ worker[w].pc = "drop"
  /\ tokens' = tokens \ {worker[w].token}
  /\ Refuse(w)
  /\ UNCHANGED <<provider, now, environment, minted, buckets, opened>>

\* Past the guards: a use is served, an issue goes on to the store.
PassGuards(w) ==
  IF worker[w].op = "use" THEN GoTo(w, "served")
  ELSE worker' = [worker EXCEPT ![w].since = now,
         ![w].pc = IF worker[w].plane = "message" THEN "bucket" ELSE "issue"]

\* requireSessionParticipant: the session, then the membership.
ReadSession(w) ==
  /\ worker[w].pc = "session"
  /\ IF worker[w].session \in sessions THEN GoTo(w, "member") ELSE Refuse(w)
  /\ UNCHANGED <<provider, now, environment, store>>

SkipMember(w) ==
  /\ worker[w].pc = "member"
  /\ IF worker[w].plane = "control" THEN PassGuards(w) ELSE GoTo(w, "creator")
  /\ UNCHANGED <<provider, now, environment, store>>

CheckMember(w) ==
  /\ worker[w].pc = "member"
  /\ IF Subject(w) \notin members THEN Refuse(w)
     ELSE IF worker[w].plane = "control" THEN PassGuards(w)
     ELSE GoTo(w, "creator")
  /\ UNCHANGED <<provider, now, environment, store>>

\* requireSessionMessageAccess asks for the peer id again, by the session it read.
CheckCreator(w) ==
  /\ worker[w].pc = "creator"
  /\ IF Subject(w) \in members /\ Subject(w)[2] = Creator
     THEN PassGuards(w) ELSE GoTo(w, "grant")
  /\ UNCHANGED <<provider, now, environment, store>>

\* getSessionPassphraseState; a grant exists only beside its session's passphrase.
CheckGrant(w) ==
  /\ worker[w].pc = "grant"
  /\ IF Subject(w) \in grants THEN PassGuards(w) ELSE Refuse(w)
  /\ UNCHANGED <<provider, now, environment, store>>

-----------------------------------------------------------------------------
MintBucket(w, others) ==
  /\ opened' = opened + 1
  /\ buckets' = others \cup
       {[of |-> Subject(w), id |-> opened + 1, expiresAt |-> Clock(w) + BucketTtl]}
  /\ worker' = [worker EXCEPT ![w].pc = "issue", ![w].bucket = opened + 1,
                              ![w].since = now]

ReuseBucket(w, rows, bucket) ==
  /\ buckets' = rows
  /\ worker' = [worker EXCEPT ![w].pc = "issue", ![w].bucket = bucket.id,
                              ![w].since = now]
  /\ UNCHANGED opened

MintBeside(w) ==
  /\ worker[w].pc = "bucket"
  /\ opened < MaxTokens
  /\ MintBucket(w, KeptBuckets(now))
  /\ tokens' = KeptTokens(now)
  /\ UNCHANGED <<provider, now, environment, minted>>

\* resolveBucketCapability: the pair's bucket while it lives, else a new one in
\* its place; seeing a bucket does not extend it.
ResolveBucket(w) ==
  LET rows == KeptBuckets(now)
      own  == {b \in rows : b.of = Subject(w)}
      live == {b \in own : b.expiresAt > Clock(w)}
  IN /\ worker[w].pc = "bucket"
     /\ \/ \E b \in live : ReuseBucket(w, rows, b)
        \/ live = {} /\ opened < MaxTokens /\ MintBucket(w, rows \ own)
     /\ tokens' = KeptTokens(now)
     /\ UNCHANGED <<provider, now, environment, minted>>

TtlOf(plane) == IF plane = "message" THEN MessageTtl ELSE ControlTtl

\* issueToken: the row goes in and the answer names it.
IssueToken(w) ==
  /\ worker[w].pc = "issue"
  /\ Len(minted) < MaxTokens
  /\ minted' = Append(minted,
       [plane |-> worker[w].plane, session |-> worker[w].session,
        key |-> worker[w].key, bucket |-> worker[w].bucket,
        expiresAt |-> Clock(w) + TtlOf(worker[w].plane)])
  /\ tokens' = KeptTokens(now) \cup {Len(minted) + 1}
  /\ buckets' = KeptBuckets(now)
  /\ Refuse(w)
  /\ UNCHANGED <<provider, now, environment, opened>>

\* The request goes on to the messages of its session and ends.
Finish(w) ==
  /\ worker[w].pc = "served"
  /\ Refuse(w)
  /\ UNCHANGED <<provider, now, environment, store>>

\* cleanupOccasionally, or the set-up of another instance.
SweepTables ==
  /\ provider = "postgres"
  /\ <<tokens, buckets>> # <<LiveTokens(now), LiveBuckets(now)>>
  /\ tokens' = LiveTokens(now)
  /\ buckets' = LiveBuckets(now)
  /\ UNCHANGED <<provider, now, environment, minted, opened, worker>>

\* A process dies, with the store if it is in memory; in Postgres also a
\* request whose query failed ends like this.
Restart ==
  /\ \E dead \in IF provider = "memory" THEN {Workers} ELSE SUBSET Workers \ {{}} :
       worker' = [w \in Workers |-> IF w \in dead THEN Idle ELSE worker[w]]
  /\ tokens' = IF provider = "memory" THEN {} ELSE tokens
  /\ buckets' = IF provider = "memory" THEN {} ELSE buckets
  /\ UNCHANGED <<provider, now, environment, minted, opened>>

Tick ==
  /\ now < MaxTime
  /\ now' = now + 1
  /\ UNCHANGED <<provider, environment, store, worker>>

-----------------------------------------------------------------------------
Without(pairs, gone) == {x \in pairs : x[1] \notin gone}

\* killKey: its public key loses memberships, grants and the sessions it created.
KillKey(k) ==
  LET p    == OwnerOf[k]
      gone == IF p = Creator THEN sessions ELSE {}
  IN /\ k \in active
     /\ active' = active \ {k}
     /\ sessions' = sessions \ gone
     /\ members' = {x \in Without(members, gone) : x[2] # p}
     /\ grants' = {x \in Without(grants, gone) : x[2] # p}

\* expireAllKeys: the records go inactive and nothing is purged.
ExpireAllKeys == active # {} /\ active' = {} /\ UNCHANGED <<sessions, members, grants>>

Join(s, k) ==
  /\ k \in active
  /\ s \in sessions
  /\ <<s, OwnerOf[k]>> \notin members
  /\ members' = members \cup {<<s, OwnerOf[k]>>}
  /\ UNCHANGED <<active, sessions, grants>>

\* leaveSession takes the membership and leaves the grant.
Leave(x) ==
  x \in members /\ members' = members \ {x} /\ UNCHANGED <<active, sessions, grants>>

\* The creator hands a member the key to the messages, or takes it back.
Grant(x) ==
  /\ x \in members \ grants
  /\ x[2] # Creator
  /\ \E k \in active : OwnerOf[k] = Creator
  /\ grants' = grants \cup {x}
  /\ UNCHANGED <<active, sessions, members>>

Revoke(x) ==
  x \in grants /\ grants' = grants \ {x} /\ UNCHANGED <<active, sessions, members>>

EndSessionOnly(s) ==
  s \in sessions /\ sessions' = sessions \ {s} /\ UNCHANGED <<active, members, grants>>

EndSession(s) ==
  /\ s \in sessions
  /\ sessions' = sessions \ {s}
  /\ members' = Without(members, {s})
  /\ grants' = Without(grants, {s})
  /\ UNCHANGED active

Surroundings ==
  /\ \/ \E k \in KeyIds : KillKey(k) \/ \E s \in Sessions : Join(s, k)
     \/ ExpireAllKeys
     \/ \E x \in members \cup grants : Leave(x) \/ Grant(x) \/ Revoke(x)
     \/ \E s \in Sessions : EndSession(s)
  /\ Witnessed
  /\ UNCHANGED <<provider, now, store>>

Proceed(w) ==
  \/ ReadToken(w) \/ CheckRow(w) \/ CheckKey(w) \/ DropToken(w)
  \/ ReadSession(w) \/ CheckMember(w) \/ CheckCreator(w) \/ CheckGrant(w)
  \/ ResolveBucket(w) \/ IssueToken(w) \/ Finish(w)

Requests(w) ==
  \E plane \in Planes :
    \/ \E k \in KeyIds, s \in Sessions : AskToken(w, k, s, plane)
    \/ \E n \in 1..MaxTokens, strays \in BOOLEAN : PresentToken(w, n, strays, plane)

Next ==
  \/ \E w \in Workers : Proceed(w) \/ Requests(w)
  \/ SweepTables \/ Restart \/ Tick
  \/ Surroundings

Spec == Init /\ [][Next]_vars

-----------------------------------------------------------------------------
TokenRow ==
  [plane : Planes, session : Sessions, key : KeyIds, bucket : Nat, expiresAt : Nat]

BucketRow == [of : Sessions \X PublicKeys, id : Nat \ {0}, expiresAt : Nat]

\* Types of the state; the store holds tokens that were issued.
TypeOK ==
  /\ provider \in Providers
  /\ now \in 0..MaxTime
  /\ active \subseteq KeyIds
  /\ sessions \subseteq Sessions
  /\ members \subseteq sessions \X PublicKeys
  /\ grants \subseteq sessions \X PublicKeys
  /\ minted \in Seq(TokenRow)
  /\ tokens \subseteq DOMAIN minted
  /\ buckets \subseteq BucketRow
  /\ opened \in 0..MaxTokens
  /\ \A w \in Workers :
       /\ worker[w].since \in 0..now
       /\ worker[w].token \in 0..Len(minted)
       /\ worker[w].pc \notin {"idle", "drop"} => worker[w].key \in KeyIds /\ worker[w].session \in Sessions

Cleared(w) == worker[w].pc \in {"served", "bucket", "issue"}

\* Who gets through to messages, to control events or to a new token was
\* entitled to them at one instant since the request came in, although the
\* guards read key, session, membership and grant at different instants.
ClearedWasEntitled == \A w \in Workers : Cleared(w) => worker[w].entitled

\* A token opens nothing outside its scope: it is used on its plane, for the
\* session the request names, and by requests that came in while it had not
\* expired and the very key it was issued to was active, whatever other keys of
\* its owner do.
UsedInScope ==
  \A w \in Workers : worker[w].pc = "served" =>
    /\ minted[worker[w].token].plane = worker[w].plane
    /\ ~ worker[w].strays
    /\ minted[worker[w].token].expiresAt > worker[w].since
    /\ worker[w].keyLived

SameOwner(m, n) ==
  minted[m].session = minted[n].session /\ OwnerOf[minted[m].key] = OwnerOf[minted[n].key]

BucketAlive(n) == \E b \in buckets : b.id = minted[n].bucket

\* Message tokens lead to the same control bucket only if they are of one member
\* of one session, and those of one member never to two buckets that both live.
OneBucketPerMember ==
  \A m, n \in {i \in DOMAIN minted : minted[i].plane = "message"} :
     /\ minted[m].bucket = minted[n].bucket => SameOwner(m, n)
     /\ SameOwner(m, n) /\ BucketAlive(m) /\ BucketAlive(n) =>
          minted[m].bucket = minted[n].bucket
=============================================================================
