------------------------- MODULE MailboxPlane_proofs -------------------------
(***************************************************************************)
(* Proofs about MailboxPlane, for both stores, any keys, sessions and      *)
(* number of requests, and all times to live.                              *)
(***************************************************************************)
EXTENDS MailboxPlane, SequenceTheorems, TLAPS

-----------------------------------------------------------------------------
(* The inductive invariant *)

WorkerState ==
  [pc : {"idle", "token", "row", "key", "session", "member", "creator", "grant",
         "bucket", "issue", "served", "drop"},
   op : {"none", "issue", "use"}, plane : Planes,
   session : Sessions \cup {NoSession}, key : KeyIds \cup {NoSession}, token : Nat,
   strays : BOOLEAN, since : Nat, bucket : Nat, keyLived : BOOLEAN, entitled : BOOLEAN]

InProgress(request) == request.pc \notin {"idle", "drop"}

\* Past the check of the key.
KeyChecked(request) ==
  request.pc \in {"session", "member", "creator", "grant", "bucket", "issue", "served"}

SubjectOf(request) == <<request.session, OwnerOf[request.key]>>

\* What a request has been checked for so far, of the token it came with,
Scoped(request) ==
  /\ request.since \in 0..now
  /\ request.token \in 0..Len(minted)
  /\ InProgress(request) => request.key \in KeyIds /\ request.session \in Sessions
  /\ request.pc \in {"token", "row", "key", "served"} => request.op = "use"
  /\ request.pc \in {"bucket", "issue"} => request.op # "use"
  /\ request.op = "use" => request.token \in DOMAIN minted
  /\ request.op = "use" /\ request.pc # "token" =>
       /\ minted[request.token].plane = request.plane
       /\ minted[request.token].expiresAt > request.since
  /\ request.op = "use" /\ request.pc \notin {"token", "row"} => ~ request.strays

\* and what "entitled" must record, whatever happens around it: who is a member
\* now, and holds a grant if it needs one, has been entitled since the request
\* came in; who was found a member then needs only a grant now.
Vetted(request) ==
  /\ InProgress(request) /\ request.key \in active => request.keyLived
  /\ KeyChecked(request) => request.keyLived
  /\ /\ InProgress(request) /\ request.keyLived /\ SubjectOf(request) \in members
     /\ request.plane = "message" =>
          SubjectOf(request)[2] = Creator \/ SubjectOf(request) \in grants
     => request.entitled
  /\ request.pc \in {"creator", "grant"} /\ SubjectOf(request) \in grants => request.entitled
  /\ request.pc \in {"served", "bucket", "issue"} => request.entitled

WorkersVetted ==
  /\ worker \in [Workers -> WorkerState]
  /\ \A w \in Workers : Scoped(worker[w]) /\ Vetted(worker[w])

\* A member has an active key, unless all keys were expired at once.
MembersAreActive ==
  \A x \in members : active = {} \/ \E k \in active : OwnerOf[k] = x[2]

MessageTokens == {n \in DOMAIN minted : minted[n].plane = "message"}

HolderOf(n) == <<minted[n].session, OwnerOf[minted[n].key]>>

\* Who has been told of which bucket: the holders of message tokens, the owners
\* of the stored buckets, and the requests about to issue a message token.
Claims ==
  {<<minted[n].bucket, HolderOf(n)>> : n \in MessageTokens}
    \cup {<<b.id, b.of>> : b \in buckets}
    \cup {<<worker[w].bucket, Subject(w)>> :
            w \in {v \in Workers : worker[v].pc = "issue" /\ worker[v].plane = "message"}}

ClaimsAgree ==
  /\ \A c \in Claims : c[1] \in 1..opened
  /\ \A c, d \in Claims : c[1] = d[1] => c[2] = d[2]

BucketsDiffer == \A b, c \in buckets : b.of = c.of => b = c

IInv ==
  /\ TypeOK
  /\ WorkersVetted
  /\ MembersAreActive
  /\ ClaimsAgree
  /\ BucketsDiffer

-----------------------------------------------------------------------------
(* Facts about the operators *)

\* Sweeping only deletes.
LEMMA KeptFacts ==
  \A t : KeptTokens(t) \subseteq tokens /\ KeptBuckets(t) \subseteq buckets
BY DEF KeptTokens, KeptBuckets, LiveTokens, LiveBuckets

\* The times to live are those of the configuration.
LEMMA TtlFacts == BucketTtl \in Nat /\ \A plane \in Planes : TtlOf(plane) \in Nat
<1> DEFINE T == {MessageTtl, ControlTtl, LeastBucketTtl}
<1>1. MessageTtl \in Nat /\ ControlTtl \in Nat /\ LeastBucketTtl \in Nat
  BY PlaneAssumption
<1>2. \E t \in T : \A u \in T : u <= t
  BY <1>1
<1>3. BucketTtl \in T
  BY <1>2 DEF BucketTtl
<1>4. QED
  BY <1>1, <1>3 DEF TtlOf

\* Time and the issued tokens only grow, by one.
Onward ==
  /\ now' \in {now, now + 1}
  /\ minted' = minted \/ \E row \in TokenRow : minted' = Append(minted, row)

\* What was issued stays as it was issued.
LEMMA MintedGrows ==
  ASSUME IInv, Onward
  PROVE  /\ Len(minted) \in Nat /\ Len(minted') \in Nat /\ Len(minted) <= Len(minted')
         /\ minted' \in Seq(TokenRow)
         /\ DOMAIN minted = 1..Len(minted) /\ DOMAIN minted' = 1..Len(minted')
         /\ \A n \in DOMAIN minted : n \in DOMAIN minted' /\ minted'[n] = minted[n]
<1>1. minted \in Seq(TokenRow)
  BY DEF IInv, TypeOK
<1>2. /\ Len(minted) \in Nat /\ DOMAIN minted = 1..Len(minted)
  BY <1>1, LenProperties
<1>3. CASE minted' = minted
  BY <1>1, <1>2, <1>3
<1>4. ASSUME NEW row \in TokenRow, minted' = Append(minted, row)
      PROVE  /\ Len(minted') = Len(minted) + 1 /\ minted' \in Seq(TokenRow)
             /\ DOMAIN minted' = 1..(Len(minted) + 1)
             /\ \A n \in 1..Len(minted) : minted'[n] = minted[n]
  BY <1>1, <1>4, AppendProperties, LenProperties
<1>5. CASE \E row \in TokenRow : minted' = Append(minted, row)
  BY <1>2, <1>4, <1>5
<1>6. QED
  BY <1>3, <1>5 DEF Onward

\* What an issued token says is of the right type.
LEMMA MintedFacts ==
  ASSUME IInv, NEW n \in DOMAIN minted
  PROVE  /\ n \in Nat /\ n \in 0..Len(minted)
         /\ minted[n].plane \in Planes /\ minted[n].session \in Sessions
         /\ minted[n].key \in KeyIds /\ minted[n].bucket \in Nat
         /\ minted[n].expiresAt \in Nat
<1>1. minted \in Seq(TokenRow)
  BY DEF IInv, TypeOK
<1>2. n \in 1..Len(minted) /\ Len(minted) \in Nat
  BY <1>1, LenProperties
<1>3. minted[n] \in TokenRow
  BY <1>1, <1>2, ElementOfSeq
<1>4. QED
  BY <1>2, <1>3 DEF TokenRow

\* What a request was checked for stays true of it.
LEMMA ScopedStays ==
  ASSUME IInv, Onward, NEW request, Scoped(request)
  PROVE  Scoped(request)'
<1>1. request.since \in 0..now' /\ request.token \in 0..Len(minted')
  BY MintedGrows DEF Scoped, Onward, IInv, TypeOK
<1>2. QED
  BY <1>1, MintedGrows DEF Scoped

\* Requests that are all in order make the table of requests so.
LEMMA WorkersMove ==
  ASSUME NEW new, worker' = [w \in Workers |-> new[w]],
         \A w \in Workers : new[w] \in WorkerState /\ Scoped(new[w])' /\ Vetted(new[w])'
  PROVE  WorkersVetted'
BY DEF WorkersVetted

\* One request moves while keys, memberships and grants stay.
LEMMA WorkerMoves ==
  ASSUME IInv, Onward, UNCHANGED environment,
         NEW w \in Workers, NEW request \in WorkerState, Scoped(request), Vetted(request),
         worker' = [worker EXCEPT ![w] = request]
  PROVE  /\ WorkersVetted' /\ worker'[w] = request
         /\ \A v \in Workers : v # w => worker'[v] = worker[v]
<1> DEFINE all == [v \in Workers |-> IF v = w THEN request ELSE worker[v]]
<1>1. worker \in [Workers -> WorkerState]
  BY DEF IInv, WorkersVetted
<1>2. worker' = [v \in Workers |-> all[v]]
  BY <1>1
<1>3. \A v \in Workers : all[v] \in WorkerState /\ Scoped(all[v]) /\ Vetted(all[v])
  BY <1>1 DEF IInv, WorkersVetted
<1>4. ASSUME NEW new, new = all, NEW v \in Workers PROVE Scoped(new[v])' /\ Vetted(new[v])'
  <2>1. Scoped(new[v])'
    BY <1>3, <1>4, ScopedStays
  <2>2. Vetted(new[v])'
    BY <1>3, <1>4 DEF Vetted, environment
  <2>3. QED
    BY <2>1, <2>2
<1> HIDE DEF all
<1>5. WorkersVetted'
  BY <1>2, <1>3, <1>4, WorkersMove
<1>6. QED
  BY <1>1, <1>5

\* Ids of buckets are told to new holders only when they are new.
LEMMA ClaimsMove ==
  ASSUME IInv, NEW who,
         \/ Claims' \subseteq Claims /\ opened' = opened
         \/ Claims' \subseteq Claims \cup {<<opened + 1, who>>} /\ opened' = opened + 1
  PROVE  ClaimsAgree'
<1>1. opened \in Nat
  BY PlaneAssumption DEF IInv, TypeOK
<1>2. \A c \in Claims : c[1] \in 1..opened
  BY DEF IInv, ClaimsAgree
<1>3. \A c \in Claims' : c[1] \in 1..opened'
  BY <1>1, <1>2
<1>4. \A c, d \in Claims' : c[1] = d[1] => c[2] = d[2]
  <2>1. \A c \in Claims : c[1] # opened + 1
    BY <1>1, <1>2
  <2>2. QED
    BY <2>1 DEF IInv, ClaimsAgree
<1>5. QED
  BY <1>3, <1>4 DEF ClaimsAgree

\* Nobody is told of a bucket while nothing is issued.
LEMMA ClaimsKept ==
  ASSUME UNCHANGED minted, buckets' \subseteq buckets,
         \A v \in Workers :
            worker'[v].pc = "issue" /\ worker'[v].plane = "message" =>
              /\ worker[v].pc = "issue" /\ worker[v].plane = "message"
              /\ worker'[v].bucket = worker[v].bucket /\ Subject(v)' = Subject(v)
  PROVE  Claims' \subseteq Claims
BY DEF Claims, MessageTokens, HolderOf

-----------------------------------------------------------------------------
(* Steps of one request on its way through the guards *)

\* A request moves, and nothing else but what a sweep or a drop deletes.
LEMMA GuardStepKeepsIInv ==
  ASSUME IInv, NEW w \in Workers, NEW request \in WorkerState,
         Scoped(request), Vetted(request),
         request.pc = "issue" => request.plane = "control",
         worker' = [worker EXCEPT ![w] = request],
         tokens' \subseteq tokens, buckets' \subseteq buckets,
         UNCHANGED <<provider, now, environment, minted, opened>>
  PROVE  IInv'
<1>1. Onward
  BY DEF Onward
<1>2. /\ WorkersVetted' /\ worker'[w] = request
      /\ \A v \in Workers : v # w => worker'[v] = worker[v]
  BY <1>1, WorkerMoves
<1>3. Claims' \subseteq Claims
  <2>1. \A v \in Workers : worker'[v] = worker[v] => Subject(v)' = Subject(v)
    BY DEF Subject
  <2>2. QED
    BY <1>2, <2>1, ClaimsKept
<1>4. ClaimsAgree'
  BY <1>3, ClaimsMove
<1>5. \A v \in Workers :
        /\ worker'[v].since \in 0..now' /\ worker'[v].token \in 0..Len(minted')
        /\ worker'[v].pc \notin {"idle", "drop"} =>
             worker'[v].key \in KeyIds /\ worker'[v].session \in Sessions
  BY <1>2 DEF WorkersVetted, Scoped, InProgress
<1>6. TypeOK'
  BY <1>5 DEF IInv, TypeOK, environment
<1>7. MembersAreActive' /\ BucketsDiffer'
  BY DEF IInv, MembersAreActive, BucketsDiffer, environment
<1>8. QED
  BY <1>2, <1>4, <1>6, <1>7 DEF IInv

\* A request that has ended, or only drops its token, is checked for nothing.
LEMMA IdleFacts ==
  /\ Idle \in WorkerState /\ Idle.pc = "idle" /\ Idle.op = "none"
  /\ Idle.since = 0 /\ Idle.token = 0
BY DEF Idle, WorkerState, Planes

\* A worker without a request has nothing to account for.
LEMMA IdleIsVetted == ASSUME IInv PROVE Scoped(Idle) /\ Vetted(Idle)
<1>1. 0 \in 0..now /\ 0 \in 0..Len(minted)
  BY LenProperties DEF IInv, TypeOK
<1>2. QED
  BY <1>1, IdleFacts DEF Scoped, Vetted, InProgress, KeyChecked

\* A guard refuses: the request ends, whatever was swept.
LEMMA RefuseKeepsIInv ==
  ASSUME IInv, NEW w \in Workers, Refuse(w),
         tokens' \subseteq tokens, buckets' \subseteq buckets,
         UNCHANGED <<provider, now, environment, minted, opened>>
  PROVE  IInv'
BY IdleFacts, IdleIsVetted, GuardStepKeepsIInv DEF Refuse

\* A token that is found void is to be dropped; nothing else is known of it.
LEMMA CondemnKeepsIInv ==
  ASSUME IInv, NEW w \in Workers, Condemn(w),
         UNCHANGED <<provider, now, environment, store>>
  PROVE  IInv'
<1> DEFINE request == [Idle EXCEPT !.pc = "drop", !.token = worker[w].token]
<1>1. worker[w] \in WorkerState /\ Scoped(worker[w])
  BY DEF IInv, WorkersVetted
<1>2. /\ request \in WorkerState /\ request.pc = "drop" /\ request.op = "none"
      /\ request.since = 0 /\ request.token = worker[w].token
  BY <1>1, IdleFacts DEF WorkerState
<1>3. worker' = [worker EXCEPT ![w] = request]
  BY DEF Condemn
<1> HIDE DEF request
<1>4. Scoped(request) /\ Vetted(request)
  BY <1>1, <1>2, IdleFacts, IdleIsVetted DEF Scoped, Vetted, InProgress, KeyChecked
<1>5. QED
  BY <1>2, <1>3, <1>4, GuardStepKeepsIInv DEF store

\* A request that goes on keeps all but its place.
LEMMA GoToFacts ==
  ASSUME IInv, NEW w \in Workers, NEW pc, GoTo(w, pc),
         pc \in {"row", "key", "session", "member", "creator", "grant", "served"}
  PROVE  LET request == [worker[w] EXCEPT !.pc = pc]
         IN  /\ worker' = [worker EXCEPT ![w] = request]
             /\ request \in WorkerState /\ request.pc = pc
             /\ request.op = worker[w].op /\ request.plane = worker[w].plane
             /\ request.session = worker[w].session /\ request.key = worker[w].key
             /\ request.token = worker[w].token /\ request.strays = worker[w].strays
             /\ request.since = worker[w].since /\ request.bucket = worker[w].bucket
             /\ request.keyLived = worker[w].keyLived /\ request.entitled = worker[w].entitled
<1>1. worker \in [Workers -> WorkerState] /\ worker[w] \in WorkerState
  BY DEF IInv, WorkersVetted
<1>2. QED
  BY <1>1 DEF WorkerState, GoTo

\* A guard lets a request through to the next one, from what it has just read.
LEMMA GoToKeepsIInv ==
  ASSUME IInv, NEW w \in Workers, NEW pc, GoTo(w, pc), InProgress(worker[w]),
         pc \in {"row", "key", "session", "member", "creator", "grant"},
         pc \in {"row", "key"} => worker[w].op = "use",
         worker[w].op = "use" =>
           /\ minted[worker[w].token].plane = worker[w].plane
           /\ minted[worker[w].token].expiresAt > worker[w].since
           /\ pc = "row" \/ ~ worker[w].strays,
         pc \in {"row", "key"} \/ worker[w].key \in active \/ KeyChecked(worker[w]),
         pc \in {"creator", "grant"} =>
           worker[w].pc \in {"creator", "grant"} \/ Subject(w) \in members,
         tokens' \subseteq tokens, buckets' \subseteq buckets,
         UNCHANGED <<provider, now, environment, minted, opened>>
  PROVE  IInv'
<1> DEFINE request == [worker[w] EXCEPT !.pc = pc]
<1>1. /\ worker' = [worker EXCEPT ![w] = request]
      /\ request \in WorkerState /\ request.pc = pc
      /\ request.op = worker[w].op /\ request.plane = worker[w].plane
      /\ request.session = worker[w].session /\ request.key = worker[w].key
      /\ request.token = worker[w].token /\ request.strays = worker[w].strays
      /\ request.since = worker[w].since /\ request.bucket = worker[w].bucket
      /\ request.keyLived = worker[w].keyLived /\ request.entitled = worker[w].entitled
  BY GoToFacts
<1> HIDE DEF request
<1>2. Scoped(worker[w]) /\ Vetted(worker[w]) /\ Subject(w) = SubjectOf(worker[w])
  BY DEF IInv, WorkersVetted, Subject, SubjectOf
<1>3. Scoped(request)
  BY <1>1, <1>2 DEF Scoped, InProgress
<1>4. SubjectOf(request) = SubjectOf(worker[w])
  BY <1>1 DEF SubjectOf
<1>5. Vetted(request)
  BY <1>1, <1>2, <1>4 DEF Vetted, InProgress, KeyChecked
<1>6. QED
  BY <1>1, <1>3, <1>5, GuardStepKeepsIInv

\* A request passes the guards: it is served, or goes on to get its token.
LEMMA PassGuardsKeepsIInv ==
  ASSUME IInv, NEW w \in Workers, PassGuards(w),
         worker[w].pc \in {"member", "creator", "grant"}, worker[w].entitled,
         UNCHANGED <<provider, now, environment, store>>
  PROVE  IInv'
<1>1. worker \in [Workers -> WorkerState] /\ worker[w] \in WorkerState
  BY DEF IInv, WorkersVetted
<1>2. Scoped(worker[w]) /\ Vetted(worker[w]) /\ now \in Nat
  BY DEF IInv, WorkersVetted, TypeOK
<1>3. CASE worker[w].op = "use"
  <2> DEFINE request == [worker[w] EXCEPT !.pc = "served"]
  <2>1. /\ worker' = [worker EXCEPT ![w] = request]
        /\ request \in WorkerState /\ request.pc = "served"
        /\ request.op = worker[w].op /\ request.plane = worker[w].plane
        /\ request.session = worker[w].session /\ request.key = worker[w].key
        /\ request.token = worker[w].token /\ request.strays = worker[w].strays
        /\ request.since = worker[w].since /\ request.bucket = worker[w].bucket
        /\ request.keyLived = worker[w].keyLived /\ request.entitled = worker[w].entitled
    BY <1>3, GoToFacts DEF PassGuards
  <2> HIDE DEF request
  <2>2. Scoped(request) /\ Vetted(request)
    BY <1>2, <1>3, <2>1 DEF Scoped, Vetted, InProgress, KeyChecked
  <2>3. QED
    BY <2>1, <2>2, GuardStepKeepsIInv DEF store
<1>4. CASE worker[w].op # "use"
  <2> DEFINE pc      == IF worker[w].plane = "message" THEN "bucket" ELSE "issue"
             request == [worker[w] EXCEPT !.since = now, !.pc = pc]
  <2>1. /\ worker' = [worker EXCEPT ![w] = request]
        /\ request \in WorkerState /\ request.pc = pc
        /\ request.op = worker[w].op /\ request.plane = worker[w].plane
        /\ request.session = worker[w].session /\ request.key = worker[w].key
        /\ request.token = worker[w].token /\ request.strays = worker[w].strays
        /\ request.since = now
        /\ request.keyLived = worker[w].keyLived /\ request.entitled = worker[w].entitled
    BY <1>1, <1>2, <1>4 DEF PassGuards, WorkerState
  <2>2. request.pc \in {"bucket", "issue"} /\ (request.pc = "issue" => request.plane = "control")
    BY <1>1, <2>1 DEF WorkerState, Planes
  <2> HIDE DEF request, pc
  <2>3. Scoped(request)
    BY <1>2, <1>4, <2>1, <2>2 DEF Scoped, InProgress
  <2>4. Vetted(request)
    BY <1>2, <2>1, <2>2 DEF Vetted, InProgress, KeyChecked
  <2>5. QED
    BY <2>1, <2>2, <2>3, <2>4, GuardStepKeepsIInv DEF store
<1>5. QED
  BY <1>3, <1>4

\* The record of a request that comes in.
LEMMA BeganFacts ==
  ASSUME IInv, NEW request \in WorkerState, NEW w \in Workers,
         request.key \in KeyIds, request.session \in Sessions
  PROVE  LET new == Began(w, request)
         IN  /\ new \in WorkerState
             /\ new.pc = request.pc /\ new.op = request.op /\ new.plane = request.plane
             /\ new.session = request.session /\ new.key = request.key
             /\ new.token = request.token /\ new.strays = request.strays
             /\ new.since = now
             /\ new.keyLived <=> request.key \in active
             /\ new.entitled <=>
                  /\ \E k \in active : OwnerOf[k] = OwnerOf[request.key]
                  /\ request.session \in sessions
                  /\ SubjectOf(request) \in members
                  /\ request.plane = "message" =>
                       \/ SubjectOf(request)[2] = Creator
                       \/ SubjectOf(request) \in grants
<1> DEFINE lived    == request.key \in active
           entitled == /\ \E k \in active : OwnerOf[k] = OwnerOf[request.key]
                       /\ request.session \in sessions
                       /\ <<request.session, OwnerOf[request.key]>> \in members
                       /\ request.plane = "message" =>
                            \/ OwnerOf[request.key] = Creator
                            \/ <<request.session, OwnerOf[request.key]>> \in grants
<1>1. now \in Nat
  BY DEF IInv, TypeOK
<1>2. lived \in BOOLEAN /\ entitled \in BOOLEAN
  OBVIOUS
<1>3. Began(w, request) =
        [request EXCEPT !.since = now, !.keyLived = lived, !.entitled = entitled]
  BY DEF Began
<1>4. entitled <=>
        /\ \E k \in active : OwnerOf[k] = OwnerOf[request.key]
        /\ request.session \in sessions
        /\ SubjectOf(request) \in members
        /\ request.plane = "message" =>
             \/ SubjectOf(request)[2] = Creator
             \/ SubjectOf(request) \in grants
  BY DEF SubjectOf
<1>5. lived <=> request.key \in active
  OBVIOUS
<1> HIDE DEF lived, entitled
<1> DEFINE new == [request EXCEPT !.since = now, !.keyLived = lived, !.entitled = entitled]
<1>6. /\ new \in WorkerState
      /\ new.pc = request.pc /\ new.op = request.op /\ new.plane = request.plane
      /\ new.session = request.session /\ new.key = request.key
      /\ new.token = request.token /\ new.strays = request.strays
      /\ new.since = now /\ new.keyLived = lived /\ new.entitled = entitled
  BY <1>1, <1>2 DEF WorkerState
<1>7. Began(w, request) = new
  BY <1>3
<1> HIDE DEF new
<1>8. QED
  BY <1>4, <1>5, <1>6, <1>7

\* A request that comes in has passed the guards before its first.
LEMMA BeginKeepsIInv ==
  ASSUME IInv, NEW w \in Workers, NEW request \in WorkerState,
         worker' = [worker EXCEPT ![w] = Began(w, request)],
         request.key \in KeyIds, request.session \in Sessions,
         request.token \in 0..Len(minted),
         \/ request.pc = "session" /\ request.op = "issue" /\ request.key \in active
         \/ request.pc = "token" /\ request.op = "use" /\ request.token \in DOMAIN minted,
         UNCHANGED <<provider, now, environment, store>>
  PROVE  IInv'
<1> DEFINE new == Began(w, request)
<1>1. /\ new \in WorkerState
      /\ new.pc = request.pc /\ new.op = request.op /\ new.plane = request.plane
      /\ new.session = request.session /\ new.key = request.key
      /\ new.token = request.token /\ new.strays = request.strays
      /\ new.since = now
      /\ new.keyLived <=> request.key \in active
      /\ new.entitled <=>
           /\ \E k \in active : OwnerOf[k] = OwnerOf[request.key]
           /\ request.session \in sessions
           /\ SubjectOf(request) \in members
           /\ request.plane = "message" =>
                \/ SubjectOf(request)[2] = Creator
                \/ SubjectOf(request) \in grants
  BY BeganFacts
<1>2. worker' = [worker EXCEPT ![w] = new]
  OBVIOUS
<1> HIDE DEF new
<1>3. now \in Nat /\ members \subseteq sessions \X PublicKeys
  BY DEF IInv, TypeOK
<1>4. Scoped(new)
  BY <1>1, <1>3 DEF Scoped, InProgress
<1>5. SubjectOf(new) = SubjectOf(request)
  BY <1>1 DEF SubjectOf
<1>6. SubjectOf(request) \in members => request.session \in sessions
  BY <1>3 DEF SubjectOf
<1>7. Vetted(new)
  BY <1>1, <1>5, <1>6 DEF Vetted, InProgress, KeyChecked
<1>8. QED
  BY <1>1, <1>2, <1>4, <1>7, GuardStepKeepsIInv DEF store

\* A request for a token starts at the session, with an active key.
LEMMA AskTokenKeepsIInv ==
  ASSUME IInv, NEW w \in Workers, NEW k \in KeyIds, NEW s \in Sessions, NEW plane \in Planes,
         AskToken(w, k, s, plane)
  PROVE  IInv'
<1> DEFINE request == [Idle EXCEPT !.pc = "session", !.op = "issue", !.plane = plane,
                                   !.session = s, !.key = k]
<1>1. /\ request \in WorkerState /\ request.pc = "session" /\ request.op = "issue"
      /\ request.session = s /\ request.key = k /\ request.token = 0
  BY IdleFacts DEF WorkerState
<1>2. /\ worker' = [worker EXCEPT ![w] = Began(w, request)] /\ k \in active
      /\ UNCHANGED <<provider, now, environment, store>>
  BY DEF AskToken
<1> HIDE DEF request
<1>3. 0 \in 0..Len(minted)
  BY LenProperties DEF IInv, TypeOK
<1>4. QED
  BY <1>1, <1>2, <1>3, BeginKeepsIInv

\* A request with a token starts at the token.
LEMMA PresentTokenKeepsIInv ==
  ASSUME IInv, NEW w \in Workers, NEW n, NEW strays \in BOOLEAN, NEW plane \in Planes,
         PresentToken(w, n, strays, plane)
  PROVE  IInv'
<1> DEFINE request == [Idle EXCEPT !.pc = "token", !.op = "use", !.plane = plane, !.token = n,
                                   !.session = minted[n].session, !.key = minted[n].key,
                                   !.strays = strays]
<1>1. /\ n \in DOMAIN minted /\ n \in Nat /\ n \in 0..Len(minted)
      /\ minted[n].session \in Sessions /\ minted[n].key \in KeyIds
  BY MintedFacts DEF PresentToken
<1>2. /\ request \in WorkerState /\ request.pc = "token" /\ request.op = "use"
      /\ request.session = minted[n].session /\ request.key = minted[n].key
      /\ request.token = n
  BY <1>1, IdleFacts DEF WorkerState
<1>3. /\ worker' = [worker EXCEPT ![w] = Began(w, request)]
      /\ UNCHANGED <<provider, now, environment, store>>
  BY DEF PresentToken
<1> HIDE DEF request
<1>4. QED
  BY <1>1, <1>2, <1>3, BeginKeepsIInv

\* store.getToken, the checks of its row and of its key.
LEMMA TokenChecksKeepIInv ==
  ASSUME IInv, NEW w \in Workers, ReadToken(w) \/ CheckRow(w) \/ CheckKey(w) \/ DropToken(w)
  PROVE  IInv'
<1>1. worker[w] \in WorkerState /\ Scoped(worker[w]) /\ Vetted(worker[w])
  BY DEF IInv, WorkersVetted
<1>2. CASE ReadToken(w)
  <2> DEFINE found == {n \in LiveTokens(now) \cap {worker[w].token} :
                         minted[n].plane = worker[w].plane}
  <2>1. /\ worker[w].pc = "token" /\ tokens' \subseteq tokens /\ buckets' \subseteq buckets
        /\ UNCHANGED <<provider, now, environment, minted, opened>>
        /\ IF found = {} THEN Refuse(w) ELSE GoTo(w, "row")
    BY <1>2, KeptFacts DEF ReadToken
  <2>2. CASE found = {}
    BY <2>1, <2>2, RefuseKeepsIInv
  <2>3. CASE found # {}
    <3>1. /\ minted[worker[w].token].plane = worker[w].plane
          /\ minted[worker[w].token].expiresAt > now
      BY <2>3 DEF LiveTokens
    <3>2. worker[w].since \in 0..now /\ now \in Nat /\ worker[w].token \in DOMAIN minted
      BY <1>1, <2>1 DEF Scoped, IInv, TypeOK
    <3>3. minted[worker[w].token].expiresAt \in Nat
      BY <3>2, MintedFacts
    <3>4. minted[worker[w].token].expiresAt > worker[w].since
      BY <3>1, <3>2, <3>3
    <3>5. worker[w].op = "use"
      BY <1>1, <2>1 DEF Scoped
    <3>6. QED
      BY <2>1, <2>3, <3>1, <3>4, <3>5, GoToKeepsIInv DEF InProgress
  <2>4. QED
    BY <2>2, <2>3
<1>3. CASE CheckRow(w)
  <2>1. /\ worker[w].pc = "row" /\ UNCHANGED <<provider, now, environment, store>>
        /\ Condemn(w) \/ (~ worker[w].strays /\ GoTo(w, "key"))
    BY <1>3 DEF CheckRow
  <2>2. /\ minted[worker[w].token].plane = worker[w].plane
        /\ minted[worker[w].token].expiresAt > worker[w].since /\ worker[w].op = "use"
    BY <1>1, <2>1 DEF Scoped
  <2>3. CASE Condemn(w)
    BY <2>1, <2>3, CondemnKeepsIInv
  <2>4. CASE ~ worker[w].strays /\ GoTo(w, "key")
    BY <2>1, <2>2, <2>4, GoToKeepsIInv DEF InProgress, store
  <2>5. QED
    BY <2>1, <2>3, <2>4
<1>4. CASE CheckKey(w)
  <2>1. /\ worker[w].pc = "key" /\ UNCHANGED <<provider, now, environment, store>>
        /\ Condemn(w) \/ (worker[w].key \in active /\ GoTo(w, "session"))
    BY <1>4 DEF CheckKey
  <2>2. /\ minted[worker[w].token].plane = worker[w].plane
        /\ minted[worker[w].token].expiresAt > worker[w].since
        /\ worker[w].op = "use" /\ ~ worker[w].strays
    BY <1>1, <2>1 DEF Scoped
  <2>3. CASE Condemn(w)
    BY <2>1, <2>3, CondemnKeepsIInv
  <2>4. CASE worker[w].key \in active /\ GoTo(w, "session")
    BY <2>1, <2>2, <2>4, GoToKeepsIInv DEF InProgress, store
  <2>5. QED
    BY <2>1, <2>3, <2>4
<1>5. CASE DropToken(w)
  BY <1>5, RefuseKeepsIInv DEF DropToken
<1>6. QED
  BY <1>2, <1>3, <1>4, <1>5

\* requireSessionParticipant and requireSessionMessageAccess.
LEMMA SessionChecksKeepIInv ==
  ASSUME IInv, NEW w \in Workers,
         ReadSession(w) \/ CheckMember(w) \/ CheckCreator(w) \/ CheckGrant(w) \/ Finish(w)
  PROVE  IInv'
<1>1. worker[w] \in WorkerState /\ Scoped(worker[w]) /\ Vetted(worker[w])
  BY DEF IInv, WorkersVetted
<1>2. UNCHANGED <<provider, now, environment, store>>
  BY DEF ReadSession, CheckMember, CheckCreator, CheckGrant, Finish
<1>3. Subject(w) = SubjectOf(worker[w]) /\ worker[w].plane \in {"message", "control"}
  BY <1>1 DEF Subject, SubjectOf, WorkerState, Planes
<1>4. CASE Refuse(w)
  BY <1>2, <1>4, RefuseKeepsIInv DEF store
<1>5. ASSUME NEW pc \in {"member", "creator", "grant"}, GoTo(w, pc),
             worker[w].pc \in {"session", "member", "creator"},
             pc # "member" => worker[w].pc = "creator" \/ Subject(w) \in members
      PROVE  IInv'
  <2>1. worker[w].op = "use" =>
           /\ minted[worker[w].token].plane = worker[w].plane
           /\ minted[worker[w].token].expiresAt > worker[w].since
           /\ ~ worker[w].strays
    BY <1>1, <1>5 DEF Scoped
  <2>2. InProgress(worker[w]) /\ KeyChecked(worker[w])
    BY <1>5 DEF InProgress, KeyChecked
  <2>3. QED
    BY <1>2, <1>5, <2>1, <2>2, GoToKeepsIInv DEF store
<1>6. CASE ReadSession(w)
  <2>1. worker[w].pc = "session" /\ (Refuse(w) \/ GoTo(w, "member"))
    BY <1>6 DEF ReadSession
  <2>2. QED
    BY <1>4, <1>5, <2>1
<1>7. CASE CheckMember(w)
  <2>1. worker[w].pc = "member"
    BY <1>7 DEF CheckMember
  <2>2. ASSUME Subject(w) \in members, worker[w].plane = "control", PassGuards(w) PROVE IInv'
    <3>1. worker[w].entitled
      BY <1>1, <1>3, <2>1, <2>2 DEF Vetted, InProgress, KeyChecked
    <3>2. QED
      BY <1>2, <2>1, <2>2, <3>1, PassGuardsKeepsIInv
  <2>3. ASSUME Subject(w) \in members, worker[w].plane # "control", GoTo(w, "creator") PROVE IInv'
    BY <1>3, <1>5, <2>1, <2>3
  <2>4. QED
    BY <1>4, <1>7, <2>2, <2>3 DEF CheckMember
<1>8. CASE CheckCreator(w)
  <2>1. worker[w].pc = "creator"
    BY <1>8 DEF CheckCreator
  <2>2. ASSUME Subject(w) \in members, Subject(w)[2] = Creator, PassGuards(w) PROVE IInv'
    <3>1. worker[w].entitled
      BY <1>1, <1>3, <2>1, <2>2 DEF Vetted, InProgress, KeyChecked
    <3>2. QED
      BY <1>2, <2>1, <2>2, <3>1, PassGuardsKeepsIInv
  <2>3. ASSUME GoTo(w, "grant") PROVE IInv'
    BY <1>1, <1>5, <2>1, <2>3
  <2>4. QED
    BY <1>8, <2>2, <2>3 DEF CheckCreator
<1>9. CASE CheckGrant(w)
  <2>1. worker[w].pc = "grant"
    BY <1>9 DEF CheckGrant
  <2>2. ASSUME Subject(w) \in grants, PassGuards(w) PROVE IInv'
    <3>1. worker[w].entitled
      BY <1>1, <1>3, <2>1, <2>2 DEF Vetted
    <3>2. QED
      BY <1>2, <2>1, <2>2, <3>1, PassGuardsKeepsIInv
  <2>3. QED
    BY <1>4, <1>9, <2>2 DEF CheckGrant
<1>10. CASE Finish(w)
  BY <1>4, <1>10 DEF Finish
<1>11. QED
  BY <1>6, <1>7, <1>8, <1>9, <1>10

-----------------------------------------------------------------------------
(* Steps that hand out buckets and tokens *)

\* A request that passed the guards is about someone of some session.
LEMMA ClearedFacts ==
  ASSUME IInv, NEW w \in Workers, worker[w].pc \in {"bucket", "issue"}
  PROVE  /\ worker[w] \in WorkerState /\ Scoped(worker[w]) /\ Vetted(worker[w])
         /\ Subject(w) \in Sessions \X PublicKeys
         /\ worker[w].key \in KeyIds /\ worker[w].session \in Sessions
         /\ worker[w].op # "use" /\ Clock(w) \in Nat /\ now \in Nat
<1>1. worker[w] \in WorkerState /\ Scoped(worker[w]) /\ Vetted(worker[w])
  BY DEF IInv, WorkersVetted
<1>2. worker[w].key \in KeyIds /\ worker[w].session \in Sessions /\ worker[w].op # "use"
  BY <1>1 DEF Scoped, InProgress
<1>3. now \in Nat /\ Clock(w) \in Nat
  BY <1>1 DEF Clock, IInv, TypeOK, WorkerState
<1>4. Subject(w) \in Sessions \X PublicKeys
  BY <1>2 DEF Subject, PublicKeys
<1>5. QED
  BY <1>1, <1>2, <1>3, <1>4

\* A request that is told its bucket goes on to its token.
LEMMA ToIssue ==
  ASSUME IInv, NEW w \in Workers, worker[w].pc = "bucket", NEW id \in Nat,
         worker' = [worker EXCEPT ![w].pc = "issue", ![w].bucket = id, ![w].since = now],
         UNCHANGED <<now, environment, minted>>
  PROVE  /\ WorkersVetted'
         /\ worker'[w].pc = "issue" /\ worker'[w].bucket = id /\ Subject(w)' = Subject(w)
         /\ \A v \in Workers : v # w => worker'[v] = worker[v] /\ Subject(v)' = Subject(v)
<1> DEFINE request == [worker[w] EXCEPT !.pc = "issue", !.bucket = id, !.since = now]
<1>1. /\ worker \in [Workers -> WorkerState] /\ worker[w] \in WorkerState
      /\ Scoped(worker[w]) /\ Vetted(worker[w]) /\ worker[w].op # "use" /\ now \in Nat
  BY ClearedFacts DEF IInv, WorkersVetted
<1>2. /\ worker' = [worker EXCEPT ![w] = request]
      /\ request \in WorkerState /\ request.pc = "issue"
      /\ request.op = worker[w].op /\ request.plane = worker[w].plane
      /\ request.session = worker[w].session /\ request.key = worker[w].key
      /\ request.token = worker[w].token /\ request.strays = worker[w].strays
      /\ request.since = now /\ request.bucket = id
      /\ request.keyLived = worker[w].keyLived /\ request.entitled = worker[w].entitled
  BY <1>1 DEF WorkerState
<1> HIDE DEF request
<1>3. Scoped(request)
  BY <1>1, <1>2 DEF Scoped, InProgress
<1>4. Vetted(request)
  BY <1>1, <1>2 DEF Vetted, InProgress, KeyChecked
<1>5. /\ WorkersVetted' /\ worker'[w] = request
      /\ \A v \in Workers : v # w => worker'[v] = worker[v]
  BY <1>2, <1>3, <1>4, WorkerMoves DEF Onward
<1>6. QED
  BY <1>2, <1>5 DEF Subject

\* resolveBucketCapability
LEMMA ResolveBucketKeepsIInv ==
  ASSUME IInv, NEW w \in Workers, ResolveBucket(w)
  PROVE  IInv'
<1> DEFINE rows == KeptBuckets(now)
           own  == {b \in rows : b.of = Subject(w)}
           live == {b \in own : b.expiresAt > Clock(w)}
<1>1. /\ worker[w].pc = "bucket" /\ tokens' = KeptTokens(now)
      /\ UNCHANGED <<provider, now, environment, minted>>
      /\ tokens' \subseteq tokens /\ rows \subseteq buckets
  BY KeptFacts DEF ResolveBucket
<1>2. /\ Subject(w) \in Sessions \X PublicKeys /\ Clock(w) \in Nat /\ now \in Nat
      /\ opened \in Nat /\ buckets \subseteq BucketRow
  BY <1>1, ClearedFacts, PlaneAssumption DEF IInv, TypeOK
<1>3. ASSUME WorkersVetted', buckets' \subseteq BucketRow, opened' \in 0..MaxTokens
      PROVE  TypeOK' /\ MembersAreActive'
  <2>1. \A v \in Workers :
          /\ worker'[v].since \in 0..now' /\ worker'[v].token \in 0..Len(minted')
          /\ worker'[v].pc \notin {"idle", "drop"} =>
               worker'[v].key \in KeyIds /\ worker'[v].session \in Sessions
    BY <1>3 DEF WorkersVetted, Scoped, InProgress
  <2>2. QED
    BY <1>1, <1>3, <2>1 DEF IInv, TypeOK, MembersAreActive, environment
<1>4. ASSUME NEW bucket \in live, ReuseBucket(w, rows, bucket)
      PROVE  IInv'
  <2>1. bucket \in buckets /\ bucket.of = Subject(w) /\ bucket.id \in Nat
    BY <1>1, <1>2 DEF BucketRow
  <2>2. buckets' = rows /\ opened' = opened
    BY <1>4 DEF ReuseBucket
  <2>3. /\ WorkersVetted'
        /\ worker'[w].pc = "issue" /\ worker'[w].bucket = bucket.id /\ Subject(w)' = Subject(w)
        /\ \A v \in Workers : v # w => worker'[v] = worker[v] /\ Subject(v)' = Subject(v)
    BY <1>1, <1>4, <2>1, ToIssue DEF ReuseBucket
  <2>4. Claims' \subseteq Claims
    <3>1. {<<b.id, b.of>> : b \in buckets'} \subseteq Claims
      BY <1>1, <2>2 DEF Claims
    <3>2. <<bucket.id, Subject(w)>> \in Claims
      BY <2>1 DEF Claims
    <3>3. \A v \in Workers : worker'[v].pc = "issue" /\ worker'[v].plane = "message" =>
            <<worker'[v].bucket, Subject(v)'>> \in Claims
      BY <2>3, <3>2 DEF Claims
    <3>4. {<<minted'[n].bucket, HolderOf(n)'>> : n \in MessageTokens'} \subseteq Claims
      BY <1>1 DEF Claims, MessageTokens, HolderOf
    <3>5. QED
      BY <3>1, <3>3, <3>4 DEF Claims
  <2>5. ClaimsAgree'
    BY <2>2, <2>4, ClaimsMove
  <2>6. TypeOK' /\ MembersAreActive'
    BY <1>1, <1>2, <1>3, <2>2, <2>3 DEF IInv, TypeOK
  <2>7. BucketsDiffer'
    BY <1>1, <2>2 DEF IInv, BucketsDiffer
  <2>8. QED
    BY <2>3, <2>5, <2>6, <2>7 DEF IInv
<1>5. ASSUME opened < MaxTokens, MintBucket(w, rows \ own)
      PROVE  IInv'
  <2> DEFINE id  == opened + 1
             new == [of |-> Subject(w), id |-> id, expiresAt |-> Clock(w) + BucketTtl]
  <2>1. /\ new \in BucketRow /\ new.of = Subject(w) /\ new.id = id /\ id \in Nat
    BY <1>2, TtlFacts DEF BucketRow
  <2>2. buckets' = (rows \ own) \cup {new} /\ opened' = id
    BY <1>5 DEF MintBucket
  <2>3. worker' = [worker EXCEPT ![w].pc = "issue", ![w].bucket = id, ![w].since = now]
    BY <1>5 DEF MintBucket
  <2> HIDE DEF new
  <2>4. /\ WorkersVetted'
        /\ worker'[w].pc = "issue" /\ worker'[w].bucket = id /\ Subject(w)' = Subject(w)
        /\ \A v \in Workers : v # w => worker'[v] = worker[v] /\ Subject(v)' = Subject(v)
    BY <1>1, <2>1, <2>3, ToIssue
  <2>5. Claims' \subseteq Claims \cup {<<id, Subject(w)>>}
    <3>1. {<<b.id, b.of>> : b \in buckets'} \subseteq Claims \cup {<<id, Subject(w)>>}
      BY <1>1, <2>1, <2>2 DEF Claims
    <3>2. \A v \in Workers : worker'[v].pc = "issue" /\ worker'[v].plane = "message" =>
            <<worker'[v].bucket, Subject(v)'>> \in Claims \cup {<<id, Subject(w)>>}
      BY <2>4 DEF Claims
    <3>3. {<<minted'[n].bucket, HolderOf(n)'>> : n \in MessageTokens'} \subseteq Claims
      BY <1>1 DEF Claims, MessageTokens, HolderOf
    <3>4. QED
      BY <3>1, <3>2, <3>3 DEF Claims
  <2>6. ClaimsAgree'
    BY <2>2, <2>5, ClaimsMove
  <2>7. TypeOK' /\ MembersAreActive'
    <3>1. buckets' \subseteq BucketRow
      BY <1>1, <1>2, <2>1, <2>2
    <3>2. opened' \in 0..MaxTokens
      BY <1>2, <1>5, <2>2, PlaneAssumption
    <3>3. QED
      BY <1>3, <2>4, <3>1, <3>2
  <2>8. BucketsDiffer'
    BY <1>1, <2>1, <2>2 DEF IInv, BucketsDiffer
  <2>9. QED
    BY <2>4, <2>6, <2>7, <2>8 DEF IInv
<1>6. QED
  BY <1>4, <1>5 DEF ResolveBucket

\* issueToken
LEMMA IssueTokenKeepsIInv ==
  ASSUME IInv, NEW w \in Workers, IssueToken(w)
  PROVE  IInv'
<1> DEFINE row == [plane |-> worker[w].plane, session |-> worker[w].session,
                   key |-> worker[w].key, bucket |-> worker[w].bucket,
                   expiresAt |-> Clock(w) + TtlOf(worker[w].plane)]
           last == Len(minted) + 1
<1>1. /\ worker[w].pc = "issue" /\ minted' = Append(minted, row)
      /\ tokens' = KeptTokens(now) \cup {last} /\ buckets' = KeptBuckets(now)
      /\ Refuse(w) /\ UNCHANGED <<provider, now, environment, opened>>
      /\ KeptTokens(now) \subseteq tokens /\ buckets' \subseteq buckets
  BY KeptFacts DEF IssueToken
<1>2. /\ row \in TokenRow /\ row.plane = worker[w].plane /\ row.bucket = worker[w].bucket
      /\ row.session = worker[w].session /\ row.key = worker[w].key
  <2>1. /\ worker[w].key \in KeyIds /\ worker[w].session \in Sessions
        /\ worker[w].plane \in Planes /\ worker[w].bucket \in Nat /\ Clock(w) \in Nat
    BY <1>1, ClearedFacts DEF WorkerState
  <2>2. Clock(w) + TtlOf(worker[w].plane) \in Nat
    BY <2>1, TtlFacts
  <2>3. QED
    BY <2>1, <2>2 DEF TokenRow
<1> HIDE DEF row
<1>3. Onward
  BY <1>1, <1>2 DEF Onward
<1>4. /\ Len(minted) \in Nat /\ Len(minted') = last /\ minted' \in Seq(TokenRow)
      /\ DOMAIN minted = 1..Len(minted) /\ DOMAIN minted' = 1..last
      /\ minted'[last] = row
      /\ \A n \in DOMAIN minted : minted'[n] = minted[n]
  BY <1>1, <1>2, AppendProperties, LenProperties DEF IInv, TypeOK
<1>5. /\ WorkersVetted' /\ worker'[w] = Idle
      /\ \A v \in Workers : v # w => worker'[v] = worker[v]
  BY <1>1, <1>3, IdleFacts, IdleIsVetted, WorkerMoves DEF Refuse
<1>6. Claims' \subseteq Claims
  <2>1. \A v \in Workers : worker'[v].pc = "issue" =>
          worker'[v] = worker[v] /\ Subject(v)' = Subject(v)
    BY <1>5, IdleFacts DEF Subject
  <2>2. {<<b.id, b.of>> : b \in buckets'} \subseteq Claims
    BY <1>1 DEF Claims
  <2>3. ASSUME NEW n \in MessageTokens' PROVE <<minted'[n].bucket, HolderOf(n)'>> \in Claims
    <3>1. CASE n \in DOMAIN minted
      BY <1>4, <2>3, <3>1 DEF Claims, MessageTokens, HolderOf
    <3>2. CASE n = last
      <4>1. worker[w].plane = "message" /\ minted'[n].bucket = worker[w].bucket
        BY <1>2, <1>4, <2>3, <3>2 DEF MessageTokens
      <4>2. HolderOf(n)' = Subject(w)
        BY <1>2, <1>4, <3>2 DEF HolderOf, Subject
      <4>3. QED
        BY <1>1, <4>1, <4>2 DEF Claims
    <3>3. QED
      BY <1>4, <2>3, <3>1, <3>2 DEF MessageTokens
  <2>4. \A v \in Workers : worker'[v].pc = "issue" /\ worker'[v].plane = "message" =>
          <<worker'[v].bucket, Subject(v)'>> \in Claims
    BY <2>1 DEF Claims
  <2>5. QED
    BY <2>2, <2>3, <2>4 DEF Claims
<1>7. ClaimsAgree'
  BY <1>1, <1>6, ClaimsMove
<1>8. TypeOK'
  <2>1. \A v \in Workers :
          /\ worker'[v].since \in 0..now' /\ worker'[v].token \in 0..Len(minted')
          /\ worker'[v].pc \notin {"idle", "drop"} =>
               worker'[v].key \in KeyIds /\ worker'[v].session \in Sessions
    BY <1>5 DEF WorkersVetted, Scoped, InProgress
  <2>2. tokens' \subseteq DOMAIN minted'
    BY <1>1, <1>4 DEF IInv, TypeOK
  <2>3. QED
    BY <1>1, <1>4, <2>1, <2>2 DEF IInv, TypeOK, environment
<1>9. MembersAreActive' /\ BucketsDiffer'
  BY <1>1 DEF IInv, MembersAreActive, BucketsDiffer, environment
<1>10. QED
  BY <1>5, <1>7, <1>8, <1>9 DEF IInv

-----------------------------------------------------------------------------
(* Sweeps, restarts and time *)

\* Requests stay where they are or end; rows are only deleted.
LEMMA StoreStepKeepsIInv ==
  ASSUME IInv, now' \in {now, now + 1}, now' \in 0..MaxTime,
         NEW dead \in SUBSET Workers,
         worker' = [w \in Workers |-> IF w \in dead THEN Idle ELSE worker[w]],
         tokens' \subseteq tokens, buckets' \subseteq buckets,
         UNCHANGED <<provider, environment, minted, opened>>
  PROVE  IInv'
<1> DEFINE new == [w \in Workers |-> IF w \in dead THEN Idle ELSE worker[w]]
<1>1. Onward
  BY DEF Onward
<1>2. worker' = [w \in Workers |-> new[w]] /\ worker \in [Workers -> WorkerState]
  BY DEF IInv, WorkersVetted
<1>3. \A w \in Workers : new[w] \in WorkerState /\ Scoped(new[w]) /\ Vetted(new[w])
  BY <1>2, IdleFacts, IdleIsVetted DEF IInv, WorkersVetted
<1>4. ASSUME NEW all, all = new, NEW w \in Workers PROVE Scoped(all[w])' /\ Vetted(all[w])'
  <2>1. Scoped(all[w])'
    BY <1>1, <1>3, <1>4, ScopedStays
  <2>2. Vetted(all[w])'
    BY <1>3, <1>4 DEF Vetted, environment
  <2>3. QED
    BY <2>1, <2>2
<1>5. \A w \in Workers : worker'[w].pc = "issue" =>
        worker'[w] = worker[w] /\ Subject(w)' = Subject(w)
  BY <1>2, IdleFacts DEF Subject
<1> HIDE DEF new
<1>6. WorkersVetted'
  BY <1>2, <1>3, <1>4, WorkersMove
<1>7. Claims' \subseteq Claims
  BY <1>5, ClaimsKept
<1>8. ClaimsAgree'
  BY <1>7, ClaimsMove
<1>9. \A v \in Workers :
        /\ worker'[v].since \in 0..now' /\ worker'[v].token \in 0..Len(minted')
        /\ worker'[v].pc \notin {"idle", "drop"} =>
             worker'[v].key \in KeyIds /\ worker'[v].session \in Sessions
  BY <1>6 DEF WorkersVetted, Scoped, InProgress
<1>10. TypeOK'
  BY <1>9 DEF IInv, TypeOK, environment
<1>11. MembersAreActive' /\ BucketsDiffer'
  BY DEF IInv, MembersAreActive, BucketsDiffer, environment
<1>12. QED
  BY <1>6, <1>8, <1>10, <1>11 DEF IInv

\* Sweeps, restarts and time take tokens, buckets and requests, and give none.
LEMMA QuietStepsKeepIInv ==
  ASSUME IInv, SweepTables \/ Restart \/ Tick \/ UNCHANGED vars
  PROVE  IInv'
<1>1. worker \in [Workers -> WorkerState] /\ now \in 0..MaxTime /\ MaxTime \in Nat
  BY PlaneAssumption DEF IInv, WorkersVetted, TypeOK
<1>2. CASE Restart
  <2>1. PICK dead \in SUBSET Workers :
          worker' = [w \in Workers |-> IF w \in dead THEN Idle ELSE worker[w]]
    BY <1>2 DEF Restart
  <2>2. /\ tokens' \subseteq tokens /\ buckets' \subseteq buckets
        /\ UNCHANGED <<provider, now, environment, minted, opened>>
    BY <1>2 DEF Restart
  <2>3. QED
    BY <1>1, <2>1, <2>2, StoreStepKeepsIInv
<1>3. CASE SweepTables \/ Tick \/ UNCHANGED vars
  <2>1. /\ worker' = worker /\ tokens' \subseteq tokens /\ buckets' \subseteq buckets
        /\ UNCHANGED <<provider, environment, minted, opened>>
    BY <1>3 DEF SweepTables, Tick, vars, store, LiveTokens, LiveBuckets
  <2>2. now' \in {now, now + 1} /\ now' \in 0..MaxTime
    BY <1>1, <1>3 DEF SweepTables, Tick, vars
  <2>3. PICK dead \in SUBSET Workers :
          worker' = [w \in Workers |-> IF w \in dead THEN Idle ELSE worker[w]]
    <3>1. worker' = [w \in Workers |-> IF w \in {} THEN Idle ELSE worker[w]]
      BY <1>1, <2>1
    <3>2. {} \in SUBSET Workers
      OBVIOUS
    <3>3. QED
      BY <3>1, <3>2, Zenon
  <2>4. QED
    BY <2>1, <2>2, <2>3, StoreStepKeepsIInv
<1>4. QED
  BY <1>2, <1>3

-----------------------------------------------------------------------------
(* Changes around the requests *)

\* Keys are only lost; who becomes a member has an active key at that instant,
\* and so has the member who gets a grant.
Surrounds ==
  /\ active' \subseteq active /\ sessions' \subseteq sessions
  /\ members' \subseteq sessions' \X PublicKeys
  /\ grants' \subseteq sessions' \X PublicKeys
  /\ \A x \in members' \ members : \E k \in active' : OwnerOf[k] = x[2]
  /\ \A x \in grants' \ grants : x \in members' /\ \E k \in active' : OwnerOf[k] = x[2]

\* A key that ends takes its owner out of every session it was in.
LEMMA KillKeyFacts ==
  ASSUME IInv, NEW k \in KeyIds, KillKey(k)
  PROVE  Surrounds /\ MembersAreActive'
<1> DEFINE p    == OwnerOf[k]
           gone == IF p = Creator THEN sessions ELSE {}
<1>1. /\ k \in active /\ active' = active \ {k} /\ sessions' = sessions \ gone
      /\ members' = {x \in Without(members, gone) : x[2] # p}
      /\ grants' = {x \in Without(grants, gone) : x[2] # p}
  BY DEF KillKey
<1>2. members \subseteq sessions \X PublicKeys /\ grants \subseteq sessions \X PublicKeys
  BY DEF IInv, TypeOK
<1> HIDE DEF gone, p
<1>3. Surrounds
  BY <1>1, <1>2 DEF Surrounds, Without
<1>4. MembersAreActive'
  <2> SUFFICES ASSUME NEW x \in members'
               PROVE  \E j \in active' : OwnerOf[j] = x[2]
    BY DEF MembersAreActive
  <2>1. x \in members /\ x[2] # p
    BY <1>1 DEF Without
  <2>2. PICK j \in active : OwnerOf[j] = x[2]
    BY <1>1, <2>1 DEF IInv, MembersAreActive
  <2>3. QED
    BY <1>1, <2>1, <2>2 DEF p
<1>5. QED
  BY <1>3, <1>4

\* Whatever happens to keys and sessions takes or grants access as recorded.
LEMMA ChangesSurround ==
  ASSUME IInv, Surroundings
  PROVE  Surrounds /\ MembersAreActive'
<1>1. /\ members \subseteq sessions \X PublicKeys /\ grants \subseteq sessions \X PublicKeys
      /\ active \subseteq KeyIds /\ MembersAreActive
  BY DEF IInv, TypeOK
<1>2. ASSUME NEW k \in KeyIds, KillKey(k) PROVE Surrounds /\ MembersAreActive'
  BY <1>2, KillKeyFacts
<1>3. ASSUME NEW k \in KeyIds, NEW s \in Sessions, Join(s, k) PROVE Surrounds /\ MembersAreActive'
  <2>1. <<s, OwnerOf[k]>> \in sessions \X PublicKeys
    BY <1>3 DEF Join, PublicKeys
  <2>2. QED
    BY <1>1, <1>3, <2>1 DEF Join, Surrounds, MembersAreActive
<1>4. CASE ExpireAllKeys
  BY <1>1, <1>4 DEF ExpireAllKeys, Surrounds, MembersAreActive
<1>5. ASSUME NEW x \in members \cup grants, Leave(x) \/ Grant(x) \/ Revoke(x)
      PROVE  Surrounds /\ MembersAreActive'
  BY <1>1, <1>5 DEF Leave, Grant, Revoke, Surrounds, MembersAreActive
<1>6. ASSUME NEW s \in Sessions, EndSession(s) PROVE Surrounds /\ MembersAreActive'
  BY <1>1, <1>6 DEF EndSession, Without, Surrounds, MembersAreActive
<1>7. QED
  BY <1>2, <1>3, <1>4, <1>5, <1>6 DEF Surroundings

\* "entitled" records an instant at which the change makes a request entitled.
LEMMA WitnessedKeepsVetted ==
  ASSUME IInv, Surrounds, Witnessed, NEW w \in Workers, UNCHANGED <<now, minted>>
  PROVE  /\ worker'[w] \in WorkerState /\ Scoped(worker[w])' /\ Vetted(worker[w])'
         /\ worker'[w].pc = worker[w].pc /\ worker'[w].plane = worker[w].plane
         /\ worker'[w].bucket = worker[w].bucket /\ Subject(w)' = Subject(w)
<1> DEFINE instant == Entitled(w, active', sessions', members', grants')
           new     == IF InProgress(worker[w])
                      THEN [worker[w] EXCEPT !.entitled = @ \/ instant] ELSE worker[w]
<1>1. worker[w] \in WorkerState /\ Scoped(worker[w]) /\ Vetted(worker[w])
  BY DEF IInv, WorkersVetted
<1>2. instant <=>
        /\ \E k \in active' : OwnerOf[k] = SubjectOf(worker[w])[2]
        /\ SubjectOf(worker[w])[1] \in sessions'
        /\ SubjectOf(worker[w]) \in members'
        /\ worker[w].plane = "message" =>
             SubjectOf(worker[w])[2] = Creator \/ SubjectOf(worker[w]) \in grants'
  BY DEF Entitled, Subject, SubjectOf
<1>3. worker'[w] = new
  BY DEF Witnessed, InProgress
<1>4. instant \in BOOLEAN
  BY DEF Entitled
<1> HIDE DEF instant
<1>5. /\ new \in WorkerState
      /\ new.pc = worker[w].pc /\ new.op = worker[w].op /\ new.plane = worker[w].plane
      /\ new.session = worker[w].session /\ new.key = worker[w].key
      /\ new.token = worker[w].token /\ new.strays = worker[w].strays
      /\ new.since = worker[w].since /\ new.bucket = worker[w].bucket
      /\ new.keyLived = worker[w].keyLived
      /\ new.entitled <=> worker[w].entitled \/ (InProgress(worker[w]) /\ instant)
  BY <1>1, <1>4 DEF WorkerState
<1> HIDE DEF new
<1>6. SubjectOf(new) = SubjectOf(worker[w]) /\ Subject(w)' = Subject(w)
  BY <1>3, <1>5 DEF SubjectOf, Subject
<1>7. SubjectOf(worker[w]) \in members' => SubjectOf(worker[w])[1] \in sessions'
  BY DEF Surrounds
<1>8. ASSUME InProgress(worker[w]), worker[w].keyLived, SubjectOf(worker[w]) \in members',
             worker[w].plane = "message" =>
               SubjectOf(worker[w])[2] = Creator \/ SubjectOf(worker[w]) \in grants'
      PROVE  worker[w].entitled \/ instant
  BY <1>1, <1>2, <1>7, <1>8 DEF Surrounds, Vetted
<1>9. ASSUME worker[w].pc \in {"creator", "grant"}, SubjectOf(worker[w]) \in grants'
      PROVE  worker[w].entitled \/ instant
  BY <1>1, <1>2, <1>7, <1>9 DEF Surrounds, Vetted
<1>10. ASSUME NEW request, request = new PROVE Scoped(request)' /\ Vetted(request)'
  <2>1. Scoped(request)'
    BY <1>1, <1>5, <1>10 DEF Scoped, InProgress
  <2>2. active' \subseteq active
    BY DEF Surrounds
  <2>3. Vetted(request)'
    BY <1>1, <1>5, <1>6, <1>8, <1>9, <1>10, <2>2 DEF Vetted, InProgress, KeyChecked, SubjectOf
  <2>4. QED
    BY <2>1, <2>3
<1>11. QED
  BY <1>3, <1>5, <1>6, <1>10

\* What happens around a request is noted in it where it entitles the request.
LEMMA SurroundingsKeepIInv ==
  ASSUME IInv, Surroundings
  PROVE  IInv'
<1>1. Surrounds /\ MembersAreActive'
  BY ChangesSurround
<1>2. Witnessed /\ UNCHANGED <<provider, now, store>>
  BY DEF Surroundings
<1>3. UNCHANGED <<minted, tokens, buckets, opened>>
  BY <1>2 DEF store
<1>4. \A w \in Workers :
        /\ worker'[w] \in WorkerState /\ Scoped(worker[w])' /\ Vetted(worker[w])'
        /\ worker'[w].pc = worker[w].pc /\ worker'[w].plane = worker[w].plane
        /\ worker'[w].bucket = worker[w].bucket /\ Subject(w)' = Subject(w)
  BY <1>1, <1>2, <1>3, WitnessedKeepsVetted
<1>5. WorkersVetted'
  <2>1. worker' \in [Workers -> WorkerState]
    BY <1>2, <1>4 DEF Witnessed
  <2>2. QED
    BY <1>4, <2>1 DEF WorkersVetted
<1>6. Claims' \subseteq Claims
  BY <1>3, <1>4, ClaimsKept
<1>7. ClaimsAgree'
  BY <1>3, <1>6, ClaimsMove
<1>8. TypeOK'
  <2>1. \A v \in Workers :
          /\ worker'[v].since \in 0..now' /\ worker'[v].token \in 0..Len(minted')
          /\ worker'[v].pc \notin {"idle", "drop"} =>
               worker'[v].key \in KeyIds /\ worker'[v].session \in Sessions
    BY <1>4 DEF Scoped, InProgress
  <2>2. QED
    BY <1>1, <1>2, <1>3, <2>1 DEF IInv, TypeOK, Surrounds
<1>9. BucketsDiffer'
  BY <1>3 DEF IInv, BucketsDiffer
<1>10. QED
  BY <1>1, <1>5, <1>7, <1>8, <1>9 DEF IInv

-----------------------------------------------------------------------------
(* The theorems *)

\* The invariant holds of what a process starts with.
LEMMA InitIInv == Init => IInv
<1> SUFFICES ASSUME Init PROVE IInv
  OBVIOUS
<1>1. /\ minted \in Seq(TokenRow) /\ Len(minted) = 0 /\ DOMAIN minted = {}
  BY EmptySeq DEF Init
<1>2. TypeOK
  BY <1>1, IdleFacts, OwnersAssumption, PlaneAssumption DEF Init, TypeOK, PublicKeys
<1>3. \A w \in Workers : worker[w] = Idle
  BY DEF Init
<1>4. WorkersVetted
  <2>1. Scoped(Idle) /\ Vetted(Idle)
    BY <1>1, <1>2, IdleFacts DEF Scoped, Vetted, InProgress, KeyChecked, TypeOK
  <2>2. worker \in [Workers -> WorkerState]
    BY IdleFacts DEF Init
  <2>3. QED
    BY <1>3, <2>1, <2>2 DEF WorkersVetted
<1>5. MembersAreActive
  BY OwnersAssumption DEF Init, MembersAreActive, PublicKeys
<1>6. Claims = {}
  BY <1>1, <1>3, IdleFacts DEF Init, Claims, MessageTokens
<1>7. ClaimsAgree /\ BucketsDiffer
  BY <1>6 DEF Init, ClaimsAgree, BucketsDiffer
<1>8. QED
  BY <1>2, <1>4, <1>5, <1>7 DEF IInv

\* No step breaks the invariant: one case per action of Next.
LEMMA StepKeepsIInv == IInv /\ [Next]_vars => IInv'
<1> SUFFICES ASSUME IInv, [Next]_vars PROVE IInv'
  OBVIOUS
<1>1. ASSUME NEW w \in Workers, Proceed(w) PROVE IInv'
  BY <1>1, TokenChecksKeepIInv, SessionChecksKeepIInv, ResolveBucketKeepsIInv,
     IssueTokenKeepsIInv DEF Proceed
<1>2. ASSUME NEW w \in Workers, Requests(w) PROVE IInv'
  BY <1>2, AskTokenKeepsIInv, PresentTokenKeepsIInv DEF Requests
<1>3. CASE SweepTables \/ Restart \/ Tick \/ UNCHANGED vars
  BY <1>3, QuietStepsKeepIInv
<1>4. CASE Surroundings
  BY <1>4, SurroundingsKeepIInv
<1>5. QED
  BY <1>1, <1>2, <1>3, <1>4 DEF Next

\* The inductive invariant holds in every reachable state.
THEOREM AlwaysIInv == Spec => []IInv
BY InitIInv, StepKeepsIInv, PTL DEF Spec

\* The state keeps its types, and the store holds only tokens that were issued.
THEOREM TypeCorrect == Spec => []TypeOK
<1>1. IInv => TypeOK
  BY DEF IInv
<1>2. QED
  BY <1>1, AlwaysIInv, PTL

\* Whoever gets through the guards of a mailbox request had an active key, a
\* membership of the session and, for messages, a grant at one same instant.
THEOREM GuardsAddUp == Spec => []ClearedWasEntitled
<1>1. IInv => ClearedWasEntitled
  BY DEF IInv, WorkersVetted, Vetted, ClearedWasEntitled, Cleared
<1>2. QED
  BY <1>1, AlwaysIInv, PTL

\* A served token is used on its plane, for its session, by a request that came
\* in before its end and while the key it was issued to was active.
THEOREM TokensStayInScope == Spec => []UsedInScope
<1>1. IInv => UsedInScope
  BY DEF IInv, WorkersVetted, Scoped, Vetted, KeyChecked, UsedInScope
<1>2. QED
  BY <1>1, AlwaysIInv, PTL

\* resolveBucketCapability never hands two members one control bucket, nor one
\* member two that live at once.
THEOREM BucketsAreOfOneMember == Spec => []OneBucketPerMember
<1>1. IInv => OneBucketPerMember
  <2> SUFFICES ASSUME IInv, NEW m \in MessageTokens, NEW n \in MessageTokens
               PROVE  /\ minted[m].bucket = minted[n].bucket => SameOwner(m, n)
                      /\ SameOwner(m, n) /\ BucketAlive(m) /\ BucketAlive(n) =>
                           minted[m].bucket = minted[n].bucket
    BY DEF OneBucketPerMember, MessageTokens
  <2>1. <<minted[m].bucket, HolderOf(m)>> \in Claims /\ <<minted[n].bucket, HolderOf(n)>> \in Claims
    BY DEF Claims
  <2>2. \A b \in buckets : <<b.id, b.of>> \in Claims
    BY DEF Claims
  <2>3. SameOwner(m, n) <=> HolderOf(m) = HolderOf(n)
    BY DEF SameOwner, HolderOf
  <2>4. \A c, d \in Claims : c[1] = d[1] => c[2] = d[2]
    BY DEF IInv, ClaimsAgree
  <2>5. minted[m].bucket = minted[n].bucket => HolderOf(m) = HolderOf(n)
    BY <2>1, <2>4
  <2>6. \A b \in buckets : /\ b.id = minted[m].bucket => b.of = HolderOf(m)
                           /\ b.id = minted[n].bucket => b.of = HolderOf(n)
    BY <2>1, <2>2, <2>4
  <2>7. QED
    BY <2>3, <2>5, <2>6 DEF IInv, BucketsDiffer, BucketAlive
<1>2. QED
  BY <1>1, AlwaysIInv, PTL
=============================================================================
