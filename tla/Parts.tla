------------------------------- MODULE Parts -------------------------------
(***************************************************************************)
(* Five modules that share nothing, side by side: SchemaLock,              *)
(* MessageDeadlines, Ratchet, KeyReputation and PublicFeedback.  The       *)
(* initial state chooses which of them a behaviour is about; the others    *)
(* stay as they begin.  Each property is the module's own.                 *)
(***************************************************************************)
EXTENDS Integers, FiniteSets

CONSTANTS
  Instances, PoolMax, Statements, MaxFaults,   \* of SchemaLock
  Messages, Ttl, MaxTime,                      \* of MessageDeadlines
  Counters, MaxChain,                          \* of Ratchet
  MinScore, MinTotal, MaxRate, BanStrikes,     \* of KeyReputation
  StrikeCap, Amounts, MaxVotes,
  Posts, Clients                               \* of PublicFeedback

\* A counter has values; negative scores, rates that are percentages above zero
\* and at least one strike keep a key out; clients can be counted.
ASSUME PartsAssumption ==
  /\ Counters \in Nat \ {0}
  /\ MinScore \in Int /\ MinScore < 0
  /\ MinTotal \in Nat
  /\ MaxRate \in 1..100
  /\ BanStrikes \in Nat \ {0} /\ StrikeCap \in Nat
  /\ Amounts \subseteq Int
  /\ IsFiniteSet(Clients)

VARIABLES
  part,
  setup, todo, outcome, holder, faulted, troubles,
  clock, present, deadline, timers, acking, promised,
  build, sender, receiver, sealed, sent, last,
  approvals, reports, strikes,
  feedback, reactions, snapshot, added, said

Lock       == INSTANCE SchemaLock
Deadlines  == INSTANCE MessageDeadlines
Chain      == INSTANCE Ratchet
Reputation == INSTANCE KeyReputation
Feedback   == INSTANCE PublicFeedback

lock       == <<setup, todo, outcome, holder, faulted, troubles>>
deadlines  == <<clock, present, deadline, timers, acking, promised>>
chain      == <<build, sender, receiver, sealed, sent, last>>
reputation == <<approvals, reports, strikes>>
posts      == <<feedback, reactions, snapshot, added, said>>
vars       == <<part, lock, deadlines, chain, reputation, posts>>

Init ==
  /\ part \in {"lock", "deadlines", "chain", "reputation", "posts"}
  /\ Lock!Init /\ Deadlines!Init /\ Chain!Init /\ Reputation!Init /\ Feedback!Init
  /\ part # "chain" => build = "wraps"
  /\ part # "posts" => added = {}

InLock       == part = "lock" /\ UNCHANGED <<part, deadlines, chain, reputation, posts>>
InDeadlines  == part = "deadlines" /\ UNCHANGED <<part, lock, chain, reputation, posts>>
InChain      == part = "chain" /\ UNCHANGED <<part, lock, deadlines, reputation, posts>>
InReputation == part = "reputation" /\ UNCHANGED <<part, lock, deadlines, chain, posts>>
InPosts      == part = "posts" /\ UNCHANGED <<part, lock, deadlines, chain, reputation>>

Next ==
  \/ InLock /\ Lock!Next
  \/ InDeadlines /\ Deadlines!Next
  \/ InChain /\ Chain!Next
  \/ InReputation /\ Reputation!Next
  \/ InPosts /\ Feedback!Next

\* Promises and queries settle and the database ends the session of a client
\* that is gone; time passes and the periodic clean-up comes round.
Fairness ==
  /\ \A i \in Instances : WF_vars(InLock /\ Lock!Proceed(i))
  /\ WF_vars(InLock /\ Lock!EndSession)
  /\ WF_vars(InDeadlines /\ Deadlines!Tick)
  /\ \A m \in Messages : WF_vars(InDeadlines /\ Deadlines!CleanupExpired(m))

Spec == Init /\ [][Next]_vars /\ Fairness

-----------------------------------------------------------------------------
\* SchemaLock: set-ups of postgres-schema-lock.ts end.
SetUpSucceeds == Lock!SetUpSucceeds

\* MessageDeadlines: a due message of message-lifecycle-store.ts is deleted.
DueIsDeleted == Deadlines!DueIsDeleted

\* Ratchet: what opens and what is refused by ratchetReceiveTransition.
InStep == Chain!InStep

\* KeyReputation: reports, strikes and approvals in key-reputation-policy.ts.
VotesPullOneWay == Reputation!VotesPullOneWay

\* PublicFeedback: one voice per client in public-feedback-store.ts.
OneVoiceEach == Feedback!OneVoiceEach
=============================================================================
