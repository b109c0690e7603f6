--------------------------- MODULE KeyReputation ---------------------------
(***************************************************************************)
(* Who is kept out of sessions: key-reputation-policy.ts for one public    *)
(* key, from the votes of others and its spam strikes.                     *)
(*                                                                         *)
(* The feedback rows are kept by code outside the repository: votes come   *)
(* and change.  A purge of the public key takes votes and strikes.         *)
(***************************************************************************)
EXTENDS Integers

CONSTANTS
  MinScore,    \* MIN_REPUTATION_SCORE_TO_JOIN
  MinTotal,    \* MIN_REPUTATION_TOTAL_FOR_ENFORCEMENT
  MaxRate,     \* MAX_REPORT_RATE_TO_JOIN
  BanStrikes,  \* SPAM_STRIKES_BAN_THRESHOLD
  StrikeCap,   \* 1000
  Amounts,     \* amounts of spam noted at once
  MaxVotes     \* bound: votes on the key

VARIABLES
  approvals,  \* rows that approve the key
  reports,    \* rows that report it
  strikes     \* keySpamStrikes

vars == <<approvals, reports, strikes>>

-----------------------------------------------------------------------------
ScoreOfSpammers == approvals - reports + strikes * 6

Score == approvals - reports - strikes * 6

Total == approvals + reports + strikes * 3

\* Math.round, half up.  The code's float falls short of a half for some ratios,
\* the first being 23 of 40, and its rate is then one lower.
ReportRate ==
  IF Total = 0 THEN 0 ELSE (200 * (reports + strikes * 3) + Total) \div (2 * Total)

\* getKeySessionAccessDecision
Blocked ==
  \/ strikes >= BanStrikes
  \/ Total >= MinTotal /\ (Score <= MinScore \/ ReportRate >= MaxRate)

-----------------------------------------------------------------------------
Init == approvals = 0 /\ reports = 0 /\ strikes = 0

Vote ==
  /\ approvals + reports < MaxVotes
  /\ \/ approvals' = approvals + 1 /\ UNCHANGED reports
     \/ reports' = reports + 1 /\ UNCHANGED approvals
  /\ UNCHANGED strikes

ChangeVote ==
  /\ \/ approvals > 0 /\ approvals' = approvals - 1 /\ reports' = reports + 1
     \/ reports > 0 /\ reports' = reports - 1 /\ approvals' = approvals + 1
  /\ UNCHANGED strikes

\* noteKeySpam: at least one strike, and no more than the cap.
NoteKeySpam(amount) ==
  LET next == strikes + (IF amount > 1 THEN amount ELSE 1) IN
  /\ strikes' = IF next < StrikeCap THEN next ELSE StrikeCap
  /\ UNCHANGED <<approvals, reports>>

\* purgePublicKeyLinkedStores
Purge == approvals' = 0 /\ reports' = 0 /\ strikes' = 0

Next == Vote \/ ChangeVote \/ (\E n \in Amounts : NoteKeySpam(n)) \/ Purge

-----------------------------------------------------------------------------
Worse  == approvals' <= approvals /\ reports' >= reports /\ strikes' >= strikes
Better == approvals' >= approvals /\ reports' <= reports /\ strikes' <= strikes

\* No report and no strike ever lets a blocked key in, although both also add
\* to the total that the report rate is taken of; and an approval keeps a key
\* out only if it is the vote that brings the total up to enforcement.
VotesPullOneWay ==
  [][/\ Worse /\ Blocked => Blocked'
     /\ Better /\ ~ Blocked /\ Blocked' => Total < MinTotal]_vars
=============================================================================
