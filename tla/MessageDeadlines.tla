-------------------------- MODULE MessageDeadlines --------------------------
(***************************************************************************)
(* Disappearing messages: the actions "mark_read", "decrypt_ack" and       *)
(* "delete" of mailbox-message.ts, the deadlines of                        *)
(* message-lifecycle-store.ts and the clean-up that comes after a lost     *)
(* timer.                                                                  *)
(*                                                                         *)
(* External: the message store, of which every message here has a time to  *)
(* live, storage.markMessagesRead, which registers as "decrypt_ack" does,  *)
(* and the scheduler, whose callback may come late or never.               *)
(***************************************************************************)
EXTENDS Integers

CONSTANTS
  Messages,  \* ids of the messages
  Ttl,       \* disappearAfterSeconds
  MaxTime    \* bound: the clock stops here

VARIABLES
  clock,     \* Date.now()
  present,   \* messages in the store
  deadline,  \* messageDeleteAt; 0 without one
  timers,    \* scheduled deletions: pairs of message and time
  acking,    \* "decrypt_ack" requests that have found their message
  promised   \* history: the first time a message was due; 0 for never

vars == <<clock, present, deadline, timers, acking, promised>>

-----------------------------------------------------------------------------
Init ==
  /\ clock = 1
  /\ present = Messages
  /\ deadline = [m \in Messages |-> 0]
  /\ timers = {}
  /\ acking = {}
  /\ promised = [m \in Messages |-> 0]

\* registerMessageDeleteAt: the earliest deadline stands; only a new one is
\* scheduled.
Register(m, at) ==
  /\ IF deadline[m] # 0 /\ deadline[m] <= at THEN UNCHANGED <<deadline, timers>>
     ELSE /\ deadline' = [deadline EXCEPT ![m] = at]
          /\ timers' = timers \cup {<<m, at>>}
  /\ promised' = [promised EXCEPT ![m] = IF @ = 0 THEN at ELSE @]

\* Action "decrypt_ack" finds its message ...
StartAck(m) ==
  /\ m \in present
  /\ acking' = acking \cup {m}
  /\ UNCHANGED <<clock, present, deadline, timers, promised>>

\* ... and registers its deletion, whatever has become of it meanwhile.
FinishAck(m) ==
  /\ m \in acking
  /\ acking' = acking \ {m}
  /\ Register(m, clock + Ttl)
  /\ UNCHANGED <<clock, present>>

\* Action "mark_read".
MarkRead(m) ==
  /\ m \in present
  /\ Register(m, clock + Ttl)
  /\ UNCHANGED <<clock, present, acking>>

\* deleteMessageBySystem
Remove(m) ==
  /\ present' = present \ {m}
  /\ deadline' = [deadline EXCEPT ![m] = 0]

\* Action "delete": cancelDisappearingMessageDelete follows.
DeleteMessage(m) ==
  /\ m \in present
  /\ Remove(m)
  /\ timers' = {t \in timers : t[1] # m}
  /\ UNCHANGED <<clock, acking, promised>>

\* The scheduler calls back ...
FireTimer(t) ==
  /\ t \in timers
  /\ t[2] <= clock
  /\ timers' = timers \ {t}
  /\ Remove(t[1])
  /\ UNCHANGED <<clock, acking, promised>>

\* ... or forgets to.
LoseTimer(t) ==
  /\ t \in timers
  /\ timers' = timers \ {t}
  /\ UNCHANGED <<clock, present, deadline, acking, promised>>

CleanupScheduled(m) ==
  /\ <<m, deadline[m]>> \in timers /\ deadline[m] <= clock
  /\ Remove(m)
  /\ UNCHANGED <<clock, timers, acking, promised>>

\* cleanupExpiredMessageDeletes: each id whose deadline has passed.
CleanupExpired(m) ==
  /\ deadline[m] # 0 /\ deadline[m] <= clock
  /\ Remove(m)
  /\ UNCHANGED <<clock, timers, acking, promised>>

Tick ==
  /\ clock < MaxTime
  /\ clock' = clock + 1
  /\ UNCHANGED <<present, deadline, timers, acking, promised>>

Next ==
  \/ \E m \in Messages :
       \/ StartAck(m) \/ FinishAck(m) \/ MarkRead(m) \/ DeleteMessage(m)
       \/ CleanupExpired(m)
       \/ \E at \in 1..(MaxTime + Ttl) : FireTimer(<<m, at>>) \/ LoseTimer(<<m, at>>)
  \/ Tick

-----------------------------------------------------------------------------
\* A message that was due once goes, although its timer may be lost and
\* later readings and acknowledgements ask for later deadlines.
DueIsDeleted ==
  \A m \in Messages :
    m \in present /\ promised[m] \in 1..MaxTime ~> m \notin present
=============================================================================
