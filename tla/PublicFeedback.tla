--------------------------- MODULE PublicFeedback ---------------------------
(***************************************************************************)
(* Public feedback and the reactions to it: public-feedback-store.ts, with *)
(* its export and import around a restart.                                 *)
(*                                                                         *)
(* The store knows the clients that react by a digest of their id.  An     *)
(* actor is a pair of a client and how often its id was digested: 0 is the *)
(* id itself, as requests and old snapshots have it.  No client's id begins*)
(* with the prefix of a digest.                                            *)
(***************************************************************************)
EXTENDS Integers, FiniteSets

CONSTANTS
  Posts,    \* ids of feedback entries; each is used once
  Clients   \* clients that react

VARIABLES
  feedback,   \* PublicFeedbackStore.feedback
  reactions,  \* PublicFeedbackStore.reactions: triples of post, actor, reaction
  snapshot,   \* what was exported last: feedback, reactions
  added,      \* ids given out so far
  said        \* history: last word of each client, here and in the snapshot

vars == <<feedback, reactions, snapshot, added, said>>

-----------------------------------------------------------------------------
Silence == [p \in Posts |-> [c \in Clients |-> "none"]]

DigestAgain(actor) == <<actor[1], actor[2] + 1>>

\* sanitizeStoredFeedbackReactionActor: a digest is left as it is.
Sanitized(actor) == IF actor[2] > 0 THEN actor ELSE <<actor[1], 1>>

Of(p, actor) == {r \in reactions : r[1] = p /\ r[2] = actor}

\* An old snapshot has client ids as they are.
OldSnapshots ==
  {[feedback |-> {p}, reactions |-> {<<p, <<c, 0>>, "like">>}] : p \in Posts, c \in Clients}

WordsOf(old) ==
  [p \in Posts |-> [c \in Clients |->
     IF <<p, <<c, 0>>, "like">> \in old.reactions THEN "like" ELSE "none"]]

Init ==
  /\ feedback = {}
  /\ reactions = {}
  /\ \E old \in OldSnapshots \cup {[feedback |-> {}, reactions |-> {}]} :
       /\ snapshot = old
       /\ added = old.feedback
       /\ said = [here |-> Silence, there |-> WordsOf(old)]

Add(p) ==
  /\ p \notin added
  /\ added' = added \cup {p}
  /\ feedback' = feedback \cup {p}
  /\ UNCHANGED <<reactions, snapshot, said>>

\* react: the last reaction of an actor replaces the one before.
React(p, c, reaction) ==
  LET actor == Sanitized(<<c, 0>>) IN
  /\ p \in feedback
  /\ reactions' = (reactions \ Of(p, actor))
                    \cup {<<p, actor, r>> : r \in {reaction} \ {"none"}}
  /\ said' = [said EXCEPT !.here[p][c] = reaction]
  /\ UNCHANGED <<feedback, snapshot, added>>

\* exportSnapshot; redacted, it leaves the reactions out.
Export(redact) ==
  /\ snapshot' = [feedback |-> feedback, reactions |-> IF redact THEN {} ELSE reactions]
  /\ said' = [said EXCEPT !.there = IF redact THEN Silence ELSE said.here]
  /\ UNCHANGED <<feedback, reactions, added>>

\* importSnapshot replaces everything; redacting, it takes no reactions.
Import(redact) ==
  /\ feedback' = snapshot.feedback
  /\ reactions' = IF redact THEN {}
                  ELSE {<<r[1], Sanitized(r[2]), r[3]>> : r \in snapshot.reactions}
  /\ said' = [said EXCEPT !.here = IF redact THEN Silence ELSE said.there]
  /\ UNCHANGED <<snapshot, added>>

\* reset, or a restart.
Reset ==
  /\ feedback' = {}
  /\ reactions' = {}
  /\ said' = [said EXCEPT !.here = Silence]
  /\ UNCHANGED <<snapshot, added>>

Next ==
  \/ \E p \in Posts :
       Add(p) \/ \E c \in Clients, r \in {"like", "dislike", "none"} : React(p, c, r)
  \/ \E redact \in BOOLEAN : Export(redact) \/ Import(redact)
  \/ Reset

-----------------------------------------------------------------------------
\* toView: how many reactions of a kind an entry shows.
Count(p, reaction) == Cardinality({r \in reactions : r[1] = p /\ r[3] = reaction})

\* An entry's likes and dislikes are the last words of the clients, one each,
\* also across a restart, an export and an import of old or new snapshots.
OneVoiceEach ==
  \A p \in feedback, reaction \in {"like", "dislike"} :
    Count(p, reaction) = Cardinality({c \in Clients : said.here[p][c] = reaction})
=============================================================================
