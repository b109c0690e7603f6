------------------------------ MODULE Ratchet ------------------------------
(***************************************************************************)
(* The message ratchet of native/voryx-crypto-wasm: ratchetStepState on    *)
(* the sending side, ratchetReceiveTransition on the receiving side and    *)
(* the sealed copies either side keeps of its state.                       *)
(*                                                                         *)
(* Keys are terms: chain n is the root after n derivations, and its        *)
(* message key is known by n too.  The counter beside it is a number of    *)
(* bounded width; what one beyond its maximum is depends on the build,     *)
(* which wraps without overflow checks and panics with them.               *)
(*                                                                         *)
(* External: the clients, which call these functions, keep a new state     *)
(* only when the message opened, and start from their last sealed copy     *)
(* after a crash; and the network, which loses, repeats and reorders.      *)
(***************************************************************************)
EXTENDS Integers

CONSTANTS
  Counters,   \* how many values a counter has: 2^32
  MaxChain    \* bound: derivations of the sender

VARIABLES
  build,      \* "wraps" or "panics"
  sender,     \* the sender's state: chain and counter
  receiver,   \* the receiver's state
  sealed,     \* last sealed copy of each
  sent,       \* messages on the network: chain of the key, and counter
  last        \* history: the last delivery, its step, where it met the receiver

vars == <<build, sender, receiver, sealed, sent, last>>

-----------------------------------------------------------------------------
StoredState(chain, counter) == [chain |-> chain, counter |-> counter]

Root == StoredState(0, 0)

\* counter + 1 does not panic.
CanStep(counter) == build = "wraps" \/ counter < Counters - 1

\* derive_ratchet_step: next chain and next counter.
Stepped(chain, counter) == StoredState(chain + 1, (counter + 1) % Counters)

Init ==
  /\ build \in {"wraps", "panics"}
  /\ sender = Root
  /\ receiver = Root
  /\ sealed = [sender |-> Root, receiver |-> Root]
  /\ sent = {}
  /\ last = [opened |-> TRUE, step |-> 0, at |-> 0]

\* ratchetStepState: a message under the current key, then the next state.
Send ==
  /\ sender.chain < MaxChain
  /\ CanStep(sender.counter)
  /\ sent' = sent \cup {sender}
  /\ sender' = Stepped(sender.chain, sender.counter)
  /\ UNCHANGED <<build, receiver, sealed, last>>

CatchUpTooFar(state, incoming) == state.chain + (incoming - state.counter) + 1

\* The loop of ratchetReceiveTransition derives up to the incoming counter.
CatchUp(state, incoming) == state.chain + (incoming - state.counter)

\* ratchetReceiveTransition: older counters are refused; the message opens if
\* the key is its own.
Opens(m) ==
  /\ m.counter >= receiver.counter
  /\ CanStep(m.counter)
  /\ CatchUp(receiver, m.counter) = m.chain

Receive(m) ==
  /\ last' = [opened |-> Opens(m), step |-> m.chain, at |-> receiver.chain]
  /\ receiver' = IF Opens(m) THEN Stepped(CatchUp(receiver, m.counter), m.counter)
                 ELSE receiver
  /\ UNCHANGED <<build, sender, sealed, sent>>

\* ratchetStateSeal
Seal ==
  /\ \/ sealed' = [sealed EXCEPT !.sender = sender]
     \/ sealed' = [sealed EXCEPT !.receiver = receiver]
  /\ UNCHANGED <<build, sender, receiver, sent, last>>

\* ratchetStateOpen, after a crash of one side.
Reopen ==
  /\ \/ sender' = sealed.sender /\ UNCHANGED receiver
     \/ receiver' = sealed.receiver /\ UNCHANGED sender
  /\ UNCHANGED <<build, sealed, sent, last>>

Next == Send \/ (\E m \in sent : Receive(m)) \/ Seal \/ Reopen

-----------------------------------------------------------------------------
Era(step) == step \div Counters

\* Whatever was lost, repeated, reordered or reopened: a message opens exactly
\* if the receiver has not stepped past it and no counter wrapped in between.
\* So no replay opens, no loss puts the two sides out of step, and one lost
\* stretch across a wrap does for good.
InStep == last.opened <=> last.step >= last.at /\ Era(last.step) = Era(last.at)
=============================================================================
