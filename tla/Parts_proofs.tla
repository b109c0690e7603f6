---------------------------- MODULE Parts_proofs ----------------------------
(***************************************************************************)
(* Proofs about the three small modules whose properties are safety        *)
(* properties: Ratchet for counters of any width, KeyReputation for all    *)
(* limits a policy can sensibly have, PublicFeedback for any number of     *)
(* posts and clients.  What they assume of the constants is                *)
(* PartsAssumption, which Parts states and the runs evaluate.              *)
(***************************************************************************)
EXTENDS Parts, FiniteSetTheorems, FunctionTheorems, TLAPS

-----------------------------------------------------------------------------
(* Division by a positive number *)

Parted(n, d, q, r) == n = d * q + r /\ r \in 0..(d - 1)

\* Quotient and remainder part a number.
LEMMA DivModFacts ==
  ASSUME NEW n \in Nat, NEW d \in Nat \ {0}
  PROVE  n \div d \in Nat /\ n % d \in Nat /\ Parted(n, d, n \div d, n % d)
BY DEF Parted

\* A number is parted in one way only.
LEMMA PartedOnce ==
  ASSUME NEW n \in Nat, NEW d \in Nat \ {0}, NEW q \in Nat, NEW r \in Nat,
         NEW p \in Nat, NEW s \in Nat, Parted(n, d, q, r), Parted(n, d, p, s)
  PROVE  q = p /\ r = s
<1>1. ASSUME NEW a \in Nat, NEW b \in Nat, NEW x \in 0..(d - 1), NEW y \in 0..(d - 1),
             d * a + x = d * b + y
      PROVE  ~ (a < b)
  <2>1. SUFFICES ASSUME a < b PROVE FALSE
    OBVIOUS
  <2>2. PICK k \in Nat : b = a + 1 + k
    <3>1. b - a - 1 \in Nat /\ b = a + 1 + (b - a - 1)
      BY <2>1
    <3>2. QED
      BY <3>1
  <2>3. d * b = d * a + d + d * k /\ d * k >= 0
    BY <2>2
  <2>4. d * a \in Int /\ d * k \in Int
    OBVIOUS
  <2>5. QED
    BY <1>1, <2>3, <2>4
<1>2. ~ (q < p) /\ ~ (p < q)
  BY <1>1 DEF Parted
<1>3. q = p
  BY <1>2
<1>4. QED
  BY <1>3 DEF Parted

\* So a remainder is known by any parting.
LEMMA ModIs ==
  ASSUME NEW n \in Nat, NEW d \in Nat \ {0}, NEW q \in Nat, NEW r \in Nat, Parted(n, d, q, r)
  PROVE  n % d = r
<1>1. n \div d \in Nat /\ n % d \in Nat /\ Parted(n, d, n \div d, n % d)
  BY DivModFacts
<1>2. QED
  BY <1>1, PartedOnce

-----------------------------------------------------------------------------
(* Ratchet *)

\* A state's counter is its chain, as far as a counter can hold it.
ChainState == [chain : Nat, counter : Nat]

Counted(state) == state \in ChainState /\ state.counter = state.chain % Counters

ChainInv ==
  /\ build \in {"wraps", "panics"}
  /\ Counted(sender) /\ Counted(receiver)
  /\ sealed \in [sender : ChainState, receiver : ChainState]
  /\ Counted(sealed.sender) /\ Counted(sealed.receiver)
  /\ \A m \in sent : Counted(m) /\ Chain!CanStep(m.counter)
  /\ Chain!InStep

\* A counter that has stepped is that of the next chain, also when it wraps.
LEMMA SteppedFacts ==
  ASSUME Counters \in Nat \ {0}, NEW n \in Nat
  PROVE  /\ ((n % Counters) + 1) % Counters = (n + 1) % Counters
         /\ Counted(Chain!Stepped(n, n % Counters))
<1> DEFINE C == Counters
           q == n \div C
           r == n % C
<1>1. q \in Nat /\ r \in Nat /\ n = C * q + r /\ r \in 0..(C - 1)
  BY DivModFacts DEF Parted
<1> HIDE DEF q, r
<1>2. ASSUME r + 1 < C
      PROVE  (r + 1) % C = (n + 1) % C
  <2>1. Parted(r + 1, C, 0, r + 1) /\ Parted(n + 1, C, q, r + 1)
    BY <1>1, <1>2 DEF Parted
  <2>2. (r + 1) % C = r + 1 /\ (n + 1) % C = r + 1
    <3>1. r + 1 \in Nat /\ n + 1 \in Nat /\ 0 \in Nat /\ C \in Nat \ {0}
      BY <1>1
    <3>2. (r + 1) % C = r + 1
      BY <2>1, <3>1, ModIs, Zenon
    <3>3. (n + 1) % C = r + 1
      BY <1>1, <2>1, <3>1, ModIs, Zenon
    <3>4. QED
      BY <3>2, <3>3
  <2>3. QED
    BY <2>2
<1>3. ASSUME r + 1 = C
      PROVE  (r + 1) % C = (n + 1) % C
  <2>1. C * (q + 1) = C * q + C /\ C * 1 = C /\ C * q \in Nat
    BY <1>1
  <2>2. Parted(r + 1, C, 1, 0) /\ Parted(n + 1, C, q + 1, 0)
    BY <1>1, <1>3, <2>1 DEF Parted
  <2>3. (r + 1) % C = 0 /\ (n + 1) % C = 0
    <3>1. r + 1 \in Nat /\ n + 1 \in Nat /\ 0 \in Nat /\ 1 \in Nat /\ q + 1 \in Nat
      BY <1>1
    <3>2. (r + 1) % C = 0
      BY <2>2, <3>1, ModIs, Zenon
    <3>3. (n + 1) % C = 0
      BY <2>2, <3>1, ModIs, Zenon
    <3>4. QED
      BY <3>2, <3>3
  <2>4. QED
    BY <2>3
<1>4. (r + 1) % C = (n + 1) % C
  BY <1>1, <1>2, <1>3
<1>5. (n + 1) % C \in Nat
  BY DivModFacts
<1>6. QED
  BY <1>4, <1>5 DEF r, Counted, ChainState, Chain!Stepped, Chain!StoredState

\* Deriving from one chain up to a counter reaches the chain it counts exactly
\* in the same era, and there a later chain has a later counter.
LEMMA CatchUpFacts ==
  ASSUME Counters \in Nat \ {0}, NEW s, NEW m, Counted(s), Counted(m)
  PROVE  /\ Chain!CatchUp(s, m.counter) = m.chain
              <=> Chain!Era(m.chain) = Chain!Era(s.chain)
         /\ Chain!Era(m.chain) = Chain!Era(s.chain)
              => (m.counter >= s.counter <=> m.chain >= s.chain)
<1> DEFINE C == Counters
           p == s.chain \div C
           q == m.chain \div C
<1>1. /\ p \in Nat /\ s.counter \in Nat /\ s.chain = C * p + s.counter
      /\ q \in Nat /\ m.counter \in Nat /\ m.chain = C * q + m.counter
      /\ s.chain \in Nat /\ m.chain \in Nat
  BY DivModFacts DEF Counted, ChainState, Parted
<1> HIDE DEF p, q
<1>2. C * p \in Nat /\ C * q \in Nat
  BY <1>1
<1>3. C * p = C * q <=> p = q
  BY <1>1
<1>4. Chain!CatchUp(s, m.counter) = C * p + m.counter
  BY <1>1, <1>2 DEF Chain!CatchUp
<1>5. Chain!CatchUp(s, m.counter) = m.chain <=> q = p
  BY <1>1, <1>2, <1>3, <1>4
<1>6. q = p => (m.counter >= s.counter <=> m.chain >= s.chain)
  BY <1>1, <1>2
<1>7. QED
  BY <1>5, <1>6 DEF p, q, Chain!Era

\* Both sides start from the root.
LEMMA ChainInit ==
  ASSUME Counters \in Nat \ {0}, Chain!Init
  PROVE  ChainInv
<1>1. 0 % Counters = 0
  <2>1. Parted(0, Counters, 0, 0)
    BY DEF Parted
  <2>2. QED
    BY <2>1, DivModFacts, PartedOnce
<1>2. Counted(Chain!Root)
  BY <1>1 DEF Counted, ChainState, Chain!Root, Chain!StoredState
<1> DEFINE root == Chain!Root
<1>3. /\ sender = root /\ receiver = root /\ sealed = [sender |-> root, receiver |-> root]
      /\ build \in {"wraps", "panics"} /\ sent = {}
      /\ last.opened = TRUE /\ last.step = 0 /\ last.at = 0
  BY DEF Chain!Init
<1>4. root \in ChainState
  BY <1>2 DEF Counted
<1> HIDE DEF root
<1>5. /\ sealed \in [sender : ChainState, receiver : ChainState]
      /\ sealed.sender = root /\ sealed.receiver = root
  BY <1>3, <1>4
<1>6. Chain!InStep
  BY <1>3 DEF Chain!InStep
<1>7. Counted(root)
  BY <1>2 DEF root
<1>8. QED
  BY <1>3, <1>5, <1>6, <1>7 DEF ChainInv

\* ratchetStepState sends under a counted state and steps to the next.
LEMMA ChainSend ==
  ASSUME Counters \in Nat \ {0}, ChainInv, Chain!Send
  PROVE  ChainInv'
<1>1. /\ sent' = sent \cup {sender} /\ sender' = Chain!Stepped(sender.chain, sender.counter)
      /\ UNCHANGED <<build, receiver, sealed, last>> /\ Chain!CanStep(sender.counter)
  BY DEF Chain!Send
<1>2. sender.chain \in Nat /\ sender.counter = sender.chain % Counters
  BY DEF ChainInv, Counted, ChainState
<1>3. \A s : s = Chain!Stepped(sender.chain, sender.counter) => Counted(s)
  BY <1>2, SteppedFacts
<1>4. Counted(sender')
  BY <1>1, <1>3
<1>5. \A m \in sent' : Counted(m) /\ Chain!CanStep(m.counter)
  BY <1>1 DEF ChainInv
<1>6. Chain!InStep'
  BY <1>1 DEF ChainInv, Chain!InStep
<1>7. QED
  BY <1>1, <1>4, <1>5, <1>6 DEF ChainInv, Counted, Chain!CanStep

\* ratchetReceiveTransition opens by counters what is due by chains.
LEMMA ChainReceive ==
  ASSUME Counters \in Nat \ {0}, ChainInv, NEW m \in sent, Chain!Receive(m)
  PROVE  ChainInv'
<1>1. /\ last' = [opened |-> Chain!Opens(m), step |-> m.chain, at |-> receiver.chain]
      /\ receiver' = (IF Chain!Opens(m)
                      THEN Chain!Stepped(Chain!CatchUp(receiver, m.counter), m.counter)
                      ELSE receiver)
      /\ UNCHANGED <<build, sender, sealed, sent>>
  BY DEF Chain!Receive
<1>2. Counted(m) /\ Chain!CanStep(m.counter) /\ Counted(receiver)
  BY DEF ChainInv
<1>3. m.chain \in Nat /\ m.counter = m.chain % Counters
  BY <1>2 DEF Counted, ChainState
<1>4. Chain!Opens(m) <=> m.counter >= receiver.counter
                           /\ Chain!CatchUp(receiver, m.counter) = m.chain
  BY <1>2 DEF Chain!Opens
<1>5. Chain!Opens(m) <=> m.chain >= receiver.chain
                           /\ Chain!Era(m.chain) = Chain!Era(receiver.chain)
  BY <1>2, <1>4, CatchUpFacts
<1>6. Chain!InStep'
  <2>1. last'.opened = Chain!Opens(m) /\ last'.step = m.chain /\ last'.at = receiver.chain
    BY <1>1
  <2>2. QED
    BY <1>5, <2>1 DEF Chain!InStep, Chain!Era
<1>7. Counted(receiver')
  <2>1. CASE Chain!Opens(m)
    <3>1. receiver' = Chain!Stepped(m.chain, m.chain % Counters)
      BY <1>1, <1>3, <1>4, <2>1
    <3>2. \A s : s = Chain!Stepped(m.chain, m.chain % Counters) => Counted(s)
      BY <1>3, SteppedFacts
    <3>3. QED
      BY <3>1, <3>2
  <2>2. CASE ~ Chain!Opens(m)
    BY <1>1, <1>2, <2>2
  <2>3. QED
    BY <2>1, <2>2
<1>8. QED
  BY <1>1, <1>6, <1>7 DEF ChainInv, Counted, Chain!CanStep

\* Sealing and reopening copy counted states.
LEMMA ChainSeal ==
  ASSUME ChainInv, Chain!Seal \/ Chain!Reopen
  PROVE  ChainInv'
<1>1. /\ UNCHANGED <<build, sent, last>> /\ sealed \in [sender : ChainState, receiver : ChainState]
      /\ sender \in ChainState /\ receiver \in ChainState
  BY DEF Chain!Seal, Chain!Reopen, ChainInv, Counted
<1>2. /\ sealed' \in [sender : ChainState, receiver : ChainState]
      /\ sealed'.sender \in {sealed.sender, sender}
      /\ sealed'.receiver \in {sealed.receiver, receiver}
      /\ sender' \in {sealed.sender, sender} /\ receiver' \in {sealed.receiver, receiver}
  <2>1. CASE Chain!Seal
    BY <1>1, <2>1 DEF Chain!Seal
  <2>2. CASE Chain!Reopen
    BY <1>1, <2>2 DEF Chain!Reopen
  <2>3. QED
    BY <2>1, <2>2
<1>3. Chain!InStep'
  BY <1>1 DEF ChainInv, Chain!InStep
<1>4. QED
  BY <1>1, <1>2, <1>3 DEF ChainInv, Counted, Chain!CanStep

ChainSpec == Chain!Init /\ [][Chain!Next]_(Chain!vars)

\* Whatever was lost, repeated, reordered or reopened, a message opens exactly if
\* the receiver has not stepped past it and no counter wrapped in between, for
\* counters of any width and both builds.
THEOREM RatchetsStayInStep == ChainSpec => []InStep
<1> USE PartsAssumption
<1>1. Chain!Init => ChainInv
  BY ChainInit
<1>2. ChainInv /\ [Chain!Next]_(Chain!vars) => ChainInv'
  <2>1. ASSUME ChainInv, UNCHANGED Chain!vars
        PROVE  ChainInv'
    BY <2>1 DEF Chain!vars, ChainInv, Counted, Chain!CanStep, Chain!InStep
  <2>2. QED
    BY <2>1, ChainSend, ChainReceive, ChainSeal DEF Chain!Next
<1>3. ChainInv => InStep
  BY DEF ChainInv, InStep
<1>4. QED
  BY <1>1, <1>2, <1>3, PTL DEF ChainSpec

-----------------------------------------------------------------------------
(* KeyReputation *)

\* Negative scores, rates that are percentages above zero, and at least one
\* strike keep a key out.
PolicyLimits ==
  /\ MinScore \in Int /\ MinScore < 0
  /\ MinTotal \in Nat
  /\ MaxRate \in 1..100
  /\ BanStrikes \in Nat \ {0} /\ StrikeCap \in Nat
  /\ Amounts \subseteq Int

\* Parts assumes them.
LEMMA Limits == PolicyLimits
BY PartsAssumption DEF PolicyLimits

ReputationInv == approvals \in Nat /\ reports \in Nat /\ strikes \in 0..StrikeCap

\* The report rate of so many approvals and so much weight of reports.
RateOf(a, w) == IF a + w = 0 THEN 0 ELSE (200 * w + (a + w)) \div (2 * (a + w))

\* A rounded rate reaches a percentage exactly if the weights do.
LEMMA RateReaches ==
  ASSUME NEW a \in Nat, NEW w \in Nat, a + w > 0, NEW k \in 1..100
  PROVE  RateOf(a, w) >= k <=> (201 - 2 * k) * w >= (2 * k - 1) * a
<1> DEFINE n == 200 * w + (a + w)
           d == 2 * (a + w)
           q == n \div d
           r == n % d
<1>1. n \in Nat /\ d \in Nat \ {0}
  OBVIOUS
<1>2. q \in Nat /\ r \in Nat /\ n = d * q + r /\ r \in 0..(d - 1)
  <2> HIDE DEF n, d
  <2>1. QED
    BY <1>1, DivModFacts DEF Parted
<1>3. RateOf(a, w) = q
  BY DEF RateOf
<1>4. q >= k <=> n >= d * k
  <2> HIDE DEF n, d, q, r
  <2>1. d * q \in Nat /\ d * k \in Nat
    BY <1>1, <1>2
  <2>2. ASSUME q >= k PROVE n >= d * k
    <3>1. PICK j \in Nat : q = k + j
      <4>1. q - k \in Nat /\ q = k + (q - k)
        BY <1>2, <2>2
      <4>2. QED
        BY <4>1
    <3>2. d * q = d * k + d * j /\ d * j \in Nat
      BY <1>1, <3>1
    <3>3. QED
      BY <1>2, <2>1, <3>2
  <2>3. ASSUME q < k PROVE n < d * k
    <3>1. PICK j \in Nat : k = q + 1 + j
      <4>1. k - q - 1 \in Nat /\ k = q + 1 + (k - q - 1)
        BY <1>2, <2>3
      <4>2. QED
        BY <4>1
    <3>2. d * k = d * q + d + d * j /\ d * j \in Nat
      <4>1. \A x, y, z \in Nat : x * (y + 1 + z) = x * y + x + x * z /\ x * z \in Nat
        OBVIOUS
      <4>2. QED
        BY <1>1, <1>2, <3>1, <4>1
    <3>3. QED
      BY <1>1, <1>2, <2>1, <3>2
  <2>4. QED
    BY <1>1, <1>2, <2>1, <2>2, <2>3
<1>5. n >= d * k <=> (201 - 2 * k) * w >= (2 * k - 1) * a
  <2>1. d * k = 2 * (k * a) + 2 * (k * w)
    OBVIOUS
  <2>2. (201 - 2 * k) * w = 201 * w - 2 * (k * w) /\ (2 * k - 1) * a = 2 * (k * a) - a
    OBVIOUS
  <2>3. k * a \in Nat /\ k * w \in Nat
    OBVIOUS
  <2>4. QED
    BY <2>1, <2>2, <2>3
<1>6. QED
  BY <1>3, <1>4, <1>5

\* Fewer approvals and more weight of reports never lower the rate.
LEMMA RateGrows ==
  ASSUME NEW a \in Nat, NEW w \in Nat, NEW b \in Nat, NEW v \in Nat, b <= a, w <= v,
         NEW k \in 1..100, RateOf(a, w) >= k
  PROVE  RateOf(b, v) >= k /\ v > 0
<1>1. a + w > 0
  BY DEF RateOf
<1> DEFINE c == 201 - 2 * k
           e == 2 * k - 1
<1>2. c \in Nat \ {0} /\ e \in Nat \ {0}
  OBVIOUS
<1>3. c * w >= e * a
  BY <1>1, RateReaches
<1> HIDE DEF c, e
<1>4. w > 0
  <2>1. SUFFICES ASSUME w = 0 PROVE FALSE
    OBVIOUS
  <2>2. a \in Nat \ {0} /\ c * 0 = 0
    BY <1>1, <1>2, <2>1
  <2>3. \A x, y \in Nat \ {0} : x * y > 0
    OBVIOUS
  <2>4. e * a > 0
    BY <1>2, <2>2, <2>3
  <2>5. c * w = c * 0
    BY <2>1
  <2>6. c * 0 >= e * a
    BY <1>3, <2>5, Zenon
  <2>7. QED
    <3> DEFINE x == e * a
    <3>1. x > 0 /\ 0 >= x /\ x \in Int
      BY <1>2, <2>2, <2>4, <2>6
    <3> HIDE DEF x
    <3>2. QED
      BY <3>1
<1>5. PICK i \in Nat, j \in Nat : v = w + i /\ a = b + j
  <2>1. v - w \in Nat /\ a - b \in Nat /\ v = w + (v - w) /\ a = b + (a - b)
    OBVIOUS
  <2>2. QED
    BY <2>1
<1>6. /\ c * v = c * w + c * i /\ e * a = e * b + e * j
      /\ c * w \in Nat /\ c * i \in Nat /\ e * b \in Nat /\ e * j \in Nat
  BY <1>2, <1>5
<1>7. c * v >= e * b
  BY <1>3, <1>6
<1>8. v > 0 /\ b + v > 0
  BY <1>4, <1>5
<1>9. QED
  BY <1>7, <1>8, RateReaches DEF c, e

ReputationSpec == Reputation!Init /\ [][Reputation!Next]_(Reputation!vars)

\* The decision, from so many approvals, reports and strikes.
TotalOf(a, r, s) == a + r + s * 3

BlockedBy(a, r, s) ==
  \/ s >= BanStrikes
  \/ /\ TotalOf(a, r, s) >= MinTotal
     /\ a - r - s * 6 <= MinScore \/ RateOf(a, r + s * 3) >= MaxRate

\* getKeySessionAccessDecision in terms of its three numbers.
LEMMA BlockedMeans ==
  ASSUME PolicyLimits, approvals \in Nat, reports \in Nat, strikes \in Nat
  PROVE  /\ Reputation!Blocked <=> BlockedBy(approvals, reports, strikes)
         /\ Reputation!Total = TotalOf(approvals, reports, strikes)
<1>1. Reputation!Total = TotalOf(approvals, reports, strikes)
  BY DEF Reputation!Total, TotalOf
<1>2. Reputation!ReportRate = RateOf(approvals, reports + strikes * 3)
  <2>1. approvals + (reports + strikes * 3) = approvals + reports + strikes * 3
    OBVIOUS
  <2>2. QED
    BY <2>1 DEF Reputation!ReportRate, Reputation!Total, RateOf
<1>3. QED
  BY <1>1, <1>2 DEF Reputation!Blocked, Reputation!Score, BlockedBy

\* Whoever is kept out stays out with more against it, if it is known enough;
\* nobody is kept out with nothing against it.
LEMMA BlockedGrows ==
  ASSUME PolicyLimits, NEW a \in Nat, NEW r \in Nat, NEW s \in Nat, BlockedBy(a, r, s)
  PROVE  /\ r + s > 0
         /\ \A b, v, t \in Nat :
              b <= a /\ r <= v /\ s <= t /\ TotalOf(b, v, t) >= MinTotal => BlockedBy(b, v, t)
<1>1. /\ MaxRate \in 1..100 /\ MinTotal \in Nat /\ BanStrikes \in Nat \ {0}
      /\ MinScore \in Int /\ MinScore < 0
  BY DEF PolicyLimits
<1> DEFINE w == r + s * 3
<1>2. w \in Nat /\ (w > 0 => r + s > 0)
  OBVIOUS
<1>3. CASE s >= BanStrikes
  <2>1. \A t \in Nat : s <= t => t >= BanStrikes
    BY <1>1, <1>3
  <2>2. s > 0
    BY <1>1, <1>3
  <2>3. QED
    BY <2>1, <2>2 DEF BlockedBy
<1>4. CASE a - r - s * 6 <= MinScore
  <2>1. r + s > 0
    BY <1>1, <1>4
  <2>2. ASSUME NEW b \in Nat, NEW v \in Nat, NEW t \in Nat, b <= a, r <= v, s <= t
        PROVE  b - v - t * 6 <= MinScore
    BY <1>1, <1>4, <2>2
  <2>3. QED
    BY <2>1, <2>2 DEF BlockedBy
<1>5. CASE RateOf(a, w) >= MaxRate
  <2> HIDE DEF w
  <2>1. w > 0
    <3>1. a <= a /\ w <= w
      BY <1>2
    <3>2. QED
      BY <1>1, <1>2, <1>5, <3>1, RateGrows, Zenon
  <2>2. ASSUME NEW b \in Nat, NEW v \in Nat, NEW t \in Nat, b <= a, r <= v, s <= t
        PROVE  RateOf(b, v + t * 3) >= MaxRate
    <3> DEFINE u == v + t * 3
    <3>1. u \in Nat /\ w <= u
      BY <2>2 DEF w
    <3> HIDE DEF u
    <3>2. RateOf(b, u) >= MaxRate
      BY <1>1, <1>2, <1>5, <2>2, <3>1, RateGrows
    <3>3. QED
      BY <3>2 DEF u
  <2>3. QED
    BY <1>2, <2>1, <2>2 DEF BlockedBy
<1>6. QED
  BY <1>3, <1>4, <1>5 DEF BlockedBy

\* The numbers stay in range, and the total shrinks only by a purge.
LEMMA ReputationStep ==
  ASSUME PolicyLimits, ReputationInv, Reputation!Next
  PROVE  /\ ReputationInv'
         /\ Reputation!Total' >= Reputation!Total
              \/ (approvals' = 0 /\ reports' = 0 /\ strikes' = 0)
<1>1. CASE Reputation!Vote
  BY <1>1 DEF PolicyLimits, ReputationInv, Reputation!Vote, Reputation!Total
<1>2. CASE Reputation!ChangeVote
  BY <1>2 DEF PolicyLimits, ReputationInv, Reputation!ChangeVote, Reputation!Total
<1>3. ASSUME NEW amount \in Amounts, Reputation!NoteKeySpam(amount)
      PROVE  /\ ReputationInv' /\ strikes' >= strikes
             /\ approvals' = approvals /\ reports' = reports
  BY <1>3 DEF PolicyLimits, ReputationInv, Reputation!NoteKeySpam
<1>4. ASSUME NEW amount \in Amounts, Reputation!NoteKeySpam(amount)
      PROVE  ReputationInv' /\ Reputation!Total' >= Reputation!Total
  BY <1>3, <1>4 DEF PolicyLimits, ReputationInv, Reputation!Total
<1>5. CASE Reputation!Purge
  BY <1>5 DEF PolicyLimits, ReputationInv, Reputation!Purge
<1>6. QED
  BY <1>1, <1>2, <1>4, <1>5 DEF Reputation!Next

\* The decision before a step and after it.
LEMMA BlockedAround ==
  ASSUME PolicyLimits, ReputationInv, Reputation!Next
  PROVE  /\ approvals \in Nat /\ reports \in Nat /\ strikes \in Nat
         /\ approvals' \in Nat /\ reports' \in Nat /\ strikes' \in Nat
         /\ Reputation!Blocked <=> BlockedBy(approvals, reports, strikes)
         /\ Reputation!Blocked' <=> BlockedBy(approvals', reports', strikes')
         /\ Reputation!Total = TotalOf(approvals, reports, strikes)
         /\ Reputation!Total' = TotalOf(approvals', reports', strikes')
<1>1. /\ approvals \in Nat /\ reports \in Nat /\ strikes \in Nat
      /\ approvals' \in Nat /\ reports' \in Nat /\ strikes' \in Nat
  BY ReputationStep DEF ReputationInv, PolicyLimits
<1>2. Reputation!Total' = TotalOf(approvals', reports', strikes')
  BY <1>1 DEF Reputation!Total, TotalOf
<1>3. Reputation!ReportRate' = RateOf(approvals', reports' + strikes' * 3)
  <2>1. approvals' + (reports' + strikes' * 3) = approvals' + reports' + strikes' * 3
    BY <1>1
  <2>2. QED
    BY <2>1 DEF Reputation!ReportRate, Reputation!Total, RateOf
<1>4. Reputation!Blocked' <=> BlockedBy(approvals', reports', strikes')
  BY <1>2, <1>3 DEF Reputation!Blocked, Reputation!Score, BlockedBy
<1>5. QED
  BY <1>1, <1>2, <1>4, BlockedMeans

\* More against a key keeps it out.
LEMMA WorseStaysBlocked ==
  ASSUME PolicyLimits, ReputationInv, Reputation!Next, Reputation!Worse, Reputation!Blocked
  PROVE  Reputation!Blocked'
<1>1. /\ approvals' <= approvals /\ reports <= reports' /\ strikes <= strikes'
  BY BlockedAround DEF Reputation!Worse
<1>2. BlockedBy(approvals, reports, strikes) /\ reports + strikes > 0
  BY BlockedAround, BlockedGrows
<1>3. ~ (reports' = 0 /\ strikes' = 0)
  BY <1>1, <1>2, BlockedAround
<1>4. Reputation!Total' >= Reputation!Total
  BY <1>3, ReputationStep
<1>5. CASE strikes >= BanStrikes
  <2>1. strikes' >= BanStrikes
    BY <1>1, <1>5, BlockedAround DEF PolicyLimits
  <2>2. QED
    BY <2>1 DEF Reputation!Blocked
<1>6. CASE Reputation!Total >= MinTotal
  <2>1. /\ TotalOf(approvals, reports, strikes) \in Nat
        /\ TotalOf(approvals', reports', strikes') \in Nat /\ MinTotal \in Nat
    BY BlockedAround DEF TotalOf, PolicyLimits
  <2>2. TotalOf(approvals', reports', strikes') >= MinTotal
    BY <1>4, <1>6, <2>1, BlockedAround
  <2>3. QED
    BY <1>1, <1>2, <2>2, BlockedAround, BlockedGrows
<1>7. QED
  BY <1>5, <1>6 DEF Reputation!Blocked

\* More for a key lets it in, unless it was too little known to be kept out.
LEMMA BetterStaysIn ==
  ASSUME PolicyLimits, ReputationInv, Reputation!Next, Reputation!Better,
         ~ Reputation!Blocked, Reputation!Blocked'
  PROVE  Reputation!Total < MinTotal
<1>1. /\ approvals <= approvals' /\ reports' <= reports /\ strikes' <= strikes
  BY BlockedAround DEF Reputation!Better
<1>2. BlockedBy(approvals', reports', strikes') /\ ~ BlockedBy(approvals, reports, strikes)
  BY BlockedAround
<1>3. ~ (TotalOf(approvals, reports, strikes) >= MinTotal)
  BY <1>1, <1>2, BlockedAround, BlockedGrows
<1>4. TotalOf(approvals, reports, strikes) \in Nat /\ MinTotal \in Nat
  BY BlockedAround DEF TotalOf, PolicyLimits
<1>5. QED
  BY <1>3, <1>4, BlockedAround

\* No report and no strike lets a blocked key in, and no approval keeps a key out
\* that enough votes speak of, for all limits of the policy.
THEOREM VotesNeverBackfire == ReputationSpec => VotesPullOneWay
<1> USE Limits
<1> DEFINE OneWay ==
      /\ Reputation!Worse /\ Reputation!Blocked => Reputation!Blocked'
      /\ Reputation!Better /\ ~ Reputation!Blocked /\ Reputation!Blocked'
           => Reputation!Total < MinTotal
<1>1. Reputation!Init => ReputationInv
  BY DEF Reputation!Init, ReputationInv, PolicyLimits
<1>2. ReputationInv /\ [Reputation!Next]_(Reputation!vars) => ReputationInv'
  BY ReputationStep DEF ReputationInv, Reputation!vars
<1>3. ReputationInv /\ [Reputation!Next]_(Reputation!vars) => [OneWay]_(Reputation!vars)
  BY WorseStaysBlocked, BetterStaysIn
<1>4. QED
  BY <1>1, <1>2, <1>3, PTL DEF ReputationSpec, VotesPullOneWay, Reputation!VotesPullOneWay

-----------------------------------------------------------------------------
(* PublicFeedback *)

Kinds == {"like", "dislike"}
Words == [Posts -> [Clients -> Kinds \cup {"none"}]]

\* The store keeps digests of client ids; a snapshot may have the ids themselves.
Reactions(ids) == SUBSET (Posts \X (Clients \X ids) \X Kinds)

FeedbackInv ==
  /\ feedback \subseteq Posts
  /\ reactions \in Reactions({1})
  /\ snapshot.feedback \subseteq Posts
  /\ snapshot.reactions \in Reactions({0, 1})
  /\ said \in [here : Words, there : Words]
  /\ \A p \in Posts, c \in Clients, k \in Kinds :
       <<p, <<c, 1>>, k>> \in reactions <=> said.here[p][c] = k
  /\ \A p \in Posts, c \in Clients, k \in Kinds :
       (\E i \in {0, 1} : <<p, <<c, i>>, k>> \in snapshot.reactions) <=> said.there[p][c] = k

FeedbackSpec == Feedback!Init /\ [][Feedback!Next]_(Feedback!vars)

\* The instance counts as this module does.
LEMMA SameCardinality == \A S : Feedback!Cardinality(S) = Cardinality(S)
BY DEF Feedback!Cardinality, Cardinality

\* Each reaction of a kind to an entry is one client's.
LEMMA OneEach ==
  ASSUME IsFiniteSet(Clients), FeedbackInv
  PROVE  Feedback!OneVoiceEach
<1> SUFFICES ASSUME NEW p \in feedback, NEW k \in Kinds
             PROVE  Feedback!Count(p, k) = Cardinality({c \in Clients : said.here[p][c] = k})
  BY SameCardinality DEF Feedback!OneVoiceEach, Kinds
<1> DEFINE S == {c \in Clients : said.here[p][c] = k}
           T == {r \in reactions : r[1] = p /\ r[3] = k}
           f == [c \in S |-> <<p, <<c, 1>>, k>>]
<1>1. p \in Posts
  BY DEF FeedbackInv
<1>2. \A c \in S : f[c] \in T
  BY <1>1 DEF FeedbackInv
<1>3. \A r \in T : \E c \in S : f[c] = r
  <2>1. ASSUME NEW r \in T
        PROVE  \E c \in S : f[c] = r
    <3>1. PICK c \in Clients : r = <<p, <<c, 1>>, k>>
      BY DEF FeedbackInv, Reactions
    <3>2. c \in S
      BY <1>1, <3>1 DEF FeedbackInv
    <3>3. QED
      BY <3>1, <3>2
  <2>2. QED
    BY <2>1
<1>4. \A c, d \in S : f[c] = f[d] => c = d
  OBVIOUS
<1>5. f \in Bijection(S, T)
  <2>1. f \in [S -> T]
    BY <1>2
  <2>2. f \in Injection(S, T)
    BY <1>4, <2>1 DEF Injection, IsInjective
  <2>3. f \in Surjection(S, T)
    BY <1>3, <2>1 DEF Surjection
  <2>4. QED
    BY <2>2, <2>3 DEF Bijection
<1>6. ExistsBijection(S, T)
  BY <1>5 DEF ExistsBijection
<1>7. IsFiniteSet(S)
  BY FS_Subset
<1>8. Cardinality(T) = Cardinality(S)
  BY <1>6, <1>7, FS_Bijection
<1>9. QED
  BY <1>8, SameCardinality DEF Feedback!Count

\* An old snapshot knows the words of its clients.
LEMMA FeedbackInit ==
  ASSUME Feedback!Init
  PROVE  FeedbackInv
<1>1. feedback = {} /\ reactions = {} /\ said.here = Feedback!Silence
  BY DEF Feedback!Init
<1>2. PICK old \in Feedback!OldSnapshots \cup {[feedback |-> {}, reactions |-> {}]} :
        /\ snapshot = old
        /\ said = [here |-> Feedback!Silence, there |-> Feedback!WordsOf(old)]
  BY DEF Feedback!Init
<1>3. /\ Feedback!Silence \in Words
      /\ \A p \in Posts, c \in Clients : Feedback!Silence[p][c] = "none"
  BY DEF Feedback!Silence, Words
<1>4. /\ snapshot.feedback \subseteq Posts /\ snapshot.reactions \in Reactions({0, 1})
      /\ \A p \in Posts, c \in Clients, k \in Kinds :
           (\E i \in {0, 1} : <<p, <<c, i>>, k>> \in snapshot.reactions)
             <=> k = "like" /\ <<p, <<c, 0>>, "like">> \in snapshot.reactions
  <2>1. CASE old \in Feedback!OldSnapshots
    <3>1. PICK p \in Posts, c \in Clients :
            old = [feedback |-> {p}, reactions |-> {<<p, <<c, 0>>, "like">>}]
      BY <2>1 DEF Feedback!OldSnapshots
    <3>2. snapshot.feedback = {p} /\ snapshot.reactions = {<<p, <<c, 0>>, "like">>}
      BY <1>2, <3>1
    <3>3. QED
      BY <3>2 DEF Reactions, Kinds
  <2>2. CASE old = [feedback |-> {}, reactions |-> {}]
    <3>1. snapshot.feedback = {} /\ snapshot.reactions = {}
      BY <1>2, <2>2
    <3>2. QED
      BY <3>1 DEF Reactions
  <2>3. QED
    BY <2>1, <2>2
<1>5. /\ said.there \in Words
      /\ \A p \in Posts, c \in Clients :
           said.there[p][c] = IF <<p, <<c, 0>>, "like">> \in snapshot.reactions
                              THEN "like" ELSE "none"
  BY <1>2 DEF Feedback!WordsOf, Words, Kinds
<1>6. said \in [here : Words, there : Words]
  BY <1>2, <1>3, <1>5
<1>7. \A p \in Posts, c \in Clients, k \in Kinds : said.here[p][c] # k
  BY <1>1, <1>3 DEF Kinds
<1>8. \A p \in Posts, c \in Clients, k \in Kinds :
        said.there[p][c] = k
          <=> k = "like" /\ <<p, <<c, 0>>, "like">> \in snapshot.reactions
  BY <1>5 DEF Kinds
<1>9. /\ feedback \subseteq Posts /\ reactions \in Reactions({1})
      /\ \A p \in Posts, c \in Clients, k \in Kinds : <<p, <<c, 1>>, k>> \notin reactions
  BY <1>1 DEF Reactions
<1>10. \A p \in Posts, c \in Clients, k \in Kinds :
         (\E i \in {0, 1} : <<p, <<c, i>>, k>> \in snapshot.reactions) <=> said.there[p][c] = k
  BY <1>4, <1>8
<1>11. QED
  BY <1>4, <1>6, <1>7, <1>9, <1>10 DEF FeedbackInv

\* react replaces the client's reaction by its last word.
LEMMA FeedbackReact ==
  ASSUME FeedbackInv, NEW p \in Posts, NEW c \in Clients,
         NEW word \in {"like", "dislike", "none"}, Feedback!React(p, c, word)
  PROVE  FeedbackInv'
<1> DEFINE mine == <<c, 1>>
           left == {r \in reactions : ~ (r[1] = p /\ r[2] = mine)}
           new  == {<<p, mine, r>> : r \in {word} \ {"none"}}
<1>1. /\ reactions' = left \cup new
      /\ said' = [said EXCEPT !.here[p][c] = word]
      /\ UNCHANGED <<feedback, snapshot, added>>
  BY DEF Feedback!React, Feedback!Of, Feedback!Sanitized
<1>2. /\ said \in [here : Words, there : Words] /\ said.here \in Words /\ said.there \in Words
      /\ reactions \in Reactions({1})
  BY DEF FeedbackInv
<1>3. /\ said' \in [here : Words, there : Words] /\ said'.there = said.there
      /\ \A q \in Posts, d \in Clients :
           said'.here[q][d] = IF q = p /\ d = c THEN word ELSE said.here[q][d]
  BY <1>1, <1>2 DEF Words, Kinds
<1>4. reactions' \in Reactions({1})
  <2>1. new \in Reactions({1})
    BY DEF Reactions, Kinds
  <2>2. QED
    BY <1>1, <1>2, <2>1 DEF Reactions
<1>5. ASSUME NEW q \in Posts, NEW d \in Clients, NEW k \in Kinds
      PROVE  <<q, <<d, 1>>, k>> \in reactions' <=> said'.here[q][d] = k
  <2>1. <<q, <<d, 1>>, k>> \in reactions <=> said.here[q][d] = k
    BY DEF FeedbackInv
  <2>2. <<q, <<d, 1>>, k>> \in left
          <=> <<q, <<d, 1>>, k>> \in reactions /\ ~ (q = p /\ d = c)
    OBVIOUS
  <2>3. <<q, <<d, 1>>, k>> \in new <=> q = p /\ d = c /\ k = word
    BY DEF Kinds
  <2>4. QED
    BY <1>1, <1>3, <2>1, <2>2, <2>3
<1>6. QED
  BY <1>1, <1>3, <1>4, <1>5 DEF FeedbackInv

\* exportSnapshot keeps the words with the reactions, or neither.
LEMMA FeedbackExport ==
  ASSUME FeedbackInv, NEW redact \in BOOLEAN, Feedback!Export(redact)
  PROVE  FeedbackInv'
<1>1. /\ snapshot'.feedback = feedback
      /\ snapshot'.reactions = (IF redact THEN {} ELSE reactions)
      /\ said' = [said EXCEPT !.there = IF redact THEN Feedback!Silence ELSE said.here]
      /\ UNCHANGED <<feedback, reactions, added>>
  BY DEF Feedback!Export
<1>2. /\ Feedback!Silence \in Words
      /\ \A p \in Posts, c \in Clients, k \in Kinds : Feedback!Silence[p][c] # k
  BY DEF Feedback!Silence, Words, Kinds
<1>3. said \in [here : Words, there : Words] /\ said.here \in Words
  BY DEF FeedbackInv
<1>4. /\ said' \in [here : Words, there : Words] /\ said'.here = said.here
      /\ said'.there = (IF redact THEN Feedback!Silence ELSE said.here)
  BY <1>1, <1>2, <1>3
<1>5. /\ feedback \subseteq Posts /\ reactions \in Reactions({1})
      /\ \A p \in Posts, c \in Clients, k \in Kinds :
           <<p, <<c, 1>>, k>> \in reactions <=> said.here[p][c] = k
  BY DEF FeedbackInv
<1>6. \A p \in Posts, c \in Clients, k \in Kinds : <<p, <<c, 0>>, k>> \notin reactions
  BY <1>5 DEF Reactions
<1>7. snapshot'.reactions \in Reactions({0, 1})
  BY <1>1, <1>5 DEF Reactions
<1>8. \A p \in Posts, c \in Clients, k \in Kinds :
        (\E i \in {0, 1} : <<p, <<c, i>>, k>> \in snapshot'.reactions) <=> said'.there[p][c] = k
  <2>1. CASE redact
    <3>1. snapshot'.reactions = {} /\ said'.there = Feedback!Silence
      BY <1>1, <1>4, <2>1
    <3>2. QED
      BY <1>2, <3>1
  <2>2. CASE ~ redact
    <3>1. snapshot'.reactions = reactions /\ said'.there = said.here
      BY <1>1, <1>4, <2>2
    <3>2. ASSUME NEW p \in Posts, NEW c \in Clients, NEW k \in Kinds
          PROVE  (\E i \in {0, 1} : <<p, <<c, i>>, k>> \in reactions)
                   <=> <<p, <<c, 1>>, k>> \in reactions
      BY <1>6
    <3>3. ASSUME NEW p \in Posts, NEW c \in Clients, NEW k \in Kinds
          PROVE  (\E i \in {0, 1} : <<p, <<c, i>>, k>> \in snapshot'.reactions)
                   <=> said'.there[p][c] = k
      <4>1. <<p, <<c, 1>>, k>> \in reactions <=> said.here[p][c] = k
        BY <1>5
      <4>2. QED
        BY <3>1, <3>2, <4>1
    <3>4. QED
      BY <3>3
  <2>3. QED
    BY <2>1, <2>2
<1>9. QED
  BY <1>1, <1>4, <1>5, <1>7, <1>8 DEF FeedbackInv

\* importSnapshot digests client ids, and leaves digests as they are.
LEMMA FeedbackImport ==
  ASSUME FeedbackInv, NEW redact \in BOOLEAN, Feedback!Import(redact)
  PROVE  FeedbackInv'
<1> DEFINE digested == {<<r[1], Feedback!Sanitized(r[2]), r[3]>> : r \in snapshot.reactions}
<1>1. /\ feedback' = snapshot.feedback
      /\ reactions' = (IF redact THEN {} ELSE digested)
      /\ said' = [said EXCEPT !.here = IF redact THEN Feedback!Silence ELSE said.there]
      /\ UNCHANGED <<snapshot, added>>
  BY DEF Feedback!Import
<1>2. /\ Feedback!Silence \in Words
      /\ \A p \in Posts, c \in Clients, k \in Kinds : Feedback!Silence[p][c] # k
  BY DEF Feedback!Silence, Words, Kinds
<1>3. said \in [here : Words, there : Words] /\ said.there \in Words
  BY DEF FeedbackInv
<1>4. /\ said' \in [here : Words, there : Words] /\ said'.there = said.there
      /\ said'.here = (IF redact THEN Feedback!Silence ELSE said.there)
  BY <1>1, <1>2, <1>3
<1>5. /\ snapshot.feedback \subseteq Posts /\ snapshot.reactions \in Reactions({0, 1})
      /\ \A p \in Posts, c \in Clients, k \in Kinds :
           (\E i \in {0, 1} : <<p, <<c, i>>, k>> \in snapshot.reactions)
             <=> said.there[p][c] = k
  BY DEF FeedbackInv
<1>6. \A r \in snapshot.reactions :
        \E p \in Posts, c \in Clients, i \in {0, 1}, k \in Kinds :
          /\ r = <<p, <<c, i>>, k>>
          /\ <<r[1], Feedback!Sanitized(r[2]), r[3]>> = <<p, <<c, 1>>, k>>
  <2>1. ASSUME NEW r \in snapshot.reactions
        PROVE  \E p \in Posts, c \in Clients, i \in {0, 1}, k \in Kinds : r = <<p, <<c, i>>, k>>
    BY <1>5 DEF Reactions
  <2>2. \A c \in Clients, i \in {0, 1} : Feedback!Sanitized(<<c, i>>) = <<c, 1>>
    BY DEF Feedback!Sanitized
  <2>3. ASSUME NEW r \in snapshot.reactions
        PROVE  \E p \in Posts, c \in Clients, i \in {0, 1}, k \in Kinds :
                 /\ r = <<p, <<c, i>>, k>>
                 /\ <<r[1], Feedback!Sanitized(r[2]), r[3]>> = <<p, <<c, 1>>, k>>
    <3>1. PICK p \in Posts, c \in Clients, i \in {0, 1}, k \in Kinds : r = <<p, <<c, i>>, k>>
      BY <2>1
    <3>2. r[1] = p /\ r[2] = <<c, i>> /\ r[3] = k
      BY <3>1
    <3>3. Feedback!Sanitized(r[2]) = <<c, 1>>
      BY <2>2, <3>2
    <3>4. QED
      BY <3>1, <3>2, <3>3
  <2>4. QED
    BY <2>3
<1>7. digested \in Reactions({1})
  BY <1>6 DEF Reactions
<1>8. ASSUME NEW p \in Posts, NEW c \in Clients, NEW k \in Kinds
      PROVE  <<p, <<c, 1>>, k>> \in digested
               <=> \E i \in {0, 1} : <<p, <<c, i>>, k>> \in snapshot.reactions
  <2>1. ASSUME <<p, <<c, 1>>, k>> \in digested
        PROVE  \E i \in {0, 1} : <<p, <<c, i>>, k>> \in snapshot.reactions
    BY <1>6, <2>1
  <2>2. ASSUME NEW i \in {0, 1}, <<p, <<c, i>>, k>> \in snapshot.reactions
        PROVE  <<p, <<c, 1>>, k>> \in digested
    BY <2>2 DEF Feedback!Sanitized
  <2>3. QED
    BY <2>1, <2>2
<1> HIDE DEF digested
<1>9. reactions' \in Reactions({1})
  BY <1>1, <1>7 DEF Reactions
<1>10. \A p \in Posts, c \in Clients, k \in Kinds :
         <<p, <<c, 1>>, k>> \in reactions' <=> said'.here[p][c] = k
  <2>1. CASE redact
    <3>1. reactions' = {} /\ said'.here = Feedback!Silence
      BY <1>1, <1>4, <2>1
    <3>2. QED
      BY <1>2, <3>1
  <2>2. CASE ~ redact
    <3>1. reactions' = digested /\ said'.here = said.there
      BY <1>1, <1>4, <2>2
    <3>2. ASSUME NEW p \in Posts, NEW c \in Clients, NEW k \in Kinds
          PROVE  <<p, <<c, 1>>, k>> \in reactions' <=> said'.here[p][c] = k
      <4>1. (\E i \in {0, 1} : <<p, <<c, i>>, k>> \in snapshot.reactions)
              <=> said.there[p][c] = k
        BY <1>5
      <4>2. <<p, <<c, 1>>, k>> \in digested
              <=> \E i \in {0, 1} : <<p, <<c, i>>, k>> \in snapshot.reactions
        BY <1>8
      <4>3. QED
        BY <3>1, <4>1, <4>2
    <3>3. QED
      BY <3>2
  <2>3. QED
    BY <2>1, <2>2
<1>11. QED
  BY <1>1, <1>4, <1>5, <1>9, <1>10 DEF FeedbackInv

\* reset forgets the words with the reactions.
LEMMA FeedbackReset ==
  ASSUME FeedbackInv, Feedback!Reset
  PROVE  FeedbackInv'
<1>1. /\ feedback' = {} /\ reactions' = {} /\ said' = [said EXCEPT !.here = Feedback!Silence]
      /\ UNCHANGED <<snapshot, added>>
  BY DEF Feedback!Reset
<1>2. /\ Feedback!Silence \in Words
      /\ \A p \in Posts, c \in Clients, k \in Kinds : Feedback!Silence[p][c] # k
  BY DEF Feedback!Silence, Words, Kinds
<1>3. said \in [here : Words, there : Words]
  BY DEF FeedbackInv
<1>4. /\ said' \in [here : Words, there : Words] /\ said'.there = said.there
      /\ said'.here = Feedback!Silence
  BY <1>1, <1>2, <1>3
<1>5. reactions' \in Reactions({1})
  BY <1>1 DEF Reactions
<1>6. QED
  BY <1>1, <1>2, <1>4, <1>5 DEF FeedbackInv

\* An entry shows one reaction for each client that has spoken last of it, across
\* restarts and snapshots, for any number of posts and clients.
THEOREM VoicesAreCountedOnce == FeedbackSpec => []OneVoiceEach
<1>1. Feedback!Init => FeedbackInv
  BY FeedbackInit
<1>2. FeedbackInv /\ [Feedback!Next]_(Feedback!vars) => FeedbackInv'
  <2>1. ASSUME FeedbackInv, NEW p \in Posts, Feedback!Add(p)
        PROVE  FeedbackInv'
    BY <2>1 DEF Feedback!Add, FeedbackInv
  <2>2. ASSUME FeedbackInv, UNCHANGED Feedback!vars
        PROVE  FeedbackInv'
    BY <2>2 DEF Feedback!vars, FeedbackInv
  <2>3. QED
    BY <2>1, <2>2, FeedbackReact, FeedbackExport, FeedbackImport, FeedbackReset
       DEF Feedback!Next
<1>3. FeedbackInv => OneVoiceEach
  BY OneEach, PartsAssumption DEF OneVoiceEach
<1>4. QED
  BY <1>1, <1>2, <1>3, PTL DEF FeedbackSpec

-----------------------------------------------------------------------------
(* The composition *)

\* A behaviour of the composition is one of each of its modules: the modules share
\* no state, and all but one of them stutter.
LEMMA PartsRunAlone == Spec => ChainSpec /\ ReputationSpec /\ FeedbackSpec
<1>1. Init => Chain!Init /\ Reputation!Init /\ Feedback!Init
  BY DEF Init
<1>2. [Next]_vars => /\ [Chain!Next]_(Chain!vars)
                     /\ [Reputation!Next]_(Reputation!vars)
                     /\ [Feedback!Next]_(Feedback!vars)
  BY DEF Next, InLock, InDeadlines, InChain, InReputation, InPosts, vars, lock,
         deadlines, chain, reputation, posts, Chain!vars, Reputation!vars, Feedback!vars
<1>3. QED
  BY <1>1, <1>2, PTL DEF Spec, ChainSpec, ReputationSpec, FeedbackSpec

\* So what is proved of each of the three modules holds of the composition.
THEOREM PartsAreSafe == Spec => []InStep /\ VotesPullOneWay /\ []OneVoiceEach
BY PartsRunAlone, RatchetsStayInStep, VotesNeverBackfire, VoicesAreCountedOnce
=============================================================================
