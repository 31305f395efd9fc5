----------------------------- MODULE LaneProofs -----------------------------
(***************************************************************************)
(* Proofs about the four components of MCLanes.  For any scenarios,         *)
(* catalog, swaths and patience: OuterEnumeration keeps to its deadline and *)
(* discloses every card, and AngleSearch keeps what is valid and reports    *)
(* the best of it.  For any files, picks and boards: ScenarioForm shows the *)
(* file picked last, leaves no choice behind that is no longer offered, and *)
(* every reader takes the same survey from a file.  For any sorties and     *)
(* constraints: RouteLinks leaves no link in a constraint that it could     *)
(* lead around it.                                                          *)
(***************************************************************************)
EXTENDS OuterEnumeration, AngleSearch, ScenarioForm, RouteLinks, SequenceTheorems,
        FiniteSetTheorems, WellFoundedInduction, TLAPS

-----------------------------------------------------------------------------
(* Numbers *)

LEMMA LeastNumber ==
  ASSUME NEW T, T \subseteq Nat, T # {}
  PROVE  \E x \in T : \A y \in T : x <= y
<1>1. PICK x \in T : \A y \in T : ~ (<<y, x>> \in OpToRel(<, Nat))
  BY NatLessThanWellFounded, WFMin, Zenon
<1>2. ASSUME NEW y \in T, y < x
      PROVE  FALSE
  <2>1. <<y, x>> \in { ss \in Nat \X Nat : ss[1] < ss[2] }
    BY <1>2
  <2>2. QED BY <1>1, <2>1 DEF OpToRel
<1>3. QED BY <1>2

(* A property of finite sets that survives one element more has no smallest
   counterexample. *)
LEMMA SmallestWithout ==
  ASSUME NEW D, IsFiniteSet(D), NEW Bad, Bad \subseteq SUBSET D, Bad # {}
  PROVE  \E X \in Bad : IsFiniteSet(X) /\ \A x \in X : X \ {x} \notin Bad
<1> DEFINE sizes == { Cardinality(X) : X \in Bad }
<1>1. \A X \in Bad : IsFiniteSet(X) /\ Cardinality(X) \in Nat
  BY FS_Subset, FS_CardinalityType
<1>2. sizes \subseteq Nat /\ sizes # {}
  BY <1>1
<1>3. PICK n \in sizes : \A m \in sizes : n <= m
  BY <1>2, LeastNumber
<1>4. PICK X \in Bad : n = Cardinality(X)
  BY <1>3
<1>5. ASSUME NEW x \in X, X \ {x} \in Bad
      PROVE  FALSE
  <2>1. Cardinality(X \ {x}) = Cardinality(X) - 1 /\ Cardinality(X) \in Nat
    BY <1>1, FS_RemoveElement
  <2>2. Cardinality(X) <= Cardinality(X \ {x})
    BY <1>3, <1>4, <1>5
  <2>3. QED BY <2>1, <2>2
<1>6. QED BY <1>1, <1>5

LEMMA LastOfFinite ==
  ASSUME NEW S, S \subseteq Nat, IsFiniteSet(S), S # {}
  PROVE  \E m \in S : \A x \in S : x <= m
<1> DEFINE HasLast(X) == \E m \in X : \A x \in X : x <= m
           Bad == { X \in SUBSET S : X # {} /\ ~HasLast(X) }
<1>1. SUFFICES ASSUME ~HasLast(S) PROVE FALSE
  OBVIOUS
<1>2. Bad \subseteq SUBSET S /\ S \in Bad
  BY <1>1
<1>3. PICK X \in Bad : \A x \in X : X \ {x} \notin Bad
  <2> HIDE DEF Bad
  <2>1. QED BY <1>2, SmallestWithout
<1>4. PICK x : x \in X
  BY <1>3
<1>5. X \ {x} = {} \/ HasLast(X \ {x})
  BY <1>3, <1>4
<1>6. x \in Nat /\ X \subseteq Nat
  BY <1>3, <1>4
<1>7. CASE X \ {x} = {}
  <2>1. X = {x}
    BY <1>4, <1>7
  <2>2. x <= x
    BY <1>6
  <2>3. QED BY <1>3, <2>1, <2>2
<1>8. CASE HasLast(X \ {x})
  <2>1. PICK m \in X \ {x} : \A y \in X \ {x} : y <= m
    BY <1>8
  <2>2. m \in Nat
    BY <1>6, <2>1
  <2>3. PICK v \in {m, x} : m <= v /\ x <= v
    BY <1>6, <2>2
  <2>4. v \in X /\ \A y \in X : y <= v
    BY <1>4, <1>6, <2>1, <2>2, <2>3
  <2>5. QED BY <1>3, <2>4
<1>9. QED BY <1>5, <1>7, <1>8

-----------------------------------------------------------------------------
(* OuterEnumeration *)

Calls == { runnable[k] : k \in 1 .. Len(runnable) }

(* A call of the core, as it was made. *)
FittingCall(a) ==
  /\ a.limit \in 1 .. scenario.limit
  /\ a.began + a.limit * Second <= scenario.deadline

CallInv ==
  /\ scenario \in Scenarios /\ clock \in Int
  /\ phase = "call" => scenario.limit >= 1
  /\ DOMAIN attempts = 1 .. Len(attempts) /\ Len(attempts) \in Nat
  /\ \A k \in 1 .. Len(attempts) : FittingCall(attempts[k])

LEMMA CallInvStep ==
  ASSUME CallInv, [OuterNext]_outerVars
  PROVE  CallInv'
<1> USE ScenarioAssumption, MarkAssumption
<1>s. scenario.limit \in Int /\ scenario.deadline \in Int
  BY DEF CallInv
<1>1. CASE CallCore
  <2>1. PICK d \in Durations : clock' = clock + d
    BY <1>1 DEF CallCore
  <2>2. clock' \in Int
    BY <2>1 DEF CallInv
  <2>3. CASE UNCHANGED attempts
    BY <1>1, <2>2, <2>3 DEF CallInv, CallCore, FittingCall
  <2>4. ASSUME NEW r \in Results,
               attempts' = Append(attempts, [card |-> runnable[Len(attempts) + 1], began |-> clock,
                                             limit |-> CallLimit, result |-> r])
        PROVE  CallInv'
    <3> DEFINE a == [card |-> runnable[Len(attempts) + 1], began |-> clock,
                     limit |-> CallLimit, result |-> r]
    <3>1. scenario.limit >= 1 /\ scenario.deadline - clock >= 2 /\ clock \in Int
      BY <1>1 DEF CallCore, CallInv, Remainder, Second
    <3>2. FittingCall(a)
      <4>1. CallLimit \in 1 .. scenario.limit /\ clock + CallLimit * 2 <= scenario.deadline
        BY <1>s, <3>1 DEF CallLimit, Remainder, Second
      <4>2. QED BY <4>1 DEF FittingCall, Second
    <3>3. /\ Len(attempts') = Len(attempts) + 1 /\ DOMAIN attempts' = 1 .. Len(attempts')
          /\ \A k \in 1 .. Len(attempts') :
               attempts'[k] = IF k = Len(attempts') THEN a ELSE attempts[k]
      BY <2>4 DEF CallInv
    <3>4. scenario' = scenario
      BY <1>1 DEF CallCore
    <3> HIDE DEF a
    <3>6. \A k \in 1 .. Len(attempts') : FittingCall(attempts'[k])
      BY <3>2, <3>3 DEF CallInv
    <3>7. DOMAIN attempts' = 1 .. Len(attempts') /\ Len(attempts') \in Nat
      BY <3>3 DEF CallInv
    <3>8. \A k \in 1 .. Len(attempts') : FittingCall(attempts[k])'
      BY <3>4, <3>6 DEF FittingCall
    <3>9. scenario' \in Scenarios /\ (phase' = "call" => scenario'.limit >= 1)
      BY <3>1, <3>4 DEF CallInv
    <3>10. QED BY <2>2, <3>7, <3>8, <3>9 DEF CallInv
  <2>5. QED BY <1>1, <2>3, <2>4 DEF CallCore
<1>2. CASE CheckScenario
  BY <1>2 DEF CheckScenario, CallInv, FittingCall
<1>3. CASE ExamineCard
  BY <1>3 DEF ExamineCard, prepareVars, CallInv, FittingCall
<1>4. CASE BuildCalls
  BY <1>4 DEF BuildCalls, CallInv, FittingCall
<1>5. CASE EndCalls
  BY <1>5 DEF EndCalls, CallInv, FittingCall
<1>6. CASE Compare
  BY <1>6 DEF Compare, CallInv, FittingCall
<1>7. CASE EndJudge
  BY <1>7 DEF EndJudge, CallInv, FittingCall
<1>8. CASE UNCHANGED outerVars
  BY <1>8 DEF outerVars, CallInv, FittingCall
<1>9. QED BY <1>1, <1>2, <1>3, <1>4, <1>5, <1>6, <1>7, <1>8 DEF OuterNext

(* The loop over the calls: a call is given at least a second, no more than the
   task allows, and no more than is left when it starts. *)
THEOREM CallsKeepTheDeadline == OuterSpec => []CallsFitTheDeadline
<1>1. OuterInit => CallInv
  BY DEF OuterInit, CallInv
<1>2. CallInv /\ [OuterNext]_outerVars => CallInv'
  BY CallInvStep
<1>3. CallInv => CallsFitTheDeadline
  BY DEF CallInv, FittingCall, CallsFitTheDeadline
<1>4. QED BY <1>1, <1>2, <1>3, PTL DEF OuterSpec

-----------------------------------------------------------------------------
(* The cards looked at so far, each in one place. *)
Sorted(n) ==
  /\ Calls \cup skips \cup mismatches = 1 .. n
  /\ Calls \cap skips = {} /\ Calls \cap mismatches = {} /\ skips \cap mismatches = {}

(* A card that becomes a call has numbers, known by their marks, and its notes. *)
Noted(i) ==
  /\ Card(i).model \in Models /\ Card(i).camera \in Cameras
  /\ Runnable(i)
  /\ CatalogNotes(i) \cup FixedNotes(i) \subseteq notes

Prepared == {"call", "judge", "done"}

(* The sequences of cards and of calls. *)
Lists ==
  /\ Len(runnable) \in Nat /\ DOMAIN runnable = 1 .. Len(runnable)
  /\ Len(attempts) \in Nat /\ DOMAIN attempts = 1 .. Len(attempts)
  /\ Len(attempts) <= Len(runnable)
  /\ \A k \in 1 .. Len(attempts) : attempts[k].card = runnable[k]

(* How far run_candidates is with them. *)
Progressed ==
  /\ phase \in {"fields", "card"} =>
       /\ card \in 1 .. Len(scenario.cards) + 1 /\ Sorted(card - 1)
       /\ attempts = <<>> /\ reason = "none"
  /\ phase \in Prepared => Sorted(Len(scenario.cards)) /\ \A i \in Calls : Builds(i)
  /\ phase \in {"judge", "done"} /\ ~stopped => Len(attempts) = Len(runnable)
  /\ reason = "spectrum" => skips = {} /\ Calls = {}

CardInv ==
  /\ scenario \in Scenarios /\ Lists /\ Progressed
  /\ \A i \in Calls : Noted(i)

(* One round of the loop of _prepare puts its card in one place. *)
LEMMA ExamineStep ==
  ASSUME CardInv, ExamineCard
  PROVE  CardInv'
<1> USE ScenarioAssumption
<1> DEFINE size == Len(scenario.cards)
<1>1. /\ phase = "card" /\ card \in 1 .. size /\ size \in Nat
      /\ scenario' = scenario /\ attempts' = attempts /\ stopped' = stopped
      /\ Sorted(card - 1) /\ attempts = <<>> /\ reason = "none"
  BY DEF ExamineCard, CardInv, CardIds, Progressed
<1>2. CASE phase' = "raised" /\ UNCHANGED prepareVars
  <2>1. Calls' = Calls /\ Lists' /\ Progressed'
    BY <1>1, <1>2 DEF CardInv, prepareVars, Calls, Lists, Progressed, Prepared
  <2>2. \A i \in Calls : Noted(i)'
    BY <1>1, <1>2 DEF CardInv, prepareVars, Noted, Runnable, Card, Model, Camera, CatalogNotes, FixedNotes
  <2>3. QED BY <1>1, <2>1, <2>2 DEF CardInv
<1>3. CASE Known(Card(card)) /\ Compatible(Card(card))
  <2>1. /\ card' = card + 1 /\ phase' = "card" /\ reason' = "none"
        /\ card' \in 1 .. size + 1 /\ card' - 1 = card
    BY <1>1, <1>3 DEF ExamineCard
  <2>2. Card(card).model \in Models /\ Card(card).camera \in Cameras /\ notes \subseteq notes'
    BY <1>1, <1>3 DEF ExamineCard, Known
  <2>3. \A i \in Calls : Noted(i)'
    BY <1>1, <2>2 DEF CardInv, Noted, Card, Runnable, Model, Camera, CatalogNotes, FixedNotes
  <2>4. card \notin Calls \cup skips \cup mismatches
    BY <1>1 DEF Sorted
  <2>5. 1 .. card = (1 .. card - 1) \cup {card}
    BY <1>1
  <2>6. CASE /\ runnable' = runnable
             /\ \/ skips' = skips \cup {card} /\ mismatches' = mismatches
                \/ mismatches' = mismatches \cup {card} /\ skips' = skips
    <3>1. Calls' = Calls
      BY <2>6 DEF Calls
    <3>2. Sorted(card - 1)'
      BY <1>1, <2>1, <2>4, <2>5, <2>6, <3>1 DEF Sorted
    <3>3. Progressed'
      BY <1>1, <2>1, <3>2 DEF Progressed, Prepared
    <3>4. Lists'
      BY <1>1, <2>6 DEF CardInv, Lists
    <3>5. QED BY <1>1, <2>3, <3>1, <3>3, <3>4 DEF CardInv
  <2>7. CASE /\ runnable' = Append(runnable, card) /\ Runnable(card)
             /\ skips' = skips /\ mismatches' = mismatches
             /\ notes' = notes \cup CatalogNotes(card) \cup FixedNotes(card)
    <3>1. /\ Len(runnable') = Len(runnable) + 1 /\ DOMAIN runnable' = 1 .. Len(runnable')
          /\ \A k \in 1 .. Len(runnable') :
               runnable'[k] = IF k = Len(runnable') THEN card ELSE runnable[k]
      BY <2>7 DEF CardInv, Lists
    <3>2. Len(runnable) \in Nat /\ Len(runnable') \in Nat
      BY <3>1 DEF CardInv, Lists
    <3>3. Calls' = Calls \cup {card}
      BY <3>1, <3>2 DEF Calls
    <3>4. Sorted(card - 1)'
      BY <1>1, <2>1, <2>4, <2>5, <2>7, <3>3 DEF Sorted
    <3>5. Progressed'
      BY <1>1, <2>1, <3>4 DEF Progressed, Prepared
    <3>6. Lists'
      BY <1>1, <3>1, <3>2 DEF CardInv, Lists
    <3>7. ASSUME NEW i, i = card
          PROVE  Noted(i)'
      BY <1>1, <2>2, <2>7, <3>7 DEF Noted, Card, Runnable, Model, Camera, CatalogNotes, FixedNotes
    <3>8. \A i \in Calls' : Noted(i)'
      BY <2>3, <3>3, <3>7
    <3>9. QED BY <1>1, <3>5, <3>6, <3>8 DEF CardInv
  <2>8. ~(~Known(Card(card)) \/ ~Compatible(Card(card)))
    BY <1>3
  <2>9. CASE Fits(scenario, Card(card)) /\ Runnable(card)
    <3>1. /\ runnable' = Append(runnable, card)
          /\ skips' = skips /\ mismatches' = mismatches
          /\ notes' = notes \cup CatalogNotes(card) \cup FixedNotes(card)
      BY <2>8, <2>9, Zenon DEF ExamineCard
    <3>2. QED BY <2>7, <2>9, <3>1, Zenon
  <2>10. CASE ~Fits(scenario, Card(card)) \/ ~Runnable(card)
    <3>1. runnable' = runnable
      BY <2>8, <2>10, Zenon DEF ExamineCard
    <3>2. \/ skips' = skips \cup {card} /\ mismatches' = mismatches
          \/ mismatches' = mismatches \cup {card} /\ skips' = skips
      BY <2>8, <2>10, Zenon DEF ExamineCard
    <3>3. QED BY <2>6, <3>1, <3>2
  <2>11. QED BY <2>9, <2>10
<1>4. QED BY <1>2, <1>3 DEF ExamineCard

LEMMA CardInvStep ==
  ASSUME CardInv, [OuterNext]_outerVars
  PROVE  CardInv'
<1> USE ScenarioAssumption
<1>n. ASSUME UNCHANGED <<scenario, notes, runnable>>
      PROVE  Calls' = Calls /\ \A i \in Calls : Noted(i)' /\ (Builds(i) => Builds(i)')
  BY <1>n DEF CardInv, Calls, Noted, Builds, Runnable, Card, Model, Camera, CatalogNotes, FixedNotes
<1>1. CASE CheckScenario
  <2>1. /\ phase = "fields" /\ phase' \in {"card", "raised"}
        /\ UNCHANGED <<scenario, notes, runnable, skips, mismatches, reason, attempts, card>>
    BY <1>1 DEF CheckScenario, prepareVars
  <2>2. Calls' = Calls /\ \A i \in Calls : Noted(i)'
    BY <1>n, <2>1
  <2>3. Sorted(card - 1) => Sorted(card - 1)'
    BY <2>1, <2>2 DEF Sorted
  <2>4. Progressed'
    BY <2>1, <2>2, <2>3 DEF CardInv, Progressed, Prepared
  <2>5. Lists'
    BY <2>1 DEF CardInv, Lists
  <2>6. QED BY <2>1, <2>2, <2>4, <2>5 DEF CardInv
<1>2. CASE ExamineCard
  BY <1>2, ExamineStep
<1>3. CASE BuildCalls
  <2>1. card = Len(scenario.cards) + 1 /\ Sorted(Len(scenario.cards)) /\ Len(scenario.cards) \in Nat
    BY <1>3 DEF BuildCalls, CardInv, CardIds, Progressed
  <2>2. Calls' = Calls /\ Sorted(Len(scenario.cards))'
    BY <1>3, <2>1 DEF BuildCalls, Calls, Sorted
  <2>3. CASE runnable = <<>>
    <3>1. Calls = {} /\ (reason' = "spectrum" => skips' = {}) /\ phase' = "judge" /\ attempts = <<>>
      <4>1. Calls = {}
        BY <2>3 DEF Calls
      <4>2. phase' = "judge" /\ reason' = EmptyReason /\ skips' = skips
        BY <1>3, <2>3 DEF BuildCalls
      <4>3. attempts = <<>>
        BY <1>3 DEF BuildCalls, CardInv, Progressed
      <4>4. QED BY <4>1, <4>2, <4>3 DEF EmptyReason
    <3>2. Progressed' /\ Lists'
      BY <1>3, <2>2, <2>3, <3>1 DEF BuildCalls, Progressed, Prepared, CardInv, Lists
    <3>3. QED BY <1>3, <1>n, <3>1, <3>2 DEF BuildCalls, CardInv
  <2>4. CASE runnable # <<>>
    <3>1. /\ phase' \in {"call", "raised"} /\ reason' = reason /\ reason = "none"
          /\ phase' = "call" => \A i \in Calls : Builds(i)
      BY <1>3, <2>4 DEF BuildCalls, Calls, CardInv, Lists, Progressed
    <3>2. Progressed' /\ Lists'
      BY <1>3, <1>n, <2>2, <3>1 DEF BuildCalls, Progressed, Prepared, CardInv, Lists
    <3>3. QED BY <1>3, <1>n, <2>2, <3>2 DEF BuildCalls, CardInv
  <2>5. QED BY <2>3, <2>4
<1>4. CASE CallCore
  <2>1. UNCHANGED <<scenario, notes, runnable, skips, mismatches, stopped, reason>>
    BY <1>4 DEF CallCore, prepareVars
  <2>2. Calls' = Calls /\ (\A i \in Calls : Noted(i)' /\ (Builds(i) => Builds(i)'))
        /\ (Sorted(Len(scenario.cards)) => Sorted(Len(scenario.cards))')
    BY <1>n, <2>1 DEF Sorted
  <2>3. phase = "call" /\ phase' \in {"call", "raised"} /\ Len(attempts) < Len(runnable)
    BY <1>4 DEF CallCore
  <2>4. Progressed'
    BY <2>1, <2>2, <2>3 DEF CardInv, Progressed, Prepared
  <2>5. Lists'
    <3>1. CASE UNCHANGED attempts
      BY <2>1, <3>1 DEF CardInv, Lists
    <3>2. ASSUME NEW a, attempts' = Append(attempts, a), a.card = runnable[Len(attempts) + 1]
          PROVE  Lists'
      <4>1. /\ Len(attempts') = Len(attempts) + 1 /\ DOMAIN attempts' = 1 .. Len(attempts')
            /\ \A k \in 1 .. Len(attempts') :
                 attempts'[k] = IF k = Len(attempts') THEN a ELSE attempts[k]
        BY <3>2 DEF CardInv, Lists
      <4>2. QED BY <2>1, <2>3, <3>2, <4>1 DEF CardInv, Lists
    <3>3. QED BY <1>4, <3>1, <3>2 DEF CallCore
  <2>6. QED BY <2>1, <2>2, <2>4, <2>5 DEF CardInv
<1>5. CASE EndCalls \/ Compare \/ EndJudge \/ UNCHANGED outerVars
  <2>1. /\ UNCHANGED <<scenario, notes, runnable, skips, mismatches, reason, attempts, card>>
        /\ \/ phase = "call" /\ phase' = "judge" /\ stopped' = (Len(attempts) < Len(runnable))
           \/ phase = "judge" /\ phase' \in {"judge", "done", "raised"} /\ stopped' = stopped
           \/ phase' = phase /\ stopped' = stopped
    BY <1>5 DEF EndCalls, Compare, EndJudge, outerVars, prepareVars
  <2>2. Calls' = Calls /\ (\A i \in Calls : Noted(i)' /\ (Builds(i) => Builds(i)'))
        /\ (\A n \in {card - 1, Len(scenario.cards)} : Sorted(n) => Sorted(n)')
    BY <1>n, <2>1 DEF Sorted
  <2>3. Lists'
    BY <2>1 DEF CardInv, Lists
  <2>4. Progressed'
    <3>1. CASE phase = "call" /\ phase' = "judge" /\ stopped' = (Len(attempts) < Len(runnable))
      <4>1. ~stopped' => Len(attempts') = Len(runnable')
        <5>1. /\ Len(attempts) \in Nat /\ Len(runnable) \in Nat /\ Len(attempts) <= Len(runnable)
              /\ UNCHANGED <<attempts, runnable>>
          BY <2>1 DEF CardInv, Lists
        <5>2. ASSUME ~stopped' PROVE ~(Len(attempts) < Len(runnable))
          BY <3>1, <5>2, Zenon
        <5>3. ~(Len(attempts) < Len(runnable)) => Len(attempts) = Len(runnable)
          BY <5>1
        <5>4. QED BY <5>1, <5>2, <5>3, Zenon
      <4>2. QED BY <2>1, <2>2, <3>1, <4>1 DEF CardInv, Progressed, Prepared
    <3>2. CASE phase = "judge" /\ phase' \in {"judge", "done", "raised"} /\ stopped' = stopped
      BY <2>1, <2>2, <3>2 DEF CardInv, Progressed, Prepared
    <3>3. CASE phase' = phase /\ stopped' = stopped
      BY <2>1, <2>2, <3>3 DEF CardInv, Progressed, Prepared
    <3>4. QED BY <2>1, <3>1, <3>2, <3>3
  <2>5. QED BY <2>1, <2>2, <2>3, <2>4 DEF CardInv
<1>6. QED BY <1>1, <1>2, <1>3, <1>4, <1>5 DEF OuterNext

(* What the loop knows of the cards is what the answer discloses. *)
LEMMA Disclosed ==
  ASSUME CardInv
  PROVE  CardsDisclosed
<1> SUFFICES ASSUME phase = "done" PROVE CardsDisclosed
  BY DEF CardsDisclosed
<1> DEFINE called == { attempts[k].card : k \in DOMAIN attempts }
           all == { runnable[k] : k \in DOMAIN runnable }
<1>1. /\ CardIds(scenario) = 1 .. Len(scenario.cards) /\ all = Calls /\ called \subseteq Calls
      /\ ~stopped => called = Calls
  <2>1. CardIds(scenario) = 1 .. Len(scenario.cards)
    BY ScenarioAssumption DEF CardInv, CardIds
  <2>2. PICK m \in Nat, n \in Nat :
          /\ DOMAIN attempts = 1 .. m /\ DOMAIN runnable = 1 .. n /\ m <= n
          /\ Len(runnable) = n /\ Len(attempts) = m
    BY DEF CardInv, Lists
  <2>3. \A k \in 1 .. m : attempts[k].card = runnable[k]
    BY <2>2 DEF CardInv, Lists
  <2>4. ~stopped => m = n
    BY <2>2 DEF CardInv, Progressed
  <2>5. Calls = { runnable[k] : k \in 1 .. n } /\ all = Calls
    BY <2>2 DEF Calls
  <2>6. called \subseteq Calls
    <3>1. ASSUME NEW k \in DOMAIN attempts
          PROVE  attempts[k].card \in Calls
      <4>1. k \in 1 .. n /\ attempts[k].card = runnable[k]
        BY <2>2, <2>3
      <4>2. QED BY <2>5, <4>1
    <3>2. QED BY <3>1
  <2>7. ~stopped => Calls \subseteq called
    BY <2>2, <2>3, <2>4, <2>5
  <2>8. QED BY <2>1, <2>5, <2>6, <2>7
<1>2. Sorted(Len(scenario.cards)) /\ \A i \in Calls : Builds(i)
  BY DEF CardInv, Progressed, Prepared
<1>3. CardIds(scenario) = called \cup skips \cup mismatches \cup (IF stopped THEN all ELSE {})
  BY <1>1, <1>2 DEF Sorted
<1>4. called \cap (skips \cup mismatches) = {} /\ skips \cap mismatches = {}
  BY <1>1, <1>2 DEF Sorted
<1>5. reason = "spectrum" => skips = {} /\ mismatches = CardIds(scenario)
  BY <1>1, <1>2 DEF Sorted, CardInv, Progressed
<1>6. ASSUME NEW i \in called, NEW c \in CopiedOptics(i) \cup CopiedPower(i) \cup CopiedTurn(i),
             c[2] # "passport"
      PROVE  <<i, c[1]>> \in notes
  <2>1. Noted(i) /\ Builds(i)
    BY <1>1, <1>2 DEF CardInv
  <2>2. /\ Model(i) \in [{"speed", "coeffs", "const", "turn"} -> Tags \cup {"untagged", "blank"}]
        /\ Camera(i) \in [{"optics", "pitch"} -> Tags \cup {"untagged", "blank"}]
    BY <2>1, MarkAssumption DEF Noted, Model, Camera
  <2>3. CatalogNotes(i) \subseteq notes /\ FixedNotes(i) \subseteq notes
    BY <2>1 DEF Noted
  <2>4. CASE c \in CopiedOptics(i)
    <3>1. Camera(i).optics \in Tags /\ Model(i).speed \in Tags
      BY <2>1 DEF Noted, Runnable
    <3>2. \/ c[1] = "optics" /\ Camera(i)["optics"] = "estimate"
          \/ c[1] = "speed" /\ Model(i)["speed"] = "estimate"
      BY <1>6, <2>4, <3>1 DEF CopiedOptics, Tags
    <3>3. <<i, c[1]>> \in CatalogNotes(i)
      BY <3>2 DEF CatalogNotes
    <3>4. QED BY <2>3, <3>3
  <2>5. CASE c \in CopiedPower(i)
    <3>1. Model(i).coeffs \in Tags \/ Model(i).const \in Tags
      BY <2>1 DEF Noted, Runnable
    <3>2. \/ c[1] = "coeffs" /\ Model(i)["coeffs"] = "estimate"
          \/ c[1] = "power" /\ Model(i).const \in Tags /\ Model(i).coeffs \notin Tags
      BY <1>6, <2>5, <3>1 DEF CopiedPower, Tags
    <3>3. <<i, c[1]>> \in CatalogNotes(i)
      BY <3>2 DEF CatalogNotes
    <3>4. QED BY <2>3, <3>3
  <2>6. CASE c \in CopiedTurn(i)
    <3>1. \/ c[1] = "turn base"
          \/ c[1] = "turn" /\ Model(i).turn = "blank"
          \/ c[1] = "turn" /\ Model(i)["turn"] = "estimate"
      <4>1. Model(i).turn \in {"passport", "estimate", "blank"}
        BY <2>1, <2>2 DEF Builds, Tags
      <4>2. CASE Model(i).turn = "blank"
        <5>1. CASE c = <<"turn base", "fixed">>
          BY <5>1
        <5>2. CASE c = <<"turn", "fixed">>
          BY <4>2, <5>2
        <5>3. QED BY <2>6, <4>2, <5>1, <5>2, Zenon DEF CopiedTurn
      <4>3. CASE Model(i).turn # "blank"
        <5>1. CASE c = <<"turn base", "fixed">>
          BY <5>1
        <5>2. CASE c = <<"turn", Model(i).turn>>
          BY <1>6, <4>1, <4>3, <5>2
        <5>3. QED BY <2>6, <4>3, <5>1, <5>2, Zenon DEF CopiedTurn
      <4>4. QED BY <4>2, <4>3
    <3>2. <<i, c[1]>> \in CatalogNotes(i) \cup FixedNotes(i)
      BY <3>1 DEF CatalogNotes, FixedNotes
    <3>3. QED BY <2>3, <3>2
  <2>7. QED BY <1>6, <2>4, <2>5, <2>6
<1>7. QED BY <1>3, <1>4, <1>5, <1>6 DEF CardsDisclosed

LEMMA CardStart ==
  ASSUME OuterInit
  PROVE  CardInv
<1>1. scenario \in Scenarios /\ runnable = <<>> /\ attempts = <<>> /\ phase = "fields" /\ card = 1
      /\ skips = {} /\ mismatches = {} /\ reason = "none"
  BY DEF OuterInit
<1>2. Calls = {}
  BY <1>1 DEF Calls
<1>3. Lists
  BY <1>1 DEF Lists
<1>4. QED BY <1>1, <1>2, <1>3, ScenarioAssumption DEF CardInv, Progressed, Prepared, Sorted

(* The loop of _prepare and _fixed_default_notes: in an answered job every card is
   called, skipped, of another spectrum or after the deadline, and every number a
   call was made with that is not of a passport is named. *)
THEOREM CardsAreDisclosed == OuterSpec => []CardsDisclosed
<1>1. OuterInit => CardInv
  BY CardStart
<1>2. CardInv /\ [OuterNext]_outerVars => CardInv'
  BY CardInvStep
<1>3. CardInv => CardsDisclosed
  BY Disclosed
<1>4. QED BY <1>1, <1>2, <1>3, PTL DEF OuterSpec

-----------------------------------------------------------------------------
(* The parts of a line *)

Shows(p, i) == (p.first <= i /\ i < p.last) \/ (p.joined /\ p.last <= i)

(* The run of points between breaks that a gentle leg lies in. *)
LEMMA ChunkOfLeg ==
  ASSUME NEW h, Len(h) \in Nat, NEW i \in GentleLegs(h)
  PROVE  \E a, b \in 1 .. Len(h) :
           /\ <<a, b>> \in LongChunks(h) /\ a <= i /\ i < b
           /\ \A d \in LongChunks(h) : d[1] <= i /\ i < d[2] => d = <<a, b>>
<1> DEFINE n == Len(h)
           starts == { a \in 1 .. i : \A j \in a .. i - 1 : j \notin Breaks(h) }
           ends == { b \in i + 1 .. n : \A j \in i .. b - 1 : j \notin Breaks(h) }
<1>1. n \in Nat /\ i \in 1 .. n - 1 /\ i \notin Breaks(h)
  BY DEF GentleLegs, Breaks
<1> HIDE DEF n
<1>2. PICK a \in starts : \A x \in starts : a <= x
  <2>1. starts \subseteq Nat /\ i \in starts
    BY <1>1
  <2> HIDE DEF starts
  <2>2. QED BY <2>1, LeastNumber
<1>3. PICK b \in ends : \A x \in ends : x <= b
  <2>1. ends \subseteq i + 1 .. n /\ i + 1 \in ends
    BY <1>1
  <2>2. ends \subseteq Nat
    BY <1>1
  <2>2a. i + 1 \in Int /\ n \in Int
    BY <1>1
  <2>2b. IsFiniteSet(i + 1 .. n)
    BY <2>2a, FS_Interval
  <2> HIDE DEF ends
  <2>3. IsFiniteSet(ends)
    BY <2>1, <2>2b, FS_Subset
  <2>4. QED BY <2>1, <2>2, <2>3, LastOfFinite
<1>4. a = 1 \/ a - 1 \in Breaks(h)
  <2> SUFFICES ASSUME a # 1, a - 1 \notin Breaks(h) PROVE FALSE
    OBVIOUS
  <2>1. \A j \in a - 1 .. i - 1 : j = a - 1 \/ j \in a .. i - 1
    BY <1>1, <1>2
  <2>2. a - 1 \in starts
    BY <1>1, <1>2, <2>1
  <2>3. QED BY <1>1, <1>2, <2>2
<1>5. b = n \/ b \in Breaks(h)
  <2> SUFFICES ASSUME b # n, b \notin Breaks(h) PROVE FALSE
    OBVIOUS
  <2>1. \A j \in i .. b : j = b \/ j \in i .. b - 1
    BY <1>1, <1>3
  <2>2. b + 1 \in i + 1 .. n /\ (b + 1) - 1 = b
    BY <1>1, <1>3
  <2>3. b + 1 \in ends
    BY <1>3, <2>1, <2>2
  <2>4. QED BY <1>1, <1>3, <2>3
<1>6. a \in 1 .. n /\ b \in 1 .. n /\ a <= i /\ i < b /\ a < b
  BY <1>1, <1>2, <1>3
<1>7. \A j \in a .. b - 1 : j \notin Breaks(h)
  <2>1. \A j \in a .. b - 1 : j \in a .. i - 1 \/ j \in i .. b - 1
    BY <1>1, <1>6
  <2>2. QED BY <1>2, <1>3, <2>1
<1>8. <<a, b>> \in LongChunks(h)
  BY <1>4, <1>5, <1>6, <1>7 DEF LongChunks, Chunks, n
<1>9. ASSUME NEW d \in LongChunks(h), d[1] <= i, i < d[2]
      PROVE  d = <<a, b>>
  <2>1. /\ d[1] \in 1 .. n /\ d[2] \in 1 .. n /\ d = <<d[1], d[2]>>
        /\ d[1] = 1 \/ d[1] - 1 \in Breaks(h)
        /\ d[2] = n \/ d[2] \in Breaks(h)
        /\ \A j \in d[1] .. d[2] - 1 : j \notin Breaks(h)
    BY DEF LongChunks, Chunks, n
  <2>2. PICK x \in 1 .. n, y \in 1 .. n : x = d[1] /\ y = d[2]
    BY <2>1
  <2>3. x <= i /\ i < y
    BY <1>9, <2>2
  <2>4. x \in starts /\ y \in ends
    <3>1. \A j \in x .. i - 1 : j \in x .. y - 1
      BY <1>1, <2>3
    <3>2. \A j \in i .. y - 1 : j \in x .. y - 1
      BY <1>1, <2>3
    <3>3. x \in 1 .. i /\ y \in i + 1 .. n
      BY <1>1, <2>3
    <3>4. QED BY <2>1, <2>2, <3>1, <3>2, <3>3
  <2>5. a <= x /\ y <= b
    BY <1>2, <1>3, <2>4
  <2>6. x = a
    <3> SUFFICES ASSUME a < x PROVE FALSE
      BY <1>6, <2>5
    <3>1. x - 1 \in a .. i - 1 /\ x # 1
      BY <1>1, <1>6, <2>3
    <3>2. QED BY <1>2, <2>1, <2>2, <3>1
  <2>7. y = b
    <3> SUFFICES ASSUME y < b PROVE FALSE
      BY <1>6, <2>5
    <3>1. y \in i .. b - 1 /\ y # n
      BY <1>1, <1>6, <2>3
    <3>2. QED BY <1>3, <2>1, <2>2, <3>1
  <2>8. QED BY <2>1, <2>2, <2>6, <2>7
<1>10. QED BY <1>6, <1>8, <1>9 DEF n

(* split_swath_if_needed: what is dropped and joined beside it, a leg that survey
   speed allows is in exactly one part of its line. *)
LEMMA PartOfLeg ==
  ASSUME NEW h, Len(h) \in Nat, NEW i \in GentleLegs(h)
  PROVE  \E p \in Parts(h) : \A q \in Parts(h) : Shows(q, i) <=> q = p
<1>1. CASE Breaks(h) = {} \/ LongChunks(h) = {}
  <2> DEFINE whole == [first |-> 1, last |-> Len(h), joined |-> FALSE]
  <2>1. Parts(h) = {whole}
    BY <1>1, Zenon DEF Parts
  <2>2. Shows(whole, i)
    BY DEF Shows, GentleLegs
  <2> HIDE DEF whole
  <2>3. QED BY <2>1, <2>2
<1>2. CASE ~(Breaks(h) = {} \/ LongChunks(h) = {})
  <2> DEFINE Last(c) == Len(h) - 1 \in Breaks(h) /\ \A d \in LongChunks(h) : d[2] <= c[2]
             Part(c) == [first |-> c[1], last |-> c[2], joined |-> Last(c)]
  <2>1. Parts(h) = { Part(c) : c \in LongChunks(h) }
    BY <1>2, Zenon DEF Parts
  <2>2. PICK a \in 1 .. Len(h), b \in 1 .. Len(h) :
          /\ <<a, b>> \in LongChunks(h) /\ a <= i /\ i < b
          /\ \A d \in LongChunks(h) : d[1] <= i /\ i < d[2] => d = <<a, b>>
    BY ChunkOfLeg
  <2>3. \A c \in LongChunks(h) : Last(c) => ~(c[2] <= i)
    <3> SUFFICES ASSUME NEW c \in LongChunks(h), Last(c), c[2] <= i PROVE FALSE
      OBVIOUS
    <3>1. b <= c[2] /\ c[2] \in Int
      BY <2>2 DEF LongChunks, Chunks
    <3>2. i \in Int
      BY DEF GentleLegs
    <3>3. QED BY <2>2, <3>1, <3>2
  <2>4. \A c \in LongChunks(h) : Shows(Part(c), i) => c = <<a, b>>
    BY <2>2, <2>3 DEF Shows
  <2>5. Shows(Part(<<a, b>>), i)
    BY <2>2 DEF Shows
  <2> HIDE DEF Part
  <2>6. QED BY <2>1, <2>2, <2>4, <2>5
<1>3. QED BY <1>1, <1>2

LEMMA ProfileLength ==
  ASSUME NEW lines \in Seq(DOMAIN Heights), NEW k \in DOMAIN lines
  PROVE  Len(Profile(lines, k)) \in Nat
<1>1. Heights[lines[k]] \in Seq(Int) /\ Len(Heights[lines[k]]) \in Nat
  BY SplitAssumption, ElementOfSeq, LenProperties
<1>2. Len(Backward(Heights[lines[k]])) = Len(Heights[lines[k]])
  BY <1>1 DEF Backward
<1>3. QED BY <1>1, <1>2 DEF Profile

(* A leg of a line that survey speed allows is on exactly one swath of the area. *)
LEMMA SwathOfLeg ==
  ASSUME NEW lines \in Seq(DOMAIN Heights), NEW k \in DOMAIN lines,
         NEW i \in GentleLegs(Profile(lines, k))
  PROVE  \E s \in SwathsOf(lines) : \A t \in SwathsOf(lines) : Photographs(t, k, i) <=> t = s
<1> DEFINE h == Profile(lines, k)
<1>1. Len(h) \in Nat
  BY ProfileLength
<1>2. PICK p \in Parts(h) : \A q \in Parts(h) : Shows(q, i) <=> q = p
  <2> HIDE DEF h
  <2>1. i \in GentleLegs(h)
    BY DEF h
  <2>2. QED BY <1>1, <2>1, PartOfLeg
<1> DEFINE s == [line |-> k, part |-> p]
<1>3. s \in SwathsOf(lines)
  BY <1>2 DEF SwathsOf
<1>4. ASSUME NEW t \in SwathsOf(lines)
      PROVE  Photographs(t, k, i) <=> t = s
  <2>0. PICK m \in DOMAIN lines : t \in { [line |-> m, part |-> q] : q \in Parts(Profile(lines, m)) }
    BY DEF SwathsOf
  <2>1. PICK q \in Parts(Profile(lines, m)) : t = [line |-> m, part |-> q]
    BY <2>0
  <2>2. Photographs(t, k, i) <=> m = k /\ Shows(q, i)
    BY <2>1 DEF Photographs, Shows
  <2>3. m = k => (Shows(q, i) <=> q = p)
    BY <1>2, <2>1
  <2>4. t = s <=> m = k /\ q = p
    BY <2>1
  <2>5. QED BY <2>2, <2>3, <2>4
<1>5. QED BY <1>3, <1>4

-----------------------------------------------------------------------------
(* AngleSearch *)

(* Every leg of a candidate's lines that survey speed allows is photographed in
   one flight, and every flight is flyable, within the endurance and clear. *)
Valid(c) ==
  /\ \A k \in DOMAIN LinesAt[c.angle] : \A i \in GentleLegs(Profile(LinesAt[c.angle], k)) :
       Cardinality({ u \in DOMAIN c.flights :
                       \E s \in c.flights[u].swaths : Photographs(s, k, i) }) = 1
  /\ \A u \in DOMAIN c.flights :
       /\ \A s \in c.flights[u].swaths : Feasible(LinesAt[c.angle], s)
       /\ c.flights[u].time <= FlightLimit /\ c.flights[u].risks = {}

Risks == SUBSET {"low", "close", "crossing"}

Flight(u) == [swaths : {Mine(u)}, planned : Nat, time : Nat, risks : Risks]

(* What is routed belongs to the angle that is tried. *)
Routed ==
  step \in {"route", "validate"} =>
    /\ angle \in DOMAIN LinesAt /\ DOMAIN cluster = SwathsAt[angle]
    /\ \A u \in DOMAIN flights : flights[u] \in Flight(u)

AngleInv ==
  /\ Routed
  /\ step = "failed" => /\ angle \in DOMAIN LinesAt
                        /\ SwathsAt[angle] # {} => DOMAIN cluster = SwathsAt[angle]
  /\ DOMAIN candidates = 1 .. Len(candidates) /\ Len(candidates) \in Nat
  /\ \A k \in 1 .. Len(candidates) : Valid(candidates[k])

(* A round that passed validate. *)
LEMMA Validated ==
  ASSUME AngleInv, step = "validate", IsValid, NEW m
  PROVE  Valid([angle |-> angle, flights |-> flights, metric |-> m])
<1> DEFINE lines == LinesAt[angle]
<1>1. /\ angle \in DOMAIN LinesAt /\ DOMAIN cluster = SwathsAt[angle]
      /\ \A u \in DOMAIN flights : flights[u] \in Flight(u)
  BY DEF AngleInv, Routed
<1>2. lines \in Seq(DOMAIN Heights) /\ SwathsAt[angle] = SwathsOf(lines)
  BY <1>1, AngleAssumption, ElementOfSeq DEF SwathsAt
<1>3. \A v \in DOMAIN flights : flights[v].swaths = Mine(v) /\ flights[v].swaths \subseteq SwathsOf(lines)
  BY <1>1, <1>2 DEF Flight, Mine
<1> HIDE DEF lines
<1>4. ASSUME NEW k \in DOMAIN lines, NEW i \in GentleLegs(Profile(lines, k))
      PROVE  Cardinality({ u \in DOMAIN flights :
                             \E s \in flights[u].swaths : Photographs(s, k, i) }) = 1
  <2>1. PICK s \in SwathsOf(lines) : \A t \in SwathsOf(lines) : Photographs(t, k, i) <=> t = s
    BY <1>2, <1>4, SwathOfLeg
  <2>2. PICK u \in DOMAIN flights : s \in flights[u].swaths
    BY <1>2, <2>1 DEF IsValid, Uncovered
  <2>3. \A v \in DOMAIN flights : s \in flights[v].swaths <=> cluster[s] = v
    BY <1>1, <1>2, <1>3, <2>1 DEF Mine
  <2>4. \A v \in DOMAIN flights : (\E t \in flights[v].swaths : Photographs(t, k, i)) <=> v = u
    <3> TAKE v \in DOMAIN flights
    <3>1. (\E t \in flights[v].swaths : Photographs(t, k, i)) <=> s \in flights[v].swaths
      BY <1>3, <2>1
    <3>2. QED BY <2>2, <2>3, <3>1
  <2>5. { v \in DOMAIN flights : \E t \in flights[v].swaths : Photographs(t, k, i) } = {u}
    BY <2>4
  <2>6. QED BY <2>5, FS_Singleton
<1>5. ASSUME NEW u \in DOMAIN flights
      PROVE  /\ \A s \in flights[u].swaths : Feasible(lines, s)
             /\ flights[u].time <= FlightLimit /\ flights[u].risks = {}
  <2>1. flights[u].time \in Nat /\ FlightLimit \in Nat /\ flights[u].risks \in Risks
    BY <1>1, AngleAssumption DEF Flight
  <2>2. ~(flights[u].time > FlightLimit)
    BY <1>5 DEF IsValid, Overdue
  <2>3. \A s \in flights[u].swaths : Feasible(lines, s)
    BY <1>5 DEF IsValid, Infeasible, lines
  <2>4. flights[u].risks = {}
    <3>1. "low" \notin flights[u].risks /\ "close" \notin flights[u].risks /\ "crossing" \notin flights[u].risks
      BY <1>5 DEF IsValid, TooLow, TooClose, Crossing
    <3>2. QED BY <2>1, <3>1 DEF Risks
  <2>5. QED BY <2>1, <2>2, <2>3, <2>4
<1>6. QED BY <1>4, <1>5 DEF Valid, lines

Remeasured(r, t, x) == [r EXCEPT !.time = t, !.risks = x]

LEMMA RemeasuredFlight ==
  ASSUME NEW Routes, NEW Found, NEW t \in Nat, NEW x \in Found,
         NEW r \in [swaths : Routes, planned : Nat, time : Nat, risks : Found]
  PROVE  Remeasured(r, t, x) \in [swaths : Routes, planned : Nat, time : Nat, risks : Found]
  BY DEF Remeasured

LEMMA RemeasuredTime ==
  ASSUME NEW r, "time" \in DOMAIN r, NEW t, NEW x
  PROVE  "time" \in DOMAIN Remeasured(r, t, x) /\ Remeasured(r, t, x).time = t
<1> DEFINE s == [r EXCEPT !.time = t]
<1>1. DOMAIN s = DOMAIN r /\ s.time = t
  OBVIOUS
<1>2. Remeasured(r, t, x) = [s EXCEPT !.risks = x]
  BY DEF Remeasured
<1> HIDE DEF s
<1>3. DOMAIN [s EXCEPT !.risks = x] = DOMAIN s /\ [s EXCEPT !.risks = x]["time"] = s["time"]
  BY <1>1
<1>4. QED BY <1>1, <1>2, <1>3

LEMMA AngleInvStep ==
  ASSUME AngleInv, [AngleNext]_angleVars
  PROVE  AngleInv'
<1> USE AngleAssumption
<1>1. CASE StartAngle
  <2>1. /\ candidates' = candidates /\ angle' = angle /\ flights' = NoFlights
        /\ DOMAIN flights' = {} /\ angle \in DOMAIN LinesAt
    BY <1>1 DEF StartAngle, NoFlights, SwathsAt
  <2>2. CASE SwathsAt[angle] = {}
    BY <1>1, <2>1, <2>2 DEF StartAngle, AngleInv, Routed
  <2>3. CASE SwathsAt[angle] # {}
    <3>1. step' = "route" /\ DOMAIN cluster' = SwathsAt[angle]
      BY <1>1, <2>3 DEF StartAngle
    <3>2. QED BY <2>1, <3>1 DEF AngleInv, Routed
  <2>4. QED BY <2>2, <2>3
<1>2. CASE RouteUav
  <2>1. UNCHANGED <<step, cluster, angle, candidates>> /\ step = "route"
    BY <1>2 DEF RouteUav
  <2>2. \A u : Mine(u)' = Mine(u) /\ Flight(u)' = Flight(u)
    BY <2>1 DEF Mine, Flight
  <2>3. CASE UNCHANGED flights
    BY <2>1, <2>2, <2>3 DEF AngleInv, Routed
  <2>4. ASSUME NEW u, NEW f \in Rounds(u),
               flights' = [ v \in DOMAIN flights \cup {u} |-> IF v = u THEN f ELSE flights[v] ]
        PROVE  AngleInv'
    <3>1. f \in Flight(u)
      <4>1. PICK x \in FlightTimes : f = [swaths |-> Mine(u), planned |-> x, time |-> x, risks |-> {}]
        BY <2>4 DEF Rounds
      <4>2. x \in Nat
        BY <4>1
      <4>3. QED BY <4>1, <4>2 DEF Flight, Risks
    <3>2. \A v \in DOMAIN flights' : flights'[v] \in Flight(v)
      BY <2>1, <2>4, <3>1 DEF AngleInv, Routed
    <3>3. QED BY <2>1, <2>2, <3>2 DEF AngleInv, Routed
  <2>5. QED BY <1>2, <2>3, <2>4 DEF RouteUav
<1>3. CASE Recalculate
  <2>1. UNCHANGED <<cluster, angle, candidates>> /\ step = "route"
    BY <1>3 DEF Recalculate
  <2>2. \A u : Mine(u)' = Mine(u) /\ Flight(u)' = Flight(u)
    BY <2>1 DEF Mine, Flight
  <2>3. CASE flights = NoFlights
    BY <1>3, <2>1, <2>3 DEF Recalculate, AngleInv, Routed
  <2>4. CASE flights # NoFlights
    <3>1. PICK measured \in Measurements :
            flights' = [ u \in DOMAIN flights |->
                           [flights[u] EXCEPT !.time = measured[u].time, !.risks = measured[u].risks] ]
      BY <1>3, <2>4 DEF Recalculate
    <3>2. \A u \in DOMAIN flights :
             flights[u] \in Flight(u) /\ measured[u].time \in Nat /\ measured[u].risks \in Risks
      BY <2>1, <3>1 DEF AngleInv, Routed, Measurements, Risks
    <3>3. \A u \in DOMAIN flights' : flights'[u] \in Flight(u)
      <4> TAKE u \in DOMAIN flights'
      <4>1. u \in DOMAIN flights /\ flights'[u] = Remeasured(flights[u], measured[u].time, measured[u].risks)
        BY <3>1 DEF Remeasured
      <4> DEFINE routes == {Mine(u)}
                 r == flights[u]
                 m == measured[u]
      <4>2. r \in [swaths : routes, planned : Nat, time : Nat, risks : Risks] /\ m.time \in Nat /\ m.risks \in Risks
        BY <3>2, <4>1 DEF Flight
      <4>3. Remeasured(r, m.time, m.risks) \in [swaths : routes, planned : Nat, time : Nat, risks : Risks]
        <5> HIDE DEF routes, r, m
        <5>1. QED BY <4>2, RemeasuredFlight
      <4>4. QED BY <4>1, <4>3 DEF Flight
    <3>4. QED BY <1>3, <2>1, <2>2, <2>4, <3>3 DEF Recalculate, AngleInv, Routed
  <2>5. QED BY <2>3, <2>4
<1>4. CASE Validate
  <2>1. UNCHANGED <<cluster, flights, angle>> /\ step = "validate" /\ step' \in {"failed", "kept"}
        /\ angle \in DOMAIN LinesAt /\ DOMAIN cluster = SwathsAt[angle]
    BY <1>4 DEF Validate, roundVars, AngleInv, Routed
  <2>2. CASE UNCHANGED candidates
    BY <2>1, <2>2 DEF AngleInv, Routed
  <2>3. CASE IsValid /\ candidates' = Append(candidates,
               [angle |-> angle, flights |-> flights, metric |-> Metric(flights)])
    <3> DEFINE c == [angle |-> angle, flights |-> flights, metric |-> Metric(flights)]
    <3>1. Valid(c)
      BY <2>1, <2>3, Validated
    <3>2. /\ Len(candidates') = Len(candidates) + 1 /\ DOMAIN candidates' = 1 .. Len(candidates')
          /\ \A k \in 1 .. Len(candidates') :
               candidates'[k] = IF k = Len(candidates') THEN c ELSE candidates[k]
      BY <2>3 DEF AngleInv
    <3> HIDE DEF c
    <3>3. \A k \in 1 .. Len(candidates') : Valid(candidates'[k])
      BY <3>1, <3>2 DEF AngleInv
    <3>4. QED BY <2>1, <3>2, <3>3 DEF AngleInv, Routed
  <2>4. QED BY <1>4, <2>2, <2>3 DEF Validate
<1>5. CASE Retry
  <2>1. UNCHANGED <<cluster, angle, candidates>> /\ step = "failed" /\ DOMAIN flights' = {}
        /\ step' = IF SwathsAt[angle] = {} THEN "failed" ELSE "route"
    BY <1>5 DEF Retry, NoFlights
  <2>2. QED BY <2>1 DEF AngleInv, Routed
<1>6. CASE EndAngle
  <2>1. candidates' = candidates /\ step' \in {"choose", "angle"}
    BY <1>6 DEF EndAngle
  <2>2. QED BY <2>1 DEF AngleInv, Routed
<1>7. CASE Choose
  <2>1. candidates' = candidates /\ step' \in {"raised", "reported"}
    BY <1>7 DEF Choose
  <2>2. QED BY <2>1 DEF AngleInv, Routed
<1>8. CASE UNCHANGED angleVars
  BY <1>8 DEF angleVars, roundVars, AngleInv, Routed, Flight, Mine
<1>9. QED BY <1>1, <1>2, <1>3, <1>4, <1>5, <1>6, <1>7, <1>8 DEF AngleNext

(* run_one_angle: what is kept photographs every leg of its angle's lines that
   survey speed allows in one flight, and each flight, measured along its waypoints,
   can be flown, ends within the endurance and keeps clear. *)
THEOREM CandidatesAreValid == AngleSpec => []CandidateIsValid
<1>1. AngleInit => AngleInv
  BY DEF AngleInit, AngleInv, Routed
<1>2. AngleInv /\ [AngleNext]_angleVars => AngleInv'
  BY AngleInvStep
<1>3. AngleInv => CandidateIsValid
  BY DEF AngleInv, Valid, CandidateIsValid
<1>4. QED BY <1>1, <1>2, <1>3, PTL DEF AngleSpec

-----------------------------------------------------------------------------
(* The metric *)

(* Sums over the subsets of a finite set exist, whatever is taken first. *)
AddsUp(g, D, first, amount) ==
  g = [S \in SUBSET D |-> IF S = {} THEN 0 ELSE amount[first[S]] + g[S \ {first[S]}]]

LEMMA TotalsExist ==
  ASSUME NEW D, IsFiniteSet(D), NEW first, NEW amount,
         \A S \in SUBSET D : S # {} => first[S] \in S
  PROVE  \E g : AddsUp(g, D, first, amount)
<1> DEFINE Upto(n) == { S \in SUBSET D : Cardinality(S) <= n }
           Sums(g, n) == g = [S \in Upto(n) |-> IF S = {} THEN 0
                                                ELSE amount[first[S]] + g[S \ {first[S]}]]
           without == { n \in Nat : ~ \E g : Sums(g, n) }
<1>1. \A S \in SUBSET D : IsFiniteSet(S) /\ Cardinality(S) \in Nat /\ Cardinality(S) <= Cardinality(D)
  BY FS_Subset, FS_CardinalityType
<1>2. Cardinality(D) \in Nat
  BY FS_CardinalityType
<1>3. Upto(Cardinality(D)) = SUBSET D
  BY <1>1
<1>4. SUFFICES ASSUME without # {} PROVE FALSE
  <2>1. PICK g : Sums(g, Cardinality(D))
    BY <1>2, <1>4
  <2>2. QED BY <1>3, <2>1 DEF AddsUp
<1>5. PICK n \in without : \A m \in without : n <= m
  BY <1>4, LeastNumber
<1>6. n # 0
  <2>1. \A S \in Upto(0) : S = {}
    BY <1>1, FS_EmptySet
  <2> DEFINE g == [S \in Upto(0) |-> 0]
  <2>2. Sums(g, 0)
    BY <2>1
  <2> HIDE DEF Sums
  <2>3. QED BY <1>5, <2>2
<1>7. n - 1 \in Nat /\ n - 1 \notin without
  <2>1. n \in Nat
    BY <1>5
  <2> HIDE DEF without
  <2>2. n - 1 \in Nat /\ ~(n <= n - 1)
    BY <1>6, <2>1
  <2>3. QED BY <1>5, <2>2
<1>8. PICK g : Sums(g, n - 1)
  BY <1>7
<1> DEFINE h == [S \in Upto(n) |-> IF S = {} THEN 0 ELSE amount[first[S]] + g[S \ {first[S]}]]
<1>9. ASSUME NEW S \in Upto(n), S # {}
      PROVE  S \ {first[S]} \in Upto(n - 1)
  <2>1. first[S] \in S /\ Cardinality(S) \in Nat /\ Cardinality(S) <= n
    BY <1>1, <1>9
  <2>2. Cardinality(S \ {first[S]}) = Cardinality(S) - 1
    BY <1>1, <2>1, FS_RemoveElement
  <2>3. QED BY <1>5, <2>1, <2>2
<1>10. \A S \in Upto(n - 1) : S \in Upto(n) /\ h[S] = g[S]
  <2> TAKE S \in Upto(n - 1)
  <2>1. S \in Upto(n)
    BY <1>1, <1>5
  <2>2. g[S] = IF S = {} THEN 0 ELSE amount[first[S]] + g[S \ {first[S]}]
    BY <1>8
  <2>3. QED BY <2>1, <2>2
<1>11. \A S \in Upto(n) : h[S] = IF S = {} THEN 0 ELSE amount[first[S]] + h[S \ {first[S]}]
  <2> TAKE S \in Upto(n)
  <2>1. CASE S = {}
    BY <2>1
  <2>2. CASE S # {}
    <3>1. h[S \ {first[S]}] = g[S \ {first[S]}]
      BY <1>9, <1>10, <2>2
    <3>2. h[S] = amount[first[S]] + g[S \ {first[S]}]
      BY <2>2
    <3> HIDE DEF h
    <3>3. QED BY <2>2, <3>1, <3>2
  <2>3. QED BY <2>1, <2>2
<1>12. DOMAIN h = Upto(n) /\ h = [S \in Upto(n) |-> h[S]]
  OBVIOUS
<1>13. Sums(h, n)
  <2> HIDE DEF h
  <2>1. QED BY <1>11, <1>12
<1> HIDE DEF Sums, h
<1>14. QED BY <1>5, <1>13

(* The metric of a round is a number. *)
LEMMA MetricIsNumber ==
  ASSUME NEW f, IsFiniteSet(DOMAIN f), DOMAIN f # {}, \A u \in DOMAIN f : f[u].time \in Nat
  PROVE  Metric(f) \in Nat
<1> DEFINE D == DOMAIN f
           first == [S \in SUBSET D |-> CHOOSE x \in S : TRUE]
           amount == [u \in D |-> f[u].time]
           Sums(g) == g = [S \in SUBSET D |-> IF S = {} THEN 0
                             ELSE LET u == CHOOSE x \in S : TRUE IN f[u].time + g[S \ {u}]]
           total == CHOOSE g : Sums(g)
           times == { f[u].time : u \in D }
<1>1. \A S \in SUBSET D : S # {} => first[S] \in S
  OBVIOUS
<1>2. Sums(total)
  <2>1. PICK g : AddsUp(g, D, first, amount)
    <3>1. IsFiniteSet(D)
      OBVIOUS
    <3> HIDE DEF D, first, amount
    <3>2. QED BY <1>1, <3>1, TotalsExist
  <2>2. \A S \in SUBSET D :
           (IF S = {} THEN 0 ELSE amount[first[S]] + g[S \ {first[S]}])
           = (IF S = {} THEN 0 ELSE LET u == CHOOSE x \in S : TRUE IN f[u].time + g[S \ {u}])
    <3> TAKE S \in SUBSET D
    <3>1. CASE S # {}
      <4> DEFINE x == first[S]
      <4>1. x \in D /\ x = CHOOSE y \in S : TRUE
        BY <1>1, <3>1
      <4>2. amount[x] = f[x].time
        BY <4>1
      <4> HIDE DEF x, amount
      <4>3. QED BY <3>1, <4>1, <4>2 DEF x
    <3>2. QED BY <3>1
  <2>3. Sums(g)
    BY <2>1, <2>2 DEF AddsUp
  <2> HIDE DEF Sums
  <2>4. QED BY <2>3
<1>3. \A S \in SUBSET D : total[S] = IF S = {} THEN 0 ELSE amount[first[S]] + total[S \ {first[S]}]
  <2> HIDE DEF total
  <2>1. QED BY <1>1, <1>2
<1>4. ASSUME criterion = "min_time"
      PROVE  Metric(f) \in Nat
  <2>1. Metric(f) = CHOOSE t \in times : \A u \in D : f[u].time <= t
    BY <1>4 DEF Metric
  <2>2. times \subseteq Nat /\ times # {} /\ IsFiniteSet(times)
    <3>1. amount \in Surjection(D, times)
      BY DEF Surjection
    <3>2. IsFiniteSet(times)
      BY <3>1, FS_Surjection
    <3>3. QED BY <3>2
  <2>3. PICK m \in times : \A x \in times : x <= m
    BY <2>2, LastOfFinite
  <2>4. \A u \in D : f[u].time <= m
    BY <2>3
  <2>5. QED BY <2>1, <2>2, <2>3, <2>4
<1>5. ASSUME criterion # "min_time"
      PROVE  Metric(f) \in Nat
  <2>1. Metric(f) = total[D]
    BY <1>5 DEF Metric
  <2> DEFINE Bad == { S \in SUBSET D : total[S] \notin Nat }
  <2> HIDE DEF total
  <2>2. SUFFICES ASSUME Bad # {} PROVE FALSE
    BY <2>1
  <2>3. PICK S \in Bad : \A x \in S : S \ {x} \notin Bad
    BY <2>2, SmallestWithout
  <2>4. S # {}
    <3>1. S \in SUBSET D /\ total[S] # 0
      BY <2>3
    <3>2. QED BY <1>3, <3>1
  <2>5. first[S] \in S /\ total[S] = amount[first[S]] + total[S \ {first[S]}] /\ amount[first[S]] \in Nat
    <3>1. first[S] \in S /\ first[S] \in D
      BY <1>1, <2>3, <2>4
    <3> HIDE DEF first
    <3>2. QED BY <1>3, <2>3, <2>4, <3>1
  <2>6. total[S \ {first[S]}] \in Nat
    <3> HIDE DEF first, amount
    <3>1. QED BY <2>3, <2>5
  <2> HIDE DEF first, amount
  <2>7. QED BY <2>3, <2>5, <2>6
<1>6. QED BY <1>4, <1>5

-----------------------------------------------------------------------------
(* The angles that are done, the last one included when it ended the search. *)
CutShort == step \in {"choose", "reported", "raised"} /\ angle \in DOMAIN SwathsAt
Ended == IF CutShort THEN angle ELSE angle - 1

(* The candidates of the angles that are done, and those better than all before. *)
Judged == 1 .. (IF step = "kept" THEN Len(candidates) - 1 ELSE Len(candidates))
Record(k) == \A j \in 1 .. k - 1 : candidates[k].metric < candidates[j].metric

Working == {"route", "validate", "failed", "kept"}

(* What is routed can be measured. *)
Measured ==
  /\ IsFiniteSet(DOMAIN flights) /\ flights = [u \in DOMAIN flights |-> flights[u]]
  /\ \A u \in DOMAIN flights : "time" \in DOMAIN flights[u] /\ flights[u].time \in Nat
  /\ step = "validate" => DOMAIN flights # {}

KeptInOrder ==
  /\ DOMAIN candidates = 1 .. Len(candidates) /\ Len(candidates) \in Nat
  /\ \A k \in DOMAIN candidates : candidates[k].metric \in Nat /\ candidates[k].angle \in Int
  /\ \A k \in Judged : candidates[k].angle <= Ended
  /\ step = "kept" => Len(candidates) >= 1 /\ candidates[Len(candidates)].angle = angle

(* A record gives the patience back, and every angle after it costs at most one. *)
PatienceCounts ==
  /\ bestMetric = 0 \/ \E k \in Judged : bestMetric = candidates[k].metric
  /\ patience > 0 => \A k \in Judged :
       Record(k) => patienceLeft >= patience - (Ended - candidates[k].angle)
  /\ CutShort => patience > 0 /\ patienceLeft <= 0

ChosenFirst ==
  step = "reported" =>
    /\ chosen \in DOMAIN candidates
    /\ \A k \in DOMAIN candidates : candidates[chosen].metric <= candidates[k].metric
    /\ Record(chosen)

SearchInv ==
  /\ angle \in Nat \ {0} /\ patience \in Nat /\ patienceLeft \in Int
  /\ step \in Working => angle \in DOMAIN SwathsAt
  /\ Measured /\ KeptInOrder /\ PatienceCounts /\ ChosenFirst

(* Steps inside an angle that keep nothing. *)
LEMMA QuietStep ==
  ASSUME SearchInv, Measured', step \in {"angle", "route", "validate", "failed"},
         step' \in {"route", "validate", "failed"}, angle \in DOMAIN SwathsAt,
         UNCHANGED <<patience, angle, candidates, patienceLeft, bestMetric>>
  PROVE  SearchInv'
<1>1. Ended' = Ended /\ Judged' = Judged /\ ~CutShort /\ ~CutShort'
  BY DEF Ended, Judged, CutShort
<1>2. KeptInOrder'
  BY <1>1 DEF SearchInv, KeptInOrder
<1>3. \A k : Record(k)' = Record(k)
  BY DEF Record
<1>4. PatienceCounts'
  BY <1>1, <1>3 DEF SearchInv, PatienceCounts
<1>5. QED BY <1>2, <1>4 DEF SearchInv, ChosenFirst, Working

(* A candidate is kept: the earlier ones are judged as before. *)
LEMMA KeptStep ==
  ASSUME SearchInv, NEW c, c.metric \in Nat, c.angle = angle,
         step = "validate", step' = "kept", candidates' = Append(candidates, c),
         UNCHANGED <<patience, angle, patienceLeft, bestMetric, flights>>
  PROVE  SearchInv'
<1> DEFINE n == Len(candidates)
<1>1. /\ n \in Nat /\ DOMAIN candidates = 1 .. n
      /\ Len(candidates') = n + 1 /\ DOMAIN candidates' = 1 .. n + 1
      /\ \A k \in 1 .. n : candidates'[k] = candidates[k]
      /\ candidates'[n + 1] = c
  BY DEF SearchInv, KeptInOrder
<1>2. Ended' = Ended /\ Judged = 1 .. n /\ Judged' = 1 .. n /\ ~CutShort /\ ~CutShort'
  <2>1. Judged' = 1 .. (n + 1) - 1 /\ Judged = 1 .. n
    BY <1>1 DEF Judged
  <2>2. QED BY <1>1, <2>1 DEF Ended, CutShort
<1>3. Measured'
  BY DEF SearchInv, Measured
<1>4. KeptInOrder'
  <2>1. \A k \in 1 .. n + 1 : k \in 1 .. n \/ k = n + 1
    BY <1>1
  <2>2. \A k \in 1 .. n : /\ candidates[k].metric \in Nat /\ candidates[k].angle \in Int
                          /\ candidates[k].angle <= Ended
    BY <1>1, <1>2 DEF SearchInv, KeptInOrder
  <2>3. angle \in Int
    BY DEF SearchInv
  <2>4. \A k \in DOMAIN candidates' : candidates'[k].metric \in Nat /\ candidates'[k].angle \in Int
    BY <1>1, <2>1, <2>2, <2>3
  <2>5. Len(candidates') >= 1 /\ candidates'[Len(candidates')].angle = angle'
    BY <1>1
  <2>6. \A k \in Judged' : candidates'[k].angle <= Ended'
    BY <1>1, <1>2, <2>2
  <2>7. DOMAIN candidates' = 1 .. Len(candidates') /\ Len(candidates') \in Nat
    BY <1>1
  <2> HIDE DEF n
  <2>8. QED BY <2>4, <2>5, <2>6, <2>7 DEF KeptInOrder
<1>5. PatienceCounts'
  <2>1. \A k \in 1 .. n : Record(k)' = Record(k)
    <3> TAKE k \in 1 .. n
    <3>1. \A j \in 1 .. k - 1 : j \in 1 .. n
      BY <1>1
    <3>2. QED BY <1>1, <3>1 DEF Record
  <2>2. bestMetric = 0 \/ \E k \in 1 .. n : bestMetric = candidates'[k].metric
    BY <1>1, <1>2 DEF SearchInv, PatienceCounts
  <2>3. patience > 0 => \A k \in 1 .. n :
          Record(k)' => patienceLeft >= patience - (Ended - candidates'[k].angle)
    BY <1>1, <1>2, <2>1 DEF SearchInv, PatienceCounts
  <2>4. QED BY <1>2, <2>2, <2>3 DEF PatienceCounts
<1>6. QED BY <1>3, <1>4, <1>5 DEF SearchInv, ChosenFirst, Working

(* The end of an angle: a record is an improvement on the best so far, which is
   the metric of one before it. *)
LEMMA EndAngleStep ==
  ASSUME SearchInv, EndAngle
  PROVE  SearchInv'
<1> DEFINE n == Len(candidates)
<1>1. /\ step \in {"kept", "failed"} /\ ~CutShort /\ Ended = angle - 1
      /\ angle \in DOMAIN SwathsAt /\ angle \in Nat \ {0} /\ patience \in Nat /\ patienceLeft \in Int
      /\ patience' = patience /\ candidates' = candidates /\ flights' = flights
      /\ step' \in {"choose", "angle"}
  BY DEF EndAngle, SearchInv, CutShort, Ended, Working, roundVars
<1>2. n \in Nat /\ DOMAIN candidates = 1 .. n /\ Judged' = 1 .. n
      /\ \A k \in 1 .. n : candidates[k].metric \in Nat /\ candidates[k].angle \in Int
  BY <1>1 DEF SearchInv, KeptInOrder, Judged
<1>3. Judged \subseteq 1 .. n /\ \A k \in 1 .. n : k \notin Judged => step = "kept" /\ k = n
  <2>1. Judged = IF step = "kept" THEN 1 .. n - 1 ELSE 1 .. n
    BY DEF Judged
  <2> HIDE DEF n
  <2>2. QED BY <1>2, <2>1
<1>4. \A k \in 1 .. n : candidates[k].angle <= angle
  <2> TAKE k \in 1 .. n
  <2>1. CASE k \in Judged
    <3>1. candidates[k].angle <= angle - 1
      BY <1>1, <2>1 DEF SearchInv, KeptInOrder
    <3>2. QED BY <1>1, <1>2, <3>1
  <2>2. CASE k \notin Judged
    <3>1. step = "kept" /\ k = n
      BY <1>3, <2>2
    <3>2. candidates[k].angle = angle
      BY <3>1 DEF SearchInv, KeptInOrder
    <3>3. QED BY <1>1, <3>2
  <2>3. QED BY <2>1, <2>2
<1>5. /\ angle' \in Nat \ {0} /\ Ended' = angle
      /\ CutShort' => patience > 0 /\ Disappoints /\ patienceLeft' <= 0
  <2>1. CASE patience > 0 /\ Disappoints /\ patienceLeft' <= 0
    <3>1. step' = "choose" /\ angle' = angle
      BY <2>1 DEF EndAngle
    <3>2. QED BY <1>1, <2>1, <3>1 DEF Ended, CutShort
  <2>2. CASE ~(patience > 0 /\ Disappoints /\ patienceLeft' <= 0)
    <3>1. /\ angle' = angle + 1
          /\ step' = IF angle' \in DOMAIN SwathsAt THEN "angle" ELSE "choose"
      BY <2>2 DEF EndAngle
    <3>2. ~CutShort'
      BY <3>1 DEF CutShort
    <3>3. QED BY <1>1, <3>1, <3>2 DEF Ended
  <2>3. QED BY <2>1, <2>2
<1>6. /\ bestMetric' = IF Improves /\ patience > 0 THEN candidates[n].metric ELSE bestMetric
      /\ patienceLeft' = IF patience = 0 THEN patienceLeft
                         ELSE IF Improves THEN patience
                         ELSE IF Disappoints THEN patienceLeft - 1 ELSE patienceLeft
  BY DEF EndAngle, Refilled
<1>7. patienceLeft' \in Int
  BY <1>1, <1>6
<1>8. step = "kept" => n \in 1 .. n
  BY <1>2 DEF SearchInv, KeptInOrder
<1>9. bestMetric' = 0 \/ \E k \in 1 .. n : bestMetric' = candidates[k].metric
  BY <1>3, <1>6, <1>8 DEF SearchInv, PatienceCounts, Improves
<1>10. ASSUME patience > 0, NEW k \in 1 .. n, Record(k)
       PROVE  patienceLeft' >= patience - (angle - candidates[k].angle)
  <2> DEFINE a == candidates[k].angle
  <2>1. a \in Int /\ a <= angle
    BY <1>2, <1>4
  <2>2. CASE Improves
    BY <1>1, <1>6, <1>10, <2>1, <2>2
  <2>3. CASE ~Improves
    <3>1. k \in Judged
      <4> SUFFICES ASSUME k \notin Judged PROVE FALSE
        OBVIOUS
      <4>1. step = "kept" /\ k = n
        BY <1>3
      <4>2. bestMetric # 0 /\ ~(candidates[n].metric < bestMetric)
        BY <2>3, <4>1 DEF Improves
      <4>3. PICK j \in Judged : bestMetric = candidates[j].metric
        BY <4>2 DEF SearchInv, PatienceCounts
      <4>4. j \in 1 .. k - 1
        BY <1>2, <4>1, <4>3 DEF Judged
      <4>5. QED BY <1>10, <4>1, <4>2, <4>3, <4>4 DEF Record
    <3>2. patienceLeft >= patience - ((angle - 1) - a)
      BY <1>1, <1>10, <3>1 DEF SearchInv, PatienceCounts
    <3>3. patienceLeft' >= patienceLeft - 1
      BY <1>1, <1>6, <1>10, <2>3
    <3> HIDE DEF a
    <3>4. patienceLeft' >= patience - (angle - a)
      BY <1>1, <1>7, <2>1, <3>2, <3>3
    <3>5. QED BY <3>4 DEF a
  <2>4. QED BY <2>2, <2>3
<1>11. \A k : Record(k)' = Record(k)
  BY <1>1 DEF Record
<1>12. Measured'
  BY <1>1 DEF SearchInv, Measured
<1>13. KeptInOrder'
  BY <1>1, <1>2, <1>4, <1>5 DEF KeptInOrder
<1>14. PatienceCounts'
  BY <1>1, <1>2, <1>5, <1>9, <1>10, <1>11 DEF PatienceCounts
<1>15. step' \in Working => angle' \in DOMAIN SwathsAt
  BY <1>1 DEF Working
<1>16. ChosenFirst'
  BY <1>1 DEF ChosenFirst
<1>17. QED BY <1>1, <1>5, <1>7, <1>12, <1>13, <1>14, <1>15, <1>16 DEF SearchInv

(* min takes the first of the best. *)
LEMMA ChooseStep ==
  ASSUME SearchInv, Choose
  PROVE  SearchInv'
<1> DEFINE n == Len(candidates)
           First(k) == \A j \in DOMAIN candidates :
                         \/ candidates[k].metric < candidates[j].metric
                         \/ candidates[k].metric = candidates[j].metric /\ k <= j
<1>1. /\ step = "choose" /\ step' \in {"reported", "raised"}
      /\ UNCHANGED <<patience, angle, candidates, patienceLeft, bestMetric, flights>>
  BY DEF Choose, roundVars
<1>2. n \in Nat /\ DOMAIN candidates = 1 .. n /\ \A k \in 1 .. n : candidates[k].metric \in Nat
  BY DEF SearchInv, KeptInOrder
<1>3. Ended' = Ended /\ Judged' = Judged /\ CutShort' = CutShort
  BY <1>1 DEF Ended, Judged, CutShort
<1>4. Measured' /\ KeptInOrder' /\ PatienceCounts'
  <2>1. \A k : Record(k)' = Record(k)
    BY <1>1 DEF Record
  <2>2. PatienceCounts'
    BY <1>1, <1>3, <2>1 DEF SearchInv, PatienceCounts
  <2>3. Measured'
    BY <1>1 DEF SearchInv, Measured
  <2>4. KeptInOrder'
    BY <1>1, <1>3 DEF SearchInv, KeptInOrder
  <2>5. QED BY <2>2, <2>3, <2>4
<1>5. ASSUME candidates # <<>>
      PROVE  chosen' \in 1 .. n /\ First(chosen')
  <2>1. 1 \in 1 .. n
    <3>1. candidates \in Seq({ candidates[k] : k \in 1 .. n }) \/ n # 0
      BY <1>5
    <3>2. QED BY <1>2, <1>5, <3>1
  <2> DEFINE metrics == { candidates[k].metric : k \in 1 .. n }
  <2>2. PICK m \in metrics : \A x \in metrics : m <= x
    <3>1. metrics \subseteq Nat /\ metrics # {}
      BY <1>2, <2>1
    <3> HIDE DEF metrics
    <3>2. QED BY <3>1, LeastNumber
  <2> DEFINE firsts == { k \in 1 .. n : candidates[k].metric = m }
  <2>3. PICK k \in firsts : \A j \in firsts : k <= j
    <3>1. firsts \subseteq Nat /\ firsts # {}
      BY <2>2
    <3> HIDE DEF firsts
    <3>2. QED BY <3>1, LeastNumber
  <2>4. k \in DOMAIN candidates /\ First(k)
    <3>1. k \in 1 .. n /\ candidates[k].metric = m /\ m \in Nat
      BY <1>2, <2>3
    <3>2. ASSUME NEW j \in 1 .. n
          PROVE  m < candidates[j].metric \/ (m = candidates[j].metric /\ k <= j)
      <4>1. candidates[j].metric \in Nat /\ m <= candidates[j].metric
        BY <1>2, <2>2
      <4>2. CASE m = candidates[j].metric
        BY <2>3, <4>2
      <4>3. QED BY <3>1, <4>1, <4>2
    <3>3. QED BY <1>2, <3>1, <3>2
  <2>5. chosen' = CHOOSE i \in DOMAIN candidates : First(i)
    BY <1>5 DEF Choose
  <2> HIDE DEF First
  <2>6. QED BY <1>2, <2>4, <2>5
<1>6. ChosenFirst'
  <2> SUFFICES ASSUME step' = "reported"
               PROVE  /\ chosen' \in DOMAIN candidates
                      /\ \A k \in DOMAIN candidates : candidates[chosen'].metric <= candidates[k].metric
                      /\ \A j \in 1 .. chosen' - 1 : candidates[chosen'].metric < candidates[j].metric
    BY <1>1 DEF ChosenFirst, Record
  <2>1. chosen' \in 1 .. n /\ First(chosen')
    BY <1>5 DEF Choose
  <2>2. \A k \in 1 .. n : candidates[chosen'].metric <= candidates[k].metric
    <3> TAKE k \in 1 .. n
    <3>1. candidates[chosen'].metric \in Nat /\ candidates[k].metric \in Nat
      BY <1>2, <2>1
    <3>2. QED BY <1>2, <2>1, <3>1
  <2>3. \A j \in 1 .. chosen' - 1 : candidates[chosen'].metric < candidates[j].metric
    <3> TAKE j \in 1 .. chosen' - 1
    <3>1. chosen' \in 1 .. n
      BY <2>1
    <3> HIDE DEF n, First
    <3>2. PICK i \in 1 .. n : i = chosen'
      BY <3>1
    <3>3. j \in 1 .. i - 1
      BY <3>2
    <3>3b. j \in 1 .. n /\ ~(i <= j)
      BY <1>2, <3>3
    <3>4. j \in 1 .. n /\ ~(chosen' <= j)
      BY <3>2, <3>3b
    <3>5. QED BY <1>2, <2>1, <3>4 DEF First
  <2>4. QED BY <1>2, <2>1, <2>2, <2>3
<1>7. QED BY <1>1, <1>4, <1>6 DEF SearchInv, Working

LEMMA SearchInvStep ==
  ASSUME SearchInv, [AngleNext]_angleVars
  PROVE  SearchInv'
<1> USE AngleAssumption
<1>1. CASE StartAngle
  <2>1. /\ step = "angle" /\ angle \in DOMAIN SwathsAt /\ step' \in {"failed", "route"}
        /\ UNCHANGED <<patience, angle, candidates, patienceLeft, bestMetric>> /\ flights' = NoFlights
    BY <1>1 DEF StartAngle
  <2>2. Measured'
    BY <2>1, FS_EmptySet DEF Measured, NoFlights
  <2>3. QED BY <2>1, <2>2, QuietStep
<1>2. CASE RouteUav
  <2>1. /\ step = "route" /\ step' = "route" /\ angle \in DOMAIN SwathsAt
        /\ UNCHANGED <<patience, angle, candidates, patienceLeft, bestMetric>>
    BY <1>2 DEF RouteUav, SearchInv, Working
  <2>2. Measured'
    <3>1. CASE UNCHANGED flights
      BY <2>1, <3>1 DEF SearchInv, Measured
    <3>2. ASSUME NEW u, NEW f \in Rounds(u),
                 flights' = [ v \in DOMAIN flights \cup {u} |-> IF v = u THEN f ELSE flights[v] ]
          PROVE  Measured'
      <4>1. "time" \in DOMAIN f /\ f.time \in Nat
        <5>1. PICK x \in FlightTimes : f = [swaths |-> Mine(u), planned |-> x, time |-> x, risks |-> {}]
          BY <3>2 DEF Rounds
        <5>2. QED BY <5>1
      <4>2. DOMAIN flights' = DOMAIN flights \cup {u} /\ IsFiniteSet(DOMAIN flights')
        BY <3>2, FS_AddElement DEF SearchInv, Measured
      <4>3. \A v \in DOMAIN flights' : "time" \in DOMAIN flights'[v] /\ flights'[v].time \in Nat
        BY <3>2, <4>1 DEF SearchInv, Measured
      <4>4. flights' = [ v \in DOMAIN flights' |-> flights'[v] ]
        BY <3>2
      <4>5. QED BY <2>1, <4>2, <4>3, <4>4 DEF Measured
    <3>3. QED BY <1>2, <3>1, <3>2 DEF RouteUav
  <2>3. QED BY <2>1, <2>2, QuietStep
<1>3. CASE Recalculate
  <2>1. /\ step = "route" /\ step' \in {"failed", "validate"} /\ angle \in DOMAIN SwathsAt
        /\ UNCHANGED <<patience, angle, candidates, patienceLeft, bestMetric>>
    BY <1>3 DEF Recalculate, SearchInv, Working
  <2>2. Measured'
    <3>1. CASE flights = NoFlights
      <4>1. step' = "failed" /\ flights' = flights
        BY <1>3, <3>1 DEF Recalculate
      <4>2. QED BY <4>1 DEF SearchInv, Measured
    <3>2. CASE flights # NoFlights
      <4>1. PICK measured \in Measurements :
              flights' = [ u \in DOMAIN flights |->
                             [flights[u] EXCEPT !.time = measured[u].time, !.risks = measured[u].risks] ]
        BY <1>3, <3>2 DEF Recalculate
      <4>2. DOMAIN flights # {}
        BY <3>2 DEF SearchInv, Measured, NoFlights
      <4>3. DOMAIN flights' = DOMAIN flights /\ flights' = [ u \in DOMAIN flights' |-> flights'[u] ]
        BY <4>1
      <4>4. \A u \in DOMAIN flights' : "time" \in DOMAIN flights'[u] /\ flights'[u].time \in Nat
        <5> TAKE u \in DOMAIN flights'
        <5>1. measured[u].time \in Nat
          BY <4>1, <4>3 DEF Measurements
        <5>2. flights'[u] = Remeasured(flights[u], measured[u].time, measured[u].risks)
          BY <4>1, <4>3 DEF Remeasured
        <5>3. "time" \in DOMAIN flights[u]
          BY <4>3 DEF SearchInv, Measured
        <5>4. QED BY <5>1, <5>2, <5>3, RemeasuredTime
      <4>5. QED BY <4>2, <4>3, <4>4 DEF SearchInv, Measured
    <3>3. QED BY <3>1, <3>2
  <2>3. QED BY <2>1, <2>2, QuietStep
<1>4. CASE Validate
  <2>1. /\ step = "validate" /\ angle \in DOMAIN SwathsAt
        /\ UNCHANGED <<patience, angle, patienceLeft, bestMetric, flights>>
    BY <1>4 DEF Validate, SearchInv, Working, roundVars
  <2>2. CASE step' = "failed" /\ UNCHANGED candidates
    <3>1. Measured'
      BY <2>1, <2>2 DEF SearchInv, Measured
    <3>2. QED BY <2>1, <2>2, <3>1, QuietStep
  <2>3. CASE /\ step' = "kept"
             /\ candidates' = Append(candidates,
                  [angle |-> angle, flights |-> flights, metric |-> Metric(flights)])
    <3> DEFINE c == [angle |-> angle, flights |-> flights, metric |-> Metric(flights)]
    <3>1. Metric(flights) \in Nat
      BY <2>1, MetricIsNumber DEF SearchInv, Measured
    <3>2. c.metric \in Nat /\ c.angle = angle /\ candidates' = Append(candidates, c)
      BY <2>3, <3>1
    <3> HIDE DEF c
    <3>3. QED BY <2>1, <2>3, <3>2, KeptStep
  <2>4. QED BY <1>4, <2>2, <2>3 DEF Validate
<1>5. CASE Retry
  <2>1. /\ step = "failed" /\ step' \in {"failed", "route"} /\ angle \in DOMAIN SwathsAt
        /\ UNCHANGED <<patience, angle, candidates, patienceLeft, bestMetric>> /\ flights' = NoFlights
    BY <1>5 DEF Retry, SearchInv, Working
  <2>2. Measured'
    BY <2>1, FS_EmptySet DEF Measured, NoFlights
  <2>3. QED BY <2>1, <2>2, QuietStep
<1>6. CASE EndAngle
  BY <1>6, EndAngleStep
<1>7. CASE Choose
  BY <1>7, ChooseStep
<1>8. CASE UNCHANGED angleVars
  <2>1. UNCHANGED <<patience, step, angle, flights, candidates, patienceLeft, bestMetric, chosen>>
    BY <1>8 DEF angleVars, roundVars
  <2>2. Ended' = Ended /\ Judged' = Judged /\ CutShort' = CutShort /\ \A k : Record(k)' = Record(k)
    BY <2>1 DEF Ended, Judged, CutShort, Record
  <2>3. Measured' /\ KeptInOrder' /\ PatienceCounts' /\ ChosenFirst'
    BY <2>1, <2>2 DEF SearchInv, Measured, KeptInOrder, PatienceCounts, ChosenFirst
  <2>4. QED BY <2>1, <2>3 DEF SearchInv
<1>9. QED BY <1>1, <1>2, <1>3, <1>4, <1>5, <1>6, <1>7, <1>8 DEF AngleNext

(* run_mission reports the best of what it kept, and leaves angles untried only
   after as many without an improvement as its patience. *)
THEOREM BestOfTheSearch == AngleSpec => []BestIsReported
<1>1. AngleInit => SearchInv
  <2> SUFFICES ASSUME AngleInit PROVE SearchInv
    OBVIOUS
  <2>1. /\ step = "angle" /\ angle = 1 /\ candidates = <<>> /\ flights = NoFlights /\ bestMetric = 0
        /\ patience \in Nat /\ patienceLeft = patience
    BY AngleAssumption DEF AngleInit
  <2>2. Judged = {} /\ ~CutShort
    BY <2>1 DEF Judged, CutShort
  <2>3. Measured
    BY <2>1, FS_EmptySet DEF Measured, NoFlights
  <2>4. KeptInOrder
    BY <2>1, <2>2 DEF KeptInOrder
  <2>5. QED BY <2>1, <2>2, <2>3, <2>4 DEF SearchInv, PatienceCounts, ChosenFirst, Working
<1>2. SearchInv /\ [AngleNext]_angleVars => SearchInv'
  BY SearchInvStep
<1>3. SearchInv => BestIsReported
  <2> SUFFICES ASSUME SearchInv, step = "reported"
               PROVE  /\ \A k \in DOMAIN candidates : candidates[chosen].metric <= candidates[k].metric
                      /\ angle \in DOMAIN SwathsAt =>
                           angle - candidates[chosen].angle >= patience /\ patience > 0
    BY DEF BestIsReported
  <2>1. /\ chosen \in DOMAIN candidates /\ Record(chosen)
        /\ \A k \in DOMAIN candidates : candidates[chosen].metric <= candidates[k].metric
    BY DEF SearchInv, ChosenFirst
  <2>2. ASSUME angle \in DOMAIN SwathsAt
        PROVE  angle - candidates[chosen].angle >= patience /\ patience > 0
    <3>1. CutShort /\ Ended = angle /\ chosen \in Judged
      BY <2>1, <2>2 DEF CutShort, Ended, Judged, SearchInv, KeptInOrder
    <3>2. patience > 0 /\ patienceLeft <= 0 /\ patienceLeft >= patience - (angle - candidates[chosen].angle)
      BY <2>1, <3>1 DEF SearchInv, PatienceCounts
    <3>3. angle \in Int /\ patience \in Int /\ patienceLeft \in Int /\ candidates[chosen].angle \in Int
      BY <2>1 DEF SearchInv, KeptInOrder
    <3>4. QED BY <3>2, <3>3
  <2>3. QED BY <2>1, <2>2
<1>4. QED BY <1>1, <1>2, <1>3, PTL DEF AngleSpec

-----------------------------------------------------------------------------
(* The form *)

(* What the pickers keep. *)
FileTypes ==
  /\ picks \in Nat
  /\ DOMAIN shown = Categories /\ DOMAIN lastPicked = Categories
  /\ loading \in Categories \cup {"none"}
  /\ \A r \in reads : r.category \in Categories /\ r.n \in 1 .. picks

(* Until two reads cross, there is one read at most: of the category that is
   loading, of the file picked for it last; and every other file shown is the
   last one picked for its category. *)
Uncrossed ==
  ~crossed =>
    /\ loading = "none" <=> reads = {}
    /\ \A r \in reads : r.category = loading /\ r.n = lastPicked[loading]
    /\ \A q, r \in reads : q = r
    /\ \A c \in Categories \ {loading} : shown[c] # NoFile => shown[c].n = lastPicked[c]

FileInv == FileTypes /\ Uncrossed

(* Picking, reading and removing files. *)
LEMMA FileMoves ==
  ASSUME FileInv, NEW files, FileStep(files)
  PROVE  FileInv'
<1>1. ASSUME NEW c \in Categories, NEW f \in files, PickFile(c, f)
      PROVE  FileInv'
  <2> DEFINE new == [n |-> picks + 1, category |-> c, file |-> f]
  <2>1. FileTypes'
    BY <1>1 DEF FileInv, FileTypes, PickFile
  <2>2. ASSUME ~crossed'
        PROVE  reads = {} /\ reads' = {new} /\ loading = "none"
    <3>1. ~crossed /\ \A r \in reads : r.category = c
      BY <1>1, <2>2 DEF PickFile
    <3>2. reads = {}
      BY <1>1, <3>1 DEF FileInv, Uncrossed, PickFile, PickerOpen
    <3>3. QED BY <1>1, <3>1, <3>2 DEF FileInv, FileTypes, Uncrossed, PickFile, PickerOpen
  <2>3. Uncrossed'
    <3> SUFFICES ASSUME ~crossed' PROVE Uncrossed'
      BY DEF Uncrossed
    <3>1. reads' = {new} /\ loading' = c /\ new.category = c /\ new.n = picks + 1
      BY <1>1, <2>2 DEF PickFile
    <3>2. lastPicked'[c] = picks + 1 /\ \A d \in Categories \ {c} : lastPicked'[d] = lastPicked[d]
      BY <1>1 DEF FileInv, FileTypes, PickFile
    <3>3. \A d \in Categories : shown[d] # NoFile => shown[d].n = lastPicked[d]
      BY <1>1, <2>2 DEF FileInv, Uncrossed, PickFile, Categories
    <3>4. shown' = shown /\ "none" \notin Categories
      BY <1>1 DEF PickFile, Categories
    <3>5. QED BY <3>1, <3>2, <3>3, <3>4 DEF Uncrossed
  <2>4. QED BY <2>1, <2>3 DEF FileInv
<1>2. ASSUME NEW r \in reads, FinishRead(r)
      PROVE  FileInv'
  <2>1. FileTypes'
    BY <1>2 DEF FileInv, FileTypes, FinishRead
  <2>2. Uncrossed'
    <3> SUFFICES ASSUME ~crossed' PROVE Uncrossed'
      BY DEF Uncrossed
    <3>1. reads' = {} /\ r.category = loading /\ r.n = lastPicked[loading] /\ loading' = "none"
      BY <1>2 DEF FileInv, Uncrossed, FinishRead
    <3>2. shown'[loading] = r /\ \A d \in Categories \ {loading} : shown'[d] = shown[d]
      BY <1>2, <3>1 DEF FileInv, FileTypes, FinishRead
    <3>3. lastPicked' = lastPicked /\ ~crossed
      BY <1>2 DEF FinishRead
    <3>4. QED BY <3>1, <3>2, <3>3 DEF FileInv, Uncrossed
  <2>3. QED BY <2>1, <2>2 DEF FileInv
<1>3. ASSUME NEW c \in Categories, RemoveFile(c)
      PROVE  FileInv'
  BY <1>3 DEF FileInv, FileTypes, Uncrossed, RemoveFile
<1>4. QED BY <1>1, <1>2, <1>3 DEF FileStep

(* Nothing else touches the files. *)
LEMMA FileStays ==
  ASSUME FileInv, UNCHANGED fileVars
  PROVE  FileInv'
BY DEF FileInv, FileTypes, Uncrossed, fileVars

(* Edits of the fleet leave the files alone. *)
LEMMA FleetKeepsFiles ==
  ASSUME FleetStep \/ Submit
  PROVE  UNCHANGED fileVars
BY DEF FleetStep, Submit, ChangeAerodromeCount, AddBoard, RemoveBoard, ChangeModel,
       ChangeCamera, ChangeAerodrome, ChangeCount, ChangeSurveyType, fileVars

(* Edits of the files leave the fleet and what was sent alone. *)
LEMMA FilesKeepFleet ==
  ASSUME NEW files, FileStep(files)
  PROVE  UNCHANGED <<fleetVars, sent>>
BY DEF FileStep, PickFile, FinishRead, RemoveFile, fleetVars

LEMMA FileStart ==
  ASSUME FormInit(NoFile, <<EmptyBoard>>)
  PROVE  FileInv
<1>1. shown \in [Categories -> {NoFile}] /\ picks = 0 /\ reads = {} /\ loading = "none"
  BY DEF FormInit, NoFile
<1>2. DOMAIN lastPicked = Categories
  BY DEF FormInit
<1>3. QED BY <1>1, <1>2 DEF FileInv, FileTypes, Uncrossed

(* handleKmlFiles: as long as picks do not cross, what the form shows when nothing
   is loading is, for each category, the file picked last. *)
THEOREM LastPickStays == FormSpec => []LastPickWins
<1>1. FormInit(NoFile, <<EmptyBoard>>) => FileInv
  BY FileStart
<1>2. FileInv /\ [FormNext]_formVars => FileInv'
  BY FileMoves, FileStays, FleetKeepsFiles DEF FormNext, formVars
<1>3. FileInv => LastPickWins
  BY DEF FileInv, Uncrossed, LastPickWins, Categories
<1>4. QED BY <1>1, <1>2, <1>3, PTL DEF FormSpec

-----------------------------------------------------------------------------
Board == [model : Models \cup {NoModel}, camera : Cameras \cup {NoCamera}, pad : Nat, count : Nat]

(* What is chosen on a board is offered. *)
Choice(b, type, n) ==
  /\ b \in Board
  /\ b.camera \in Offered(b.model, type) \cup {NoCamera}
  /\ b.pad \in 0 .. n

Chosen(b) == Choice(b, surveyType, pads)

Offers ==
  /\ pads \in 1 .. MaxPads
  /\ boards \in Seq(Board)
  /\ \A i \in 1 .. Len(boards) : Chosen(boards[i])

(* A sequence that differs from the boards in one place. *)
LEMMA OneBoard ==
  ASSUME Offers, NEW i \in 1 .. Len(boards), NEW b, Choice(b, surveyType, pads),
         boards' = [boards EXCEPT ![i] = b], pads' = pads, surveyType' = surveyType
  PROVE  Offers'
<1>1. /\ boards' \in Seq(Board) /\ Len(boards') = Len(boards)
      /\ \A k \in 1 .. Len(boards) : boards'[k] = IF k = i THEN b ELSE boards[k]
  BY DEF Offers, Choice
<1>2. \A k \in 1 .. Len(boards) : Choice(boards'[k], surveyType, pads)
  BY <1>1 DEF Offers, Chosen
<1>3. QED BY <1>1, <1>2 DEF Offers, Chosen

(* Every board changed at once. *)
LEMMA AllBoards ==
  ASSUME Offers, pads' \in 1 .. MaxPads, DOMAIN boards' = 1 .. Len(boards),
         boards' = [ k \in DOMAIN boards |-> boards'[k] ],
         \A k \in 1 .. Len(boards) : Choice(boards'[k], surveyType', pads')
  PROVE  Offers'
<1>1. boards' \in Seq(Board) /\ Len(boards') = Len(boards)
  <2>1. DOMAIN boards = 1 .. Len(boards) /\ Len(boards) \in Nat
    BY DEF Offers
  <2>2. boards' \in [1 .. Len(boards) -> Board]
    BY <2>1 DEF Choice
  <2>3. QED BY <2>1, <2>2
<1>2. QED BY <1>1 DEF Offers, Chosen

LEMMA OfferedAreCameras ==
  ASSUME NEW model, NEW type
  PROVE  Offered(model, type) \subseteq Cameras
BY DEF Offered

(* Each edit of the boards, the aerodromes or the survey type. *)
LEMMA FleetMoves ==
  ASSUME Offers, FleetStep
  PROVE  Offers'
<1> USE FormAssumption
<1>d. /\ DOMAIN boards = 1 .. Len(boards) /\ Len(boards) \in Nat
      /\ \A i \in 1 .. Len(boards) : boards[i] \in Board /\ Chosen(boards[i])
      /\ pads \in 1 .. MaxPads /\ pads \in Nat
  BY DEF Offers, Chosen, Choice
<1>1. ASSUME NEW n \in 1 .. MaxPads, ChangeAerodromeCount(n)
      PROVE  Offers'
  <2>1. \A k \in 1 .. Len(boards) : Choice(boards'[k], surveyType, n)
    <3> TAKE k \in 1 .. Len(boards)
    <3>1. boards'[k] = IF boards[k].pad > n THEN [boards[k] EXCEPT !.pad = 0] ELSE boards[k]
      BY <1>d, <1>1 DEF ChangeAerodromeCount
    <3>2. CASE boards[k].pad > n
      BY <1>d, <3>1, <3>2 DEF Chosen, Choice, Board
    <3>3. CASE ~(boards[k].pad > n)
      BY <1>d, <3>1, <3>3 DEF Chosen, Choice, Board
    <3>4. QED BY <3>2, <3>3
  <2>2. QED BY <1>d, <1>1, <2>1, AllBoards DEF ChangeAerodromeCount
<1>2. ASSUME AddBoard
      PROVE  Offers'
  <2>1. Choice(EmptyBoard, surveyType, pads)
    BY <1>d DEF EmptyBoard, Choice, Board
  <2>2. EmptyBoard \in Board
    BY <2>1 DEF Choice
  <2>3. /\ boards' \in Seq(Board) /\ Len(boards') = Len(boards) + 1
        /\ \A k \in 1 .. Len(boards') : boards'[k] = IF k = Len(boards') THEN EmptyBoard ELSE boards[k]
    BY <1>2, <2>2 DEF AddBoard, Offers
  <2>4. QED BY <1>d, <1>2, <2>1, <2>3 DEF AddBoard, Offers, Chosen
<1>3. ASSUME NEW i \in DOMAIN boards, RemoveBoard(i)
      PROVE  Offers'
  <2>1. boards' = [ k \in 1 .. Len(boards) - 1 |-> IF k < i THEN boards[k] ELSE boards[k + 1] ]
    BY <1>3 DEF RemoveBoard
  <2>2. \A k \in 1 .. Len(boards) - 1 : boards'[k] \in Board /\ Chosen(boards'[k])
    <3> TAKE k \in 1 .. Len(boards) - 1
    <3>1. \E j \in 1 .. Len(boards) : boards'[k] = boards[j]
      <4>1. CASE k < i
        BY <1>d, <2>1, <4>1
      <4>2. CASE ~(k < i)
        <5>1. k + 1 \in 1 .. Len(boards) BY <1>d
        <5>2. boards'[k] = boards[k + 1] BY <2>1, <4>2
        <5>3. QED BY <5>1, <5>2
      <4>3. QED BY <4>1, <4>2
    <3>2. QED BY <1>d, <3>1
  <2>3. boards' \in Seq(Board) /\ Len(boards') = Len(boards) - 1
    <3>1. Len(boards) - 1 \in Nat BY <1>d
    <3>2. boards' \in [1 .. Len(boards) - 1 -> Board] BY <2>1, <2>2
    <3>3. QED BY <3>1, <3>2
  <2>4. QED BY <1>3, <1>d, <2>2, <2>3 DEF RemoveBoard, Offers, Chosen
<1>4. ASSUME NEW i \in DOMAIN boards, NEW m \in Models \cup {NoModel}, ChangeModel(i, m)
      PROVE  Offers'
  <2> DEFINE cam == IF boards[i].camera \in Offered(m, surveyType) THEN boards[i].camera ELSE NoCamera
             b == [boards[i] EXCEPT !.model = m, !.camera = cam]
  <2>1. boards' = [boards EXCEPT ![i] = b]
    BY <1>4, <1>d DEF ChangeModel, Board
  <2>2. Choice(b, surveyType, pads)
    BY <1>d, OfferedAreCameras DEF Choice, Board, Chosen
  <2>3. QED BY <1>4, <1>d, <2>1, <2>2, OneBoard DEF ChangeModel
<1>5. ASSUME NEW i \in DOMAIN boards, NEW c \in Cameras \cup {NoCamera}, ChangeCamera(i, c)
      PROVE  Offers'
  <2> DEFINE b == [boards[i] EXCEPT !.camera = c]
  <2>1. boards' = [boards EXCEPT ![i] = b]
    BY <1>5, <1>d DEF ChangeCamera
  <2>2. Choice(b, surveyType, pads)
    BY <1>d, <1>5 DEF Choice, Board, Chosen, ChangeCamera
  <2>3. QED BY <1>5, <1>d, <2>1, <2>2, OneBoard DEF ChangeCamera
<1>6. ASSUME NEW i \in DOMAIN boards, NEW p \in 0 .. MaxPads, ChangeAerodrome(i, p)
      PROVE  Offers'
  <2> DEFINE b == [boards[i] EXCEPT !.pad = p]
  <2>1. boards' = [boards EXCEPT ![i] = b]
    BY <1>6, <1>d DEF ChangeAerodrome
  <2>2. Choice(b, surveyType, pads)
    <3>1. boards[i] \in Board /\ Chosen(boards[i]) /\ p \in 0 .. pads /\ p \in Nat
      BY <1>d, <1>6 DEF ChangeAerodrome
    <3>2. /\ b \in Board /\ b.pad = p
          /\ b.camera = boards[i].camera /\ b.model = boards[i].model
      BY <3>1 DEF Board
    <3>3. QED BY <3>1, <3>2 DEF Chosen, Choice
  <2>3. QED BY <1>6, <1>d, <2>1, <2>2, OneBoard DEF ChangeAerodrome
<1>7. ASSUME NEW i \in DOMAIN boards, NEW n \in 0 .. MaxCount, ChangeCount(i, n)
      PROVE  Offers'
  <2> DEFINE b == [boards[i] EXCEPT !.count = n]
  <2>1. boards' = [boards EXCEPT ![i] = b]
    BY <1>7, <1>d DEF ChangeCount
  <2>2. Choice(b, surveyType, pads)
    BY <1>d, <1>7 DEF Choice, Board, Chosen, ChangeCount
  <2>3. QED BY <1>7, <1>d, <2>1, <2>2, OneBoard DEF ChangeCount
<1>8. ASSUME NEW t \in FormTypes, ChangeSurveyType(t)
      PROVE  Offers'
  <2>1. \A k \in 1 .. Len(boards) : Choice(boards'[k], t, pads)
    <3> TAKE k \in 1 .. Len(boards)
    <3> DEFINE allowed == Offered(boards[k].model, t)
    <3>1. boards'[k] = WithSurveyType(boards[k], t)
      BY <1>d, <1>8 DEF ChangeSurveyType
    <3>2. boards[k].model \in Models \cup {NoModel} /\ allowed \subseteq Cameras
      BY <1>d, OfferedAreCameras DEF Board
    <3>3. CASE boards[k].camera \in allowed \cup {NoCamera}
      BY <1>d, <3>1, <3>3 DEF WithSurveyType, Chosen, Choice
    <3>4. CASE boards[k].camera \notin allowed \cup {NoCamera}
      <4> DEFINE cam == IF allowed = {} THEN NoCamera ELSE CHOOSE c \in allowed : TRUE
      <4>1. cam \in allowed \cup {NoCamera}
        OBVIOUS
      <4>2. boards'[k] = [boards[k] EXCEPT !.camera = cam]
        BY <3>1, <3>4 DEF WithSurveyType
      <4> HIDE DEF cam
      <4>3. boards'[k] \in Board /\ boards'[k].camera = cam
            /\ boards'[k].model = boards[k].model /\ boards'[k].pad = boards[k].pad
        BY <1>d, <3>2, <4>1, <4>2 DEF Board
      <4>4. QED BY <1>d, <4>1, <4>3 DEF Chosen, Choice
    <3>5. QED BY <3>3, <3>4
  <2>2. QED BY <1>d, <1>8, <2>1, AllBoards DEF ChangeSurveyType
<1>9. QED BY <1>1, <1>2, <1>3, <1>4, <1>5, <1>6, <1>7, <1>8 DEF FleetStep

(* What a submit sends is what the server takes. *)
SentFits ==
  sent # <<>> =>
    /\ Mismatched(sent) = {}
    /\ \A i \in CardIds(sent) :
         Known(sent.cards[i]) /\ Compatible(sent.cards[i]) /\ sent.cards[i].pad \in PadIds(sent)

FleetInv == Offers /\ SentFits

LEMMA SubmitFits ==
  ASSUME Offers, Submit
  PROVE  SentFits'
<1> USE FormAssumption
<1>1. /\ sent' = Scenario /\ sent'.cards = boards /\ sent'.spectrum = surveyType
      /\ sent'.pads = [ n \in 1 .. pads |-> n ]
  BY DEF Submit, Scenario
<1>2. ASSUME NEW i \in DOMAIN boards
      PROVE  /\ boards[i].model \in Models /\ boards[i].camera \in Cameras
             /\ <<boards[i].model, boards[i].camera>> \in Edges
             /\ surveyType \in Spectra[boards[i].camera] /\ boards[i].pad \in 1 .. pads
  BY DEF Submit, BoardsValid, Offered
<1>3. CardIds(sent') = DOMAIN boards
  BY <1>1 DEF CardIds
<1>4. Mismatched(sent') = {}
  BY <1>1, <1>2, <1>3 DEF Mismatched, Fits
<1>5. \A i \in DOMAIN boards : boards[i].pad \in PadIds(sent')
  <2>1. PadIds(sent') = { sent'.pads[n] : n \in 1 .. pads }
    BY <1>1 DEF PadIds
  <2>2. \A n \in 1 .. pads : sent'.pads[n] = n
    BY <1>1
  <2>3. QED BY <1>2, <2>1, <2>2
<1>6. QED BY <1>1, <1>2, <1>3, <1>4, <1>5 DEF SentFits, Known, Compatible

LEMMA FleetStart ==
  ASSUME FormInit(NoFile, <<EmptyBoard>>)
  PROVE  FleetInv
<1>1. pads = 1 /\ boards = <<EmptyBoard>> /\ sent = <<>>
  BY DEF FormInit
<1>2. Choice(EmptyBoard, surveyType, 1)
  BY DEF EmptyBoard, Choice, Board
<1>3. EmptyBoard \in Board
  BY <1>2 DEF Choice
<1>4. QED BY <1>1, <1>2, <1>3, FormAssumption DEF FleetInv, SentFits, Offers, Chosen

LEMMA FleetInvStep ==
  ASSUME FleetInv, [FormNext]_formVars
  PROVE  FleetInv'
<1>1. CASE FleetStep
  <2>1. sent' = sent
    BY <1>1 DEF FleetStep, ChangeAerodromeCount, AddBoard, RemoveBoard, ChangeModel,
                ChangeCamera, ChangeAerodrome, ChangeCount, ChangeSurveyType
  <2>2. QED BY <1>1, <2>1, FleetMoves DEF FleetInv, SentFits
<1>2. CASE Submit
  <2>1. UNCHANGED fleetVars
    BY <1>2 DEF Submit
  <2>2. QED BY <1>2, <2>1, SubmitFits DEF FleetInv, Offers, Chosen, fleetVars
<1>3. CASE UNCHANGED <<fleetVars, sent>>
  BY <1>3 DEF FleetInv, Offers, Chosen, SentFits, fleetVars
<1>4. QED BY <1>1, <1>2, <1>3, FilesKeepFleet DEF FormNext, formVars

(* The board cards and validateScenarioInputs: after any edits in any order no
   camera or aerodrome is left chosen that is no longer offered, and of a scenario
   that was sent the server finds no card unknown, incompatible, of another
   spectrum or without its aerodrome. *)
THEOREM ChoicesStayOffered == FormSpec => []OnlyOfferedChosen
<1>1. FormInit(NoFile, <<EmptyBoard>>) => FleetInv
  BY FleetStart
<1>2. FleetInv /\ [FormNext]_formVars => FleetInv'
  BY FleetInvStep
<1>3. FleetInv => OnlyOfferedChosen
  <2>1. ASSUME Offers, NEW i \in DOMAIN boards
        PROVE  Choice(boards[i], surveyType, pads)
    BY <2>1 DEF Offers, Chosen
  <2>2. QED BY <2>1 DEF FleetInv, SentFits, OnlyOfferedChosen, Choice
<1>4. QED BY <1>1, <1>2, <1>3, PTL DEF FormSpec

(* A submit sends the files and the choices of the screen: both of the above. *)
THEOREM PicksStayKept == FormSpec => []PicksKept
<1>1. PicksKept <=> LastPickWins /\ OnlyOfferedChosen
  BY DEF PicksKept
<1>2. QED BY <1>1, LastPickStays, ChoicesStayOffered, PTL

-----------------------------------------------------------------------------
(* Documents *)

(* What is looked up on the way out of a node is looked up at the first stop. *)
Climbs(g, len, in, stops, value) ==
  g = [k \in 0 .. len |-> IF k \in stops THEN value[k] ELSE g[in[k]]]

LEMMA ClimbExists ==
  ASSUME NEW len \in Nat, NEW in, \A k \in 1 .. len : in[k] \in 0 .. k - 1,
         NEW stops, 0 \in stops, NEW value
  PROVE  \E g : Climbs(g, len, in, stops, value)
<1> DEFINE Upto(n, g) == Climbs(g, n, in, stops, value)
           Bad == { n \in 0 .. len : ~ \E g : Upto(n, g) }
<1>1. SUFFICES ASSUME Bad # {} PROVE FALSE
  <2>1. len \in 0 .. len
    OBVIOUS
  <2>2. QED BY <2>1
<1>2. PICK n \in Bad : \A m \in Bad : n <= m
  <2>1. Bad \subseteq Nat
    OBVIOUS
  <2> HIDE DEF Bad
  <2>2. QED BY <1>1, <2>1, LeastNumber
<1>3. n # 0
  <2>1. Upto(0, [k \in 0 .. 0 |-> value[k]])
    BY DEF Climbs
  <2> HIDE DEF Upto
  <2>2. QED BY <2>1
<1>4. n \in 1 .. len /\ n - 1 \in 0 .. len /\ n - 1 \notin Bad
  BY <1>2, <1>3
<1>5. PICK g : Upto(n - 1, g)
  BY <1>4
<1> DEFINE h == [k \in 0 .. n |-> IF k = n THEN IF n \in stops THEN value[n] ELSE g[in[n]] ELSE g[k]]
<1>6. \A k \in 0 .. n - 1 : h[k] = g[k]
  BY <1>4
<1>7. \A k \in 0 .. n : h[k] = IF k \in stops THEN value[k] ELSE h[in[k]]
  <2>1. ASSUME NEW k \in 0 .. n - 1
        PROVE  h[k] = IF k \in stops THEN value[k] ELSE h[in[k]]
    <3>1. g[k] = IF k \in stops THEN value[k] ELSE g[in[k]]
      BY <1>5 DEF Climbs
    <3>2. k \notin stops => in[k] \in 0 .. n - 1
      BY <1>4
    <3> HIDE DEF h
    <3>3. QED BY <1>6, <3>1, <3>2
  <2>2. h[n] = IF n \in stops THEN value[n] ELSE h[in[n]]
    <3>1. in[n] \in 0 .. n - 1
      BY <1>4
    <3>2. h[in[n]] = g[in[n]]
      <4> HIDE DEF h
      <4>1. QED BY <1>6, <3>1
    <3>3. h[n] = IF n \in stops THEN value[n] ELSE g[in[n]]
      BY <1>4
    <3> HIDE DEF h
    <3>4. QED BY <3>2, <3>3
  <2>3. \A k \in 0 .. n : k = n \/ k \in 0 .. n - 1
    BY <1>4
  <2> HIDE DEF h
  <2>4. QED BY <2>1, <2>2, <2>3
<1>8. Upto(n, h)
  <2>1. h = [k \in 0 .. n |-> h[k]]
    OBVIOUS
  <2> HIDE DEF h
  <2>2. QED BY <1>7, <2>1 DEF Climbs
<1>9. QED
  <2> HIDE DEF Upto, h
  <2>1. QED BY <1>2, <1>8

LEMMA Shape ==
  ASSUME NEW doc, IsDocument(doc)
  PROVE  /\ Len(doc) \in Nat /\ Nodes(doc) = 1 .. Len(doc)
         /\ \A n \in 1 .. Len(doc) : doc[n].in \in 0 .. n - 1 /\ doc[n].text \in Seq(Tokens)
BY DEF IsDocument, Nodes

(* What is the nearest of a tag is one of those a node is in. *)
LEMMA NearestIsAround ==
  ASSUME NEW doc, IsDocument(doc), NEW n \in Nodes(doc), NEW tag,
         Nearest(doc, n, tag) # 0
  PROVE  Within(doc, n, Nearest(doc, n, tag))
<1> DEFINE len == Len(doc)
           in == [k \in 1 .. len |-> doc[k].in]
           m == Nearest(doc, n, tag)
           Above(g) == g = [k \in 0 .. len |->
             IF k = 0 THEN 0 ELSE IF doc[k].tag = tag THEN k ELSE g[doc[k].in]]
           Under(g) == g = [k \in 0 .. len |-> k = m \/ (k # 0 /\ g[doc[k].in])]
<1>1. len \in Nat /\ Nodes(doc) = 1 .. len /\ \A k \in 1 .. len : in[k] \in 0 .. k - 1 /\ in[k] = doc[k].in
  BY Shape
<1>2. PICK a : Above(a)
  <2> DEFINE stops == {0} \cup { k \in 1 .. len : doc[k].tag = tag }
             value == [k \in 0 .. len |-> k]
  <2>1. PICK g : Climbs(g, len, in, stops, value)
    <3>1. len \in Nat /\ 0 \in stops /\ \A k \in 1 .. len : in[k] \in 0 .. k - 1
      BY <1>1
    <3> HIDE DEF in, len, value, stops
    <3>2. QED BY <3>1, ClimbExists
  <2>2. \A k \in 0 .. len : (IF k \in stops THEN value[k] ELSE g[in[k]])
          = IF k = 0 THEN 0 ELSE IF doc[k].tag = tag THEN k ELSE g[doc[k].in]
    <3> HIDE DEF in, len
    <3>1. QED BY <1>1
  <2>3. Above(g)
    <3> HIDE DEF in, len, value, stops
    <3>1. QED BY <2>1, <2>2 DEF Climbs
  <2> HIDE DEF Above
  <2>4. QED BY <2>3
<1>3. PICK u : Under(u)
  <2> DEFINE stops == {0, m}
             value == [k \in 0 .. len |-> IF k = m THEN 1 ELSE 0]
  <2>1. PICK g : Climbs(g, len, in, stops, value)
    <3>1. len \in Nat /\ 0 \in stops /\ \A k \in 1 .. len : in[k] \in 0 .. k - 1
      BY <1>1
    <3> HIDE DEF in, len, value, stops, m
    <3>2. QED BY <3>1, ClimbExists
  <2> DEFINE h == [k \in 0 .. len |-> g[k] = 1]
  <2>2. \A k \in 0 .. len : h[k] = (k = m \/ (k # 0 /\ h[doc[k].in]))
    <3> SUFFICES ASSUME NEW k \in 0 .. len PROVE h[k] = (k = m \/ (k # 0 /\ h[doc[k].in]))
      OBVIOUS
    <3>1. g[k] = IF k \in stops THEN value[k] ELSE g[in[k]]
      <4> HIDE DEF in, len, value, stops
      <4>1. QED BY <2>1 DEF Climbs
    <3>2. k # 0 => doc[k].in \in 0 .. len /\ in[k] = doc[k].in
      <4> HIDE DEF in, len
      <4>1. QED BY <1>1
    <3>3. h[k] = (g[k] = 1) /\ (k # 0 => h[doc[k].in] = (g[in[k]] = 1))
      <4> HIDE DEF in, len, m, stops, value
      <4>1. QED BY <3>2
    <3>4. g[k] = IF k = m THEN 1 ELSE IF k = 0 THEN 0 ELSE g[in[k]]
      <4> HIDE DEF in, len, m
      <4>1. QED BY <3>1
    <3>5. (g[k] = 1) = (k = m \/ (k # 0 /\ g[in[k]] = 1))
      <4> HIDE DEF in, len, m
      <4>1. QED BY <3>4
    <3> HIDE DEF in, len, m, h
    <3>6. QED BY <3>3, <3>5
  <2>3. Under(h)
    <3>1. h = [k \in 0 .. len |-> h[k]]
      OBVIOUS
    <3> HIDE DEF h, len, m
    <3>2. QED BY <2>2, <3>1
  <2> HIDE DEF Under
  <2>4. QED BY <2>3
<1>4. Above(CHOOSE g : Above(g)) /\ Under(CHOOSE g : Under(g))
  <2> HIDE DEF Above, Under
  <2>1. QED BY <1>2, <1>3
<1> DEFINE above == CHOOSE g : Above(g)
           under == CHOOSE g : Under(g)
<1> HIDE DEF Above, Under
<1>9. Above(above) /\ Under(under)
  BY <1>4
<1> USE DEF Above, Under
<1>5. m = above[doc[n].in] /\ Within(doc, n, m) = under[doc[n].in]
  <2>1. m = above[doc[n].in]
    BY DEF Nearest
  <2> HIDE DEF m
  <2>2. Within(doc, n, m) = under[doc[n].in]
    BY DEF Within
  <2>3. QED BY <2>1, <2>2
<1>6. \A k \in 0 .. len : above[k] = m => under[k]
  <2> DEFINE Bad == { k \in 0 .. len : above[k] = m /\ ~under[k] }
  <2>1. SUFFICES ASSUME Bad # {} PROVE FALSE
    OBVIOUS
  <2>2. PICK k \in Bad : \A j \in Bad : k <= j
    <3>1. Bad \subseteq Nat
      BY <1>1
    <3> HIDE DEF Bad
    <3>2. QED BY <2>1, <3>1, LeastNumber
  <2>9. k \in 0 .. len /\ above[k] = m /\ ~under[k]
    BY <2>2
  <2>3. above[k] = IF k = 0 THEN 0 ELSE IF doc[k].tag = tag THEN k ELSE above[doc[k].in]
    <3> HIDE DEF above, under, len, m
    <3>1. QED BY <1>9, <2>9
  <2>4. under[k] = (k = m \/ (k # 0 /\ under[doc[k].in]))
    <3> HIDE DEF above, under, len, m
    <3>1. QED BY <1>9, <2>9
  <2>5. k # 0 /\ above[doc[k].in] = m /\ ~under[doc[k].in]
    <3> HIDE DEF above, under, len, m
    <3>1. m # 0
      BY DEF m
    <3>2. QED BY <2>9, <2>3, <2>4, <3>1
  <2>6. doc[k].in \in 0 .. k - 1 /\ k \in 0 .. len
    <3> HIDE DEF len, Bad
    <3>1. k \in 0 .. len
      BY <2>2 DEF Bad
    <3>2. QED BY <1>1, <2>5, <3>1
  <2>7. doc[k].in \in Bad /\ doc[k].in < k
    <3> HIDE DEF above, under, len, m
    <3>1. QED BY <1>1, <2>5, <2>6
  <2> HIDE DEF Bad
  <2>8. QED BY <2>2, <2>6, <2>7
<1>7. doc[n].in \in 0 .. len
  <2> HIDE DEF len
  <2>1. QED BY <1>1
<1>8. QED
  <2> HIDE DEF above, under, len, m
  <2>1. Within(doc, n, m)
    BY <1>5, <1>6, <1>7
  <2>2. QED BY <2>1 DEF m

(* The outer ring's text is a text of the document. *)
LEMMA TextOfDocument ==
  ASSUME NEW doc, IsDocument(doc), NEW p
  PROVE  OuterText(doc, p) \in Seq(Tokens)
<1> DEFINE outers == { n \in Tagged(doc, "outer") : Nearest(doc, n, "Polygon") = p }
           texts == { n \in Tagged(doc, "coordinates") :
                        Nearest(doc, n, "Polygon") = p /\ Within(doc, n, Earliest(outers)) }
<1>1. OuterText(doc, p) = IF outers = {} \/ texts = {} THEN <<>> ELSE doc[Earliest(texts)].text
  BY DEF OuterText
<1>2. texts \subseteq Nodes(doc)
  BY DEF Tagged
<1>3. texts # {} => Earliest(texts) \in texts
  <2>1. texts # {} => \E n \in texts : \A k \in texts : n <= k
    <3>1. texts \subseteq Nat
      BY <1>2, Shape
    <3> HIDE DEF texts
    <3>2. QED BY <3>1, LeastNumber
  <2> HIDE DEF texts
  <2>2. QED BY <2>1 DEF Earliest
<1> HIDE DEF outers, texts
<1>4. CASE OuterText(doc, p) = <<>>
  BY <1>4
<1>5. CASE \E n \in Nodes(doc) : OuterText(doc, p) = doc[n].text
  <2>1. PICK n \in Nodes(doc) : OuterText(doc, p) = doc[n].text
    BY <1>5
  <2>2. doc[n].text \in Seq(Tokens)
    BY Shape
  <2>3. QED BY <2>1, <2>2
<1>6. QED BY <1>1, <1>2, <1>3, <1>4, <1>5

(* Readers that take the same of a text's tokens keep the same points. *)
LEMMA KeptAlike ==
  ASSUME NEW text \in Seq(Tokens), NEW P, NEW Q,
         \A k \in DOMAIN text : text[k] \in P <=> text[k] \in Q
  PROVE  Kept(text, P) = Kept(text, Q)
<1> DEFINE Keeps(g, points) == g = [k \in 0 .. Len(text) |->
             IF k = 0 THEN <<>>
             ELSE IF text[k] \in points THEN Append(g[k - 1], text[k].at) ELSE g[k - 1]]
<1>1. \A k \in 0 .. Len(text) : k # 0 => (text[k] \in P <=> text[k] \in Q)
  OBVIOUS
<1>2. \A g : Keeps(g, P) <=> Keeps(g, Q)
  BY <1>1
<1>3. (CHOOSE g : Keeps(g, P)) = (CHOOSE g : Keeps(g, Q))
  <2> HIDE DEF Keeps
  <2>1. QED BY <1>2, Zenon
<1>4. Kept(text, P) = (CHOOSE g : Keeps(g, P))[Len(text)]
      /\ Kept(text, Q) = (CHOOSE g : Keeps(g, Q))[Len(text)]
  BY DEF Kept
<1>5. QED
  <2> HIDE DEF Keeps
  <2>1. QED BY <1>3, <1>4

(* A polygon is of one placemark: its nearest. *)
LEMMA RingsOf ==
  ASSUME NEW doc, NEW taken, NEW part, NEW r \in Rings(doc, taken, part)
  PROVE  /\ r.polygon \in Tagged(doc, "Polygon") /\ r.placemark \in Tagged(doc, "Placemark")
         /\ r.polygon \in Nodes(doc) /\ r.placemark \in Nodes(doc)
         /\ r.placemark = Nearest(doc, r.polygon, "Placemark")
         /\ r.data = Fields(doc, r.placemark, part)
         /\ r.points = Kept(OuterText(doc, r.polygon), taken)
         /\ Len(r.points) >= 3
         /\ r = [polygon |-> r.polygon, placemark |-> r.placemark,
                 data |-> r.data, points |-> r.points]
<1>1. PICK x \in Tagged(doc, "Polygon") \X Tagged(doc, "Placemark") :
        /\ Belongs(doc, x[1], x[2])
        /\ r = [polygon |-> x[1], placemark |-> x[2], data |-> Fields(doc, x[2], part),
                points |-> Kept(OuterText(doc, x[1]), taken)]
        /\ Len(r.points) >= 3
  BY DEF Rings
<1>2. x[1] \in Nodes(doc) /\ x[2] \in Nodes(doc) /\ x[2] = Nearest(doc, x[1], "Placemark")
  BY <1>1 DEF Tagged, Belongs
<1>3. QED BY <1>1, <1>2

(* And every polygon of a placemark with three points is a ring. *)
LEMMA RingOf ==
  ASSUME NEW doc, NEW taken, NEW part,
         NEW p \in Tagged(doc, "Polygon"), NEW m \in Tagged(doc, "Placemark"),
         m = Nearest(doc, p, "Placemark"), Len(Kept(OuterText(doc, p), taken)) >= 3
  PROVE  [polygon |-> p, placemark |-> m, data |-> Fields(doc, m, part),
          points |-> Kept(OuterText(doc, p), taken)] \in Rings(doc, taken, part)
<1> DEFINE owned == { x \in Tagged(doc, "Polygon") \X Tagged(doc, "Placemark") : Belongs(doc, x[1], x[2]) }
           Ring(x) == [polygon |-> x[1], placemark |-> x[2], data |-> Fields(doc, x[2], part),
                       points |-> Kept(OuterText(doc, x[1]), taken)]
<1>1. <<p, m>> \in owned
  BY DEF Belongs
<1>2. Rings(doc, taken, part) = { r \in { Ring(x) : x \in owned } : Len(r.points) >= 3 }
  BY DEF Rings
<1>3. Ring(<<p, m>>) = [polygon |-> p, placemark |-> m, data |-> Fields(doc, m, part),
                        points |-> Kept(OuterText(doc, p), taken)]
  OBVIOUS
<1>4. Ring(<<p, m>>).points = Kept(OuterText(doc, p), taken)
  OBVIOUS
<1> HIDE DEF owned, Ring
<1>5. QED BY <1>1, <1>2, <1>3, <1>4

LEMMA OncePerPolygon ==
  ASSUME NEW doc, IsDocument(doc), NEW taken, NEW part
  PROVE  Cardinality({ r.polygon : r \in Rings(doc, taken, part) }) = Cardinality(Rings(doc, taken, part))
<1> DEFINE rings == Rings(doc, taken, part)
           polygons == { r.polygon : r \in rings }
           ring == [ p \in polygons |-> CHOOSE r \in rings : r.polygon = p ]
<1>1. polygons \subseteq 1 .. Len(doc) /\ Len(doc) \in Nat
  <2>1. Len(doc) \in Nat /\ Nodes(doc) = 1 .. Len(doc)
    BY Shape
  <2>2. QED BY <2>1, RingsOf
<1>2. IsFiniteSet(polygons)
  <2> HIDE DEF polygons
  <2>1. IsFiniteSet(1 .. Len(doc))
    BY <1>1, FS_Interval
  <2>2. QED BY <1>1, <2>1, FS_Subset
<1>3. \A q, r \in rings : q.polygon = r.polygon => q = r
  <2>1. SUFFICES ASSUME NEW q \in rings, NEW r \in rings, q.polygon = r.polygon
                 PROVE  q = r
    OBVIOUS
  <2>2. /\ q = [polygon |-> q.polygon, placemark |-> q.placemark, data |-> q.data, points |-> q.points]
        /\ q.placemark = Nearest(doc, q.polygon, "Placemark")
        /\ q.data = Fields(doc, q.placemark, part)
        /\ q.points = Kept(OuterText(doc, q.polygon), taken)
    BY RingsOf
  <2>3. /\ r = [polygon |-> r.polygon, placemark |-> r.placemark, data |-> r.data, points |-> r.points]
        /\ r.placemark = Nearest(doc, r.polygon, "Placemark")
        /\ r.data = Fields(doc, r.placemark, part)
        /\ r.points = Kept(OuterText(doc, r.polygon), taken)
    BY RingsOf
  <2>4. q.placemark = r.placemark /\ q.data = r.data /\ q.points = r.points
    BY <2>1, <2>2, <2>3, Zenon
  <2> HIDE DEF rings
  <2>5. QED BY <2>1, <2>2, <2>3, <2>4, Zenon
<1> HIDE DEF rings
<1>4. \A r \in rings : ring[r.polygon] = r
  BY <1>3
<1>5. \A p \in polygons : ring[p] \in rings /\ ring[p].polygon = p
  BY <1>4
<1>6. ring \in Bijection(polygons, rings)
  <2>1. ring \in [polygons -> rings]
    BY <1>5
  <2>2. \A p, q \in polygons : ring[p] = ring[q] => p = q
    <3> HIDE DEF ring, polygons
    <3>1. QED BY <1>5
  <2>3. \A r \in rings : r.polygon \in polygons /\ ring[r.polygon] = r
    BY <1>4
  <2> HIDE DEF ring, polygons
  <2>4. QED BY <2>1, <2>2, <2>3 DEF Bijection, Injection, Surjection, IsInjective
<1>7. ExistsBijection(polygons, rings)
  <2> HIDE DEF ring, polygons
  <2>1. QED BY <1>6 DEF ExistsBijection
<1>8. QED
  <2>1. Cardinality(rings) = Cardinality(polygons)
    <3> HIDE DEF polygons
    <3>1. QED BY <1>2, <1>7, FS_Bijection
  <2>2. QED BY <2>1 DEF rings

LEMMA RingsInside ==
  ASSUME NEW doc, IsDocument(doc), NEW taken, NEW part, NEW r \in Rings(doc, taken, part)
  PROVE  Within(doc, r.polygon, r.placemark)
<1>1. r.polygon \in Nodes(doc) /\ r.placemark \in Nodes(doc)
      /\ r.placemark = Nearest(doc, r.polygon, "Placemark")
  BY RingsOf
<1>2. r.placemark # 0
  BY <1>1, Shape
<1>3. QED BY <1>1, <1>2, NearestIsAround

(* Readers that take the same of every outer text find the same rings. *)
LEMMA RingsAlike ==
  ASSUME NEW doc, IsDocument(doc), NEW P, NEW Q, NEW part,
         \A p \in Tagged(doc, "Polygon") : Nearest(doc, p, "Placemark") # 0 =>
           \A k \in DOMAIN OuterText(doc, p) : OuterText(doc, p)[k] \in P <=> OuterText(doc, p)[k] \in Q
  PROVE  Rings(doc, P, part) = Rings(doc, Q, part)
<1>1. ASSUME NEW A, NEW B, NEW r \in Rings(doc, A, part),
             \A p \in Tagged(doc, "Polygon") : Nearest(doc, p, "Placemark") # 0 =>
               \A k \in DOMAIN OuterText(doc, p) : OuterText(doc, p)[k] \in A <=> OuterText(doc, p)[k] \in B
      PROVE  r \in Rings(doc, B, part)
  <2> DEFINE text == OuterText(doc, r.polygon)
  <2>1. /\ r.polygon \in Tagged(doc, "Polygon") /\ r.placemark \in Tagged(doc, "Placemark")
        /\ r.placemark \in Nodes(doc) /\ r.placemark = Nearest(doc, r.polygon, "Placemark")
        /\ r.data = Fields(doc, r.placemark, part) /\ r.points = Kept(text, A) /\ Len(r.points) >= 3
        /\ r = [polygon |-> r.polygon, placemark |-> r.placemark, data |-> r.data, points |-> r.points]
    BY <1>1, RingsOf
  <2>2. r.placemark # 0
    BY <2>1, Shape
  <2>3. text \in Seq(Tokens)
    BY TextOfDocument
  <2>4. \A k \in DOMAIN text : text[k] \in A <=> text[k] \in B
    BY <1>1, <2>1, <2>2
  <2> HIDE DEF text
  <2>5. Kept(text, A) = Kept(text, B)
    BY <2>3, <2>4, KeptAlike
  <2> USE DEF text
  <2>6. [polygon |-> r.polygon, placemark |-> r.placemark, data |-> Fields(doc, r.placemark, part),
         points |-> Kept(OuterText(doc, r.polygon), B)] \in Rings(doc, B, part)
    BY <2>1, <2>5, RingOf
  <2>7. QED BY <2>1, <2>5, <2>6, Zenon
<1>2. Rings(doc, P, part) \subseteq Rings(doc, Q, part)
  BY <1>1
<1>3. Rings(doc, Q, part) \subseteq Rings(doc, P, part)
  BY <1>1
<1>4. QED BY <1>2, <1>3

(* What one reader finds of a polygon on which another takes the same, the other
   finds too. *)
LEMMA FoundByBoth ==
  ASSUME NEW doc, IsDocument(doc), NEW A, NEW B, NEW one, NEW other,
         NEW r \in Rings(doc, A, one),
         \A k \in DOMAIN OuterText(doc, r.polygon) :
           OuterText(doc, r.polygon)[k] \in A <=> OuterText(doc, r.polygon)[k] \in B
  PROVE  \E q \in Rings(doc, B, other) : q.polygon = r.polygon /\ WithoutData(q) = WithoutData(r)
<1> DEFINE text == OuterText(doc, r.polygon)
           q == [polygon |-> r.polygon, placemark |-> r.placemark,
                 data |-> Fields(doc, r.placemark, other), points |-> Kept(text, B)]
<1>1. /\ r.polygon \in Tagged(doc, "Polygon") /\ r.placemark \in Tagged(doc, "Placemark")
      /\ r.placemark = Nearest(doc, r.polygon, "Placemark")
      /\ r.points = Kept(text, A) /\ Len(r.points) >= 3
  BY RingsOf
<1>2. Kept(text, A) = Kept(text, B)
  <2>1. text \in Seq(Tokens)
    BY TextOfDocument
  <2> HIDE DEF text
  <2>2. \A k \in DOMAIN text : text[k] \in A <=> text[k] \in B
    BY DEF text
  <2>3. QED BY <2>1, <2>2, KeptAlike
<1>3. q \in Rings(doc, B, other)
  BY <1>1, <1>2, RingOf
<1>4. q.polygon = r.polygon /\ q.placemark = r.placemark /\ q.points = r.points
  BY <1>1, <1>2
<1> HIDE DEF q
<1>5. QED BY <1>3, <1>4 DEF WithoutData

(* The latest of some nodes is one of them. *)
LEMMA LatestIsOne ==
  ASSUME NEW doc, IsDocument(doc), NEW S, S \subseteq Nodes(doc), S # {}
  PROVE  Latest(S) \in S
<1> DEFINE len == Len(doc)
           Left == { len - n : n \in S }
<1>1. len \in Nat /\ Nodes(doc) = 1 .. len
  BY Shape
<1> HIDE DEF len
<1>2. Left \subseteq Nat /\ Left # {}
  BY <1>1
<1>3. PICK x \in Left : \A y \in Left : x <= y
  <2> HIDE DEF Left
  <2>1. QED BY <1>2, LeastNumber
<1>4. PICK n \in S : x = len - n
  BY <1>3
<1>5. \A k \in S : k <= n
  <2>1. SUFFICES ASSUME NEW k \in S PROVE k <= n
    OBVIOUS
  <2>2. len - n <= len - k
    BY <1>3, <1>4
  <2>3. n \in Int /\ k \in Int /\ len \in Int
    BY <1>1
  <2>4. QED BY <2>2, <2>3
<1>6. QED BY <1>5 DEF Latest

(* A placemark in whose values there is no element has the same data for all. *)
LEMMA FieldsAlike ==
  ASSUME NEW doc, IsDocument(doc), NEW m, SameData(doc, m)
  PROVE  Fields(doc, m, "whole") = Fields(doc, m, "lead")
<1> DEFINE whole == Carriers(doc, m, "Data", "whole")
           lead == Carriers(doc, m, "Data", "lead")
<1>1. whole = lead /\ \A n \in whole : doc[n]["whole"] = doc[n]["lead"]
  BY DEF Carriers, SameData
<1>2. whole \subseteq Nodes(doc)
  BY DEF Carriers, Tagged
<1>3. \A key : { n \in whole : doc[n].key = key } # {} =>
        Latest({ n \in whole : doc[n].key = key }) \in whole
  <2>1. SUFFICES ASSUME NEW key, { n \in whole : doc[n].key = key } # {}
                 PROVE  Latest({ n \in whole : doc[n].key = key }) \in whole
    OBVIOUS
  <2> DEFINE S == { n \in whole : doc[n].key = key }
  <2>2. S \subseteq Nodes(doc) /\ S \subseteq whole /\ S # {}
    BY <1>2, <2>1
  <2> HIDE DEF S
  <2>3. Latest(S) \in whole
    BY <2>2, LatestIsOne
  <2>4. QED BY <2>3 DEF S
<1>4. QED BY <1>1, <1>3 DEF Fields

(* SurveyReadAlike of one document. *)
ReadAlike(doc) ==
  LET browser == BrowserReads(doc)
      runtime == RuntimeReads(doc)
  IN /\ \A rings \in {browser, runtime} :
          /\ Cardinality({ r.polygon : r \in rings }) = Cardinality(rings)
          /\ \A r \in rings : Within(doc, r.polygon, r.placemark)
     /\ WorkerReads(doc) = IntegrationReads(doc)
     /\ IntegrationReads(doc) =
          IF OutOfDegrees(doc) \/ runtime = {} THEN Refused ELSE Areas(doc, runtime)
     /\ { WithoutData(r) : r \in { q \in browser : SamePoints(doc, q.polygon) } }
          = { WithoutData(r) : r \in { q \in runtime : SamePoints(doc, q.polygon) } }
     /\ \A r \in browser, q \in runtime :
          r.placemark = q.placemark /\ SameData(doc, r.placemark) => r.data = q.data

LEMMA DocumentReadAlike ==
  ASSUME NEW doc, IsDocument(doc)
  PROVE  ReadAlike(doc)
<1> DEFINE browser == BrowserReads(doc)
           runtime == RuntimeReads(doc)
<1>1. \A rings \in {browser, runtime} :
        /\ Cardinality({ r.polygon : r \in rings }) = Cardinality(rings)
        /\ \A r \in rings : Within(doc, r.polygon, r.placemark)
  BY OncePerPolygon, RingsInside DEF BrowserReads, RuntimeReads
<1>2. WorkerReads(doc) = IntegrationReads(doc)
  BY DEF WorkerReads, IntegrationReads, WorkerTokens, IntegrationTokens
<1>3. IntegrationReads(doc) =
        IF OutOfDegrees(doc) \/ runtime = {} THEN Refused ELSE Areas(doc, runtime)
  <2>1. CASE OutOfDegrees(doc)
    BY <2>1 DEF IntegrationReads
  <2>2. CASE ~OutOfDegrees(doc)
    <3>1. ASSUME NEW p \in Tagged(doc, "Polygon"), Nearest(doc, p, "Placemark") # 0,
                 NEW k \in DOMAIN OuterText(doc, p)
          PROVE  OuterText(doc, p)[k] \in IntegrationTokens <=> OuterText(doc, p)[k] \in RuntimeTokens
      <4> DEFINE t == OuterText(doc, p)[k]
      <4>1. t \in Tokens
        BY <3>1, TextOfDocument
      <4>2. t.float # "outside"
        BY <2>2, <3>1 DEF OutOfDegrees
      <4>3. t.float \in {"none", "within", "outside"}
        BY <4>1 DEF Tokens
      <4> HIDE DEF t
      <4>4. t \in IntegrationTokens <=> t \in RuntimeTokens
        BY <4>1, <4>2, <4>3 DEF IntegrationTokens, RuntimeTokens
      <4>5. QED BY <4>4 DEF t
    <3>2. Rings(doc, IntegrationTokens, "lead") = runtime
      BY <3>1, RingsAlike DEF RuntimeReads
    <3> HIDE DEF runtime
    <3>3. QED BY <2>2, <3>2 DEF IntegrationReads
  <2>3. QED BY <2>1, <2>2
<1>4. ASSUME NEW p, SamePoints(doc, p), NEW k \in DOMAIN OuterText(doc, p)
      PROVE  OuterText(doc, p)[k] \in BrowserTokens <=> OuterText(doc, p)[k] \in RuntimeTokens
  <2>1. OuterText(doc, p)[k] \in Tokens
    BY <1>4, TextOfDocument
  <2>2. QED BY <1>4, <2>1 DEF SamePoints, BrowserTokens, RuntimeTokens
<1>5. { WithoutData(r) : r \in { q \in browser : SamePoints(doc, q.polygon) } }
        = { WithoutData(r) : r \in { q \in runtime : SamePoints(doc, q.polygon) } }
  <2>1. ASSUME NEW r \in browser, SamePoints(doc, r.polygon)
        PROVE  \E q \in runtime : q.polygon = r.polygon /\ WithoutData(q) = WithoutData(r)
    BY <1>4, <2>1, FoundByBoth DEF BrowserReads, RuntimeReads
  <2>2. ASSUME NEW r \in runtime, SamePoints(doc, r.polygon)
        PROVE  \E q \in browser : q.polygon = r.polygon /\ WithoutData(q) = WithoutData(r)
    BY <1>4, <2>2, FoundByBoth DEF BrowserReads, RuntimeReads
  <2> HIDE DEF browser, runtime
  <2>3. ASSUME NEW r \in { q \in browser : SamePoints(doc, q.polygon) }
        PROVE  \E q \in { x \in runtime : SamePoints(doc, x.polygon) } : WithoutData(q) = WithoutData(r)
    BY <2>1, <2>3
  <2>4. ASSUME NEW r \in { q \in runtime : SamePoints(doc, q.polygon) }
        PROVE  \E q \in { x \in browser : SamePoints(doc, x.polygon) } : WithoutData(q) = WithoutData(r)
    BY <2>2, <2>4
  <2>5. QED BY <2>3, <2>4
<1>6. ASSUME NEW r \in browser, NEW q \in runtime,
             r.placemark = q.placemark, SameData(doc, r.placemark)
      PROVE  r.data = q.data
  <2>1. r.data = Fields(doc, r.placemark, "whole")
    BY RingsOf DEF BrowserReads
  <2>2. q.data = Fields(doc, q.placemark, "lead")
    BY RingsOf DEF RuntimeReads
  <2>3. QED BY <1>6, <2>1, <2>2, FieldsAlike
<1>7. QED
  <2> HIDE DEF browser, runtime
  <2>1. QED BY <1>1, <1>2, <1>3, <1>5, <1>6 DEF ReadAlike, browser, runtime

(* What is shown is a file that was picked. *)
ShownFiles ==
  /\ \A r \in reads : r.file \in DOMAIN Files
  /\ DOMAIN shown = Categories
  /\ \A c \in Categories : shown[c] = NoFile \/ shown[c].file \in DOMAIN Files

LEMMA ShownFilesStep ==
  ASSUME ShownFiles, [FormNext]_formVars
  PROVE  ShownFiles'
<1>1. ASSUME NEW c \in Categories, NEW f \in DOMAIN Files, PickFile(c, f)
      PROVE  ShownFiles'
  BY <1>1 DEF ShownFiles, PickFile
<1>2. ASSUME NEW r \in reads, FinishRead(r)
      PROVE  ShownFiles'
  BY <1>2 DEF ShownFiles, FinishRead
<1>3. ASSUME NEW c \in Categories, RemoveFile(c)
      PROVE  ShownFiles'
  BY <1>3 DEF ShownFiles, RemoveFile
<1>4. CASE UNCHANGED fileVars
  BY <1>4 DEF ShownFiles, fileVars
<1>5. QED BY <1>1, <1>2, <1>3, <1>4, FleetKeepsFiles DEF FormNext, FileStep, formVars

(* kml.ts, kml_rings.py, kml/constraints.py and the worker's copy of it: whatever
   survey the form may send, each polygon is read once, of a placemark it is in;
   the worker's copy agrees with the original, which takes the rings of kml_rings
   or refuses the document; and where a text or a placemark gives the form and
   kml_rings no reason to differ, they do not. *)
THEOREM SurveysReadAlike == FormSpec => []SurveyReadAlike
<1>1. FormInit(NoFile, <<EmptyBoard>>) => ShownFiles
  BY DEF FormInit, ShownFiles
<1>2. ShownFiles /\ [FormNext]_formVars => ShownFiles'
  BY ShownFilesStep
<1>3. ShownFiles => SurveyReadAlike
  <2>1. SUFFICES ASSUME ShownFiles, Ready(shown["survey_task"])
                 PROVE  ReadAlike(Files[shown["survey_task"].file])
    BY DEF SurveyReadAlike, ReadAlike
  <2>2. IsDocument(Files[shown["survey_task"].file])
    BY <2>1, FilesAssumption DEF ShownFiles, Ready, Categories
  <2>3. QED BY <2>2, DocumentReadAlike
<1>4. QED BY <1>1, <1>2, <1>3, PTL DEF FormSpec

-----------------------------------------------------------------------------
(* RouteLinks *)

Spots == DOMAIN Terrain

HolesAreParts ==
  /\ DOMAIN holes \subseteq Nat
  /\ \A i \in DOMAIN holes : holes[i] \in DOMAIN Area

LEMMA HolesStart ==
  ASSUME sortie \in Sorties, holes = HolesOf(sortie.constraints)
  PROVE  HolesAreParts
<1> USE LinksAssumption
<1> DEFINE all == sortie.constraints
<1>1. all \in Seq(SUBSET DOMAIN Area)
  BY DEF LinksAssumption
<1>2. DOMAIN all \subseteq Nat /\ \A i \in DOMAIN all : all[i] \subseteq DOMAIN Area
  BY <1>1
<1>3. ASSUME NEW i \in DOMAIN all, PolygonParts(all[i]) # {}
      PROVE  Cleaned(all[i]) \in DOMAIN Area
  <2> DEFINE parts == PolygonParts(all[i])
             areas == { Area[z] : z \in parts }
  <2>1. parts \subseteq DOMAIN Area /\ parts # {}
    BY <1>2, <1>3 DEF PolygonParts
  <2>2. IsFiniteSet(parts) /\ \A z \in DOMAIN Area : Area[z] \in Nat
    BY <2>1, FS_Subset DEF LinksAssumption
  <2> HIDE DEF parts
  <2>3. IsFiniteSet(areas) /\ areas \subseteq Nat /\ areas # {}
    <3> DEFINE f == [z \in parts |-> Area[z]]
    <3>1. f \in Surjection(parts, areas)
      BY DEF Surjection
    <3>2. areas \subseteq Nat /\ areas # {}
      BY <2>1, <2>2
    <3> HIDE DEF f, areas
    <3>3. QED BY <2>2, <3>1, <3>2, FS_Surjection
  <2>4. PICK m \in areas : \A x \in areas : x <= m
    <3> HIDE DEF areas
    <3>1. QED BY <2>3, LastOfFinite
  <2>5. \E z \in parts : \A y \in parts : Area[y] <= Area[z]
    BY <2>4
  <2>6. Cleaned(all[i]) \in parts
    BY <2>5 DEF Cleaned, parts
  <2>7. QED BY <2>1, <2>6
<1>4. QED BY <1>2, <1>3 DEF HolesOf, HolesAreParts

LEMMA WithinCount ==
  ASSUME NEW a \in Int, NEW b \in Nat \ {0}
  PROVE  (a % b) + 1 \in 1 .. b
<1>1. a % b \in 0 .. b - 1
  OBVIOUS
<1> DEFINE m == a % b
<1> HIDE DEF m
<1>2. m \in 0 .. b - 1 => m + 1 \in 1 .. b
  OBVIOUS
<1>3. QED BY <1>1, <1>2 DEF m

LEMMA DetourPoints ==
  ASSUME NEW p, NEW q, NEW z \in DOMAIN Area, NEW chain \in Detours(p, q, z)
  PROVE  chain \in Seq(Spots)
<1>1. Outline[z] \in Seq(Spots)
  BY LinksAssumption DEF LinksAssumption, Spots
<1>2. ASSUME NEW c \in Chains(z)
      PROVE  c \in Seq(Spots)
  <2> DEFINE count == Len(Outline[z])
             Corner(origin, i) == Outline[z][((origin + i - 1) % count) + 1]
  <2>1. count \in Nat
    BY <1>1
  <2>2. PICK origin \in 0 .. count - 1, n \in 1 .. count - 1 : c = [i \in 1 .. n |-> Corner(origin, i)]
    BY DEF Chains
  <2>3. ASSUME NEW i \in 1 .. n
        PROVE  Corner(origin, i) \in Spots
    <3> DEFINE x == origin + i - 1
    <3>1. x \in Int /\ count \in Nat \ {0}
      BY <2>1, <2>2
    <3>2. (x % count) + 1 \in 1 .. count
      <4> HIDE DEF x, count
      <4>1. QED BY <3>1, WithinCount
    <3>3. QED BY <1>1, <3>2
  <2> HIDE DEF Corner
  <2>4. QED BY <2>1, <2>2, <2>3
<1>3. <<>> \in Seq(Spots)
  OBVIOUS
<1>4. chain = <<>> \/ chain \in Chains(z)
  BY Zenon DEF Detours, WaysAround
<1>5. QED BY <1>2, <1>3, <1>4

(* What is clear up to a point and clear from it on is clear. *)
LEMMA ClearConcat ==
  ASSUME NEW s \in Seq(Spots), s # <<>>, NEW t \in Seq(Spots),
         ClearPath(s), ClearPath(<<s[Len(s)]>> \o t)
  PROVE  ClearPath(s \o t)
<1> DEFINE last == s[Len(s)]
           u == <<last>> \o t
           w == s \o t
<1>1. Len(s) \in Nat \ {0} /\ Len(t) \in Nat /\ last \in Spots
  BY EmptySeq, LenProperties, ElementOfSeq
<1>2. <<last>> \in Seq(Spots) /\ Len(<<last>>) = 1 /\ <<last>>[1] = last
  BY <1>1
<1>3. Len(u) = 1 + Len(t) /\ \A i \in 1 .. 1 + Len(t) : u[i] = IF i <= 1 THEN last ELSE t[i - 1]
  BY <1>1, <1>2, ConcatProperties
<1>4. Len(w) = Len(s) + Len(t) /\ \A i \in 1 .. Len(s) + Len(t) : w[i] = IF i <= Len(s) THEN s[i] ELSE t[i - Len(s)]
  BY ConcatProperties
<1>5. \A i \in 1 .. Len(s) - 1 : Clear(s[i], s[i + 1])
  BY DEF ClearPath
<1>6. \A i \in 1 .. Len(u) - 1 : Clear(u[i], u[i + 1])
  BY DEF ClearPath
<1> HIDE DEF u, w
<1>7. ASSUME NEW i \in 1 .. Len(w) - 1
      PROVE  Clear(w[i], w[i + 1])
  <2>1. CASE i < Len(s)
    <3>1. w[i] = s[i] /\ w[i + 1] = s[i + 1] /\ i \in 1 .. Len(s) - 1
      BY <1>1, <1>4, <2>1
    <3>2. QED BY <1>5, <3>1
  <2>2. CASE i >= Len(s)
    <3> DEFINE k == i - Len(s) + 1
    <3>1. k \in 1 .. Len(u) - 1
      BY <1>1, <1>3, <1>4, <2>2
    <3>2. w[i] = u[k]
      BY <1>1, <1>3, <1>4, <2>2
    <3>3. w[i + 1] = u[k + 1]
      BY <1>1, <1>3, <1>4, <2>2
    <3>4. QED BY <1>6, <3>1, <3>2, <3>3
  <2>3. QED BY <1>1, <1>4, <2>1, <2>2
<1>8. QED BY <1>7 DEF ClearPath, w

Samples == [kind : {"pad", "start", "end", "link"}, at : Spots, link : Nat]

LinkTypes ==
  /\ sortie \in Sorties /\ HolesAreParts
  /\ building \in {"link", "heights", "done", "raised"}
  /\ link \in 1 .. Len(Swaths) + 1 /\ pass \in 1 .. Passes
  /\ path \in Seq(Spots) /\ Len(path) >= 2 /\ target \in 2 .. Len(path) + 1
  /\ expanded \in Seq(Spots) /\ Len(expanded) >= target - 1
  /\ samples \in Seq(Samples) /\ samples # <<>>

(* The link that is being led: a pass has gone along the path as far as the
   target; without a bypass through another hole it is clear after one pass. *)
Leading ==
  building = "link" =>
    /\ path[1] = expanded[1] /\ expanded[1] = samples[Len(samples)].at
    /\ expanded[Len(expanded)] = path[target - 1]
    /\ ~changed => ClearPath(expanded)
    /\ link \notin entangled => ClearPath(expanded)
    /\ pass >= 2 /\ link \notin entangled => ClearPath(path) /\ ~changed

LegSettled(i) ==
  samples[i].kind = "start" \/ samples[i + 1].link \in stubborn
    \/ Clear(samples[i].at, samples[i + 1].at)

Flying ==
  /\ stubborn \subseteq entangled
  /\ \A i \in 1 .. Len(samples) - 1 : LegSettled(i)
  /\ building = "done" =>
       /\ waypoints = [i \in DOMAIN samples |->
                         [at |-> samples[i].at, alt |-> HeightOf(samples[Sampled(i)])]]
       /\ \A i \in DOMAIN samples : samples[i].kind # "link" => Terrain[samples[i].at] # NoHeight

LinkInv == LinkTypes /\ Leading /\ Flying

LEMMA SortieSpots ==
  ASSUME sortie \in Sorties
  PROVE  /\ sortie.takeoff \in Spots /\ sortie.landing \in Spots
         /\ Swaths \in Seq([start : Spots, end : Spots])
  BY LinksAssumption DEF LinksAssumption, Spots, Swaths

LEMMA SwathSpots ==
  ASSUME sortie \in Sorties, NEW i \in 1 .. Len(Swaths)
  PROVE  Swaths[i].start \in Spots /\ Swaths[i].end \in Spots
<1>1. Swaths \in Seq([start : Spots, end : Spots])
  BY SortieSpots
<1>2. Swaths[i] \in [start : Spots, end : Spots]
  BY <1>1, ElementOfSeq
<1>3. QED BY <1>2

LEMMA LinkStart == LinksInit => LinkInv
<1> SUFFICES ASSUME LinksInit PROVE LinkInv
  OBVIOUS
<1>1. sortie \in Sorties /\ HolesAreParts
  BY HolesStart DEF LinksInit
<1>2. Len(Swaths) \in Nat /\ Swaths \in Seq([start : Spots, end : Spots])
  BY <1>1, SortieSpots
<1> DEFINE first == IF Swaths = <<>> THEN sortie.landing ELSE Swaths[1].start
<1>3. first \in Spots /\ sortie.takeoff \in Spots
  <2>1. CASE Swaths = <<>>
    BY <1>1, <2>1, SortieSpots
  <2>2. CASE Swaths # <<>>
    <3>1. 1 \in 1 .. Len(Swaths)
      BY <1>2, <2>2
    <3>2. QED BY <1>1, <2>2, <3>1, SwathSpots, SortieSpots
  <2>3. QED BY <2>1, <2>2
<1> HIDE DEF first
<1>4. path = <<sortie.takeoff, first>> /\ expanded = <<sortie.takeoff>>
      /\ samples = <<[kind |-> "pad", at |-> sortie.takeoff, link |-> 0]>>
  BY DEF LinksInit, first
<1>5. path \in Seq(Spots) /\ Len(path) = 2 /\ path[1] = sortie.takeoff
      /\ expanded \in Seq(Spots) /\ Len(expanded) = 1 /\ expanded[1] = sortie.takeoff
  BY <1>3, <1>4
<1>6. samples \in Seq(Samples) /\ Len(samples) = 1 /\ samples[1].at = sortie.takeoff /\ samples # <<>>
  <2> DEFINE pad == [kind |-> "pad", at |-> sortie.takeoff, link |-> 0]
  <2>1. pad \in Samples /\ pad.at = sortie.takeoff
    BY <1>3 DEF Samples
  <2> HIDE DEF pad
  <2>2. samples = <<pad>>
    BY <1>4 DEF pad
  <2>3. QED BY <2>1, <2>2
<1>7. LinkTypes
  <2>1. link \in 1 .. Len(Swaths) + 1 /\ pass \in 1 .. Passes /\ target \in 2 .. Len(path) + 1
        /\ Len(expanded) >= target - 1
    <3>1. link = 1 /\ pass = 1 /\ target = 2
      BY DEF LinksInit
    <3>2. link \in 1 .. Len(Swaths) + 1
      BY <1>2, <3>1
    <3>3. target \in 2 .. Len(path) + 1
      BY <1>5, <3>1
    <3>4. Len(expanded) >= target - 1
      BY <1>5, <3>1
    <3>5. QED BY <3>1, <3>2, <3>3, <3>4 DEF Passes
  <2>2. QED BY <1>1, <1>5, <1>6, <2>1 DEF LinksInit, LinkTypes
<1>8. ClearPath(expanded)
  BY <1>5 DEF ClearPath
<1>9. Leading
  BY <1>5, <1>6, <1>8 DEF LinksInit, Leading
<1>10. Flying
  BY <1>6 DEF LinksInit, Flying
<1>11. QED BY <1>7, <1>9, <1>10 DEF LinkInv

LEMMA LegPoints ==
  ASSUME LinkTypes, InPass
  PROVE  /\ Here \in Spots /\ There \in Spots /\ target \in 2 .. Len(path)
         /\ expanded # <<>> /\ Len(expanded) \in Nat
<1>1. target \in 2 .. Len(path) /\ Len(path) \in Nat /\ Len(expanded) \in Nat \ {0} /\ expanded # <<>>
  BY DEF LinkTypes, InPass
<1>2. QED BY <1>1, ElementOfSeq DEF LinkTypes, Here, There

LEMMA NothingInTheWay ==
  ASSUME NEW p, NEW q
  PROVE  InTheWay(p, q) = {} <=> Clear(p, q)
  BY DEF InTheWay, Clear

LEMMA LinkStraight ==
  ASSUME LinkInv, GoStraight
  PROVE  LinkInv'
<1> DEFINE t == <<There>>
<1>1. Here \in Spots /\ There \in Spots /\ target \in 2 .. Len(path) /\ expanded # <<>> /\ Len(expanded) \in Nat
      /\ expanded \in Seq(Spots)
  BY LegPoints DEF LinkInv, LinkTypes, GoStraight
<1>2. t \in Seq(Spots) /\ Len(t) = 1 /\ t[1] = There
  BY <1>1
<1>3. expanded' = expanded \o t /\ expanded' \in Seq(Spots) /\ Len(expanded') = Len(expanded) + 1
      /\ expanded'[Len(expanded')] = There /\ expanded'[1] = expanded[1]
  BY <1>1 DEF GoStraight
<1>4. LinkTypes'
  <2>1. target' \in 2 .. Len(path) + 1
    BY <1>1 DEF GoStraight, LinkInv, LinkTypes
  <2>2. Len(expanded') >= target' - 1
    BY <1>1, <1>3 DEF GoStraight, LinkInv, LinkTypes
  <2>3. QED BY <1>3, <2>1, <2>2 DEF GoStraight, LinkInv, LinkTypes, HolesAreParts, Swaths
<1>5. ClearPath(expanded) => ClearPath(expanded')
  <2>1. Clear(Here, There)
    BY NothingInTheWay DEF GoStraight
  <2>2. ClearPath(<<Here>> \o t)
    <3>1. <<Here>> \in Seq(Spots) /\ Len(<<Here>>) = 1 /\ <<Here>>[1] = Here
      BY <1>1
    <3> DEFINE w == <<Here>> \o t
    <3>2. Len(w) = 2 /\ w[1] = Here /\ w[2] = There
      BY <1>2, <3>1, ConcatProperties
    <3> HIDE DEF w
    <3>3. QED BY <2>1, <3>2 DEF ClearPath, w
  <2>3. QED BY <1>1, <1>2, <1>3, <2>2, ClearConcat DEF Here
<1>6. Leading'
  <2>1. ASSUME NEW s
        PROVE  ClearPath(s) => (\A i \in 1 .. Len(s) - 1 : \A k \in DOMAIN holes' : ~Hits(s[i], s[i + 1], holes'[k]))
    BY DEF GoStraight, ClearPath, Clear
  <2>2. building = "link" /\ building' = "link"
    BY DEF GoStraight, InPass
  <2>3. target' - 1 = target
    BY <1>1 DEF GoStraight
  <2>4. expanded'[Len(expanded')] = path'[target' - 1]
    BY <1>3, <2>3 DEF GoStraight, There
  <2>5. path'[1] = expanded'[1] /\ expanded'[1] = samples'[Len(samples')].at
    BY <1>3, <2>2 DEF GoStraight, LinkInv, Leading
  <2>6. ~changed' \/ link' \notin entangled' => ClearPath(expanded')
    BY <1>5, <2>2 DEF GoStraight, LinkInv, Leading
  <2>7. (pass' >= 2 /\ link' \notin entangled') => (ClearPath(path') /\ ~changed')
    BY <2>2 DEF GoStraight, LinkInv, Leading
  <2>8. QED BY <2>1, <2>4, <2>5, <2>6, <2>7 DEF Leading, ClearPath, Clear
<1>7. Flying'
  BY DEF GoStraight, InPass, LinkInv, Flying, LegSettled, Clear
<1>8. QED BY <1>4, <1>6, <1>7 DEF LinkInv

LEMMA LinkAround ==
  ASSUME LinkInv, GoAround
  PROVE  LinkInv'
<1>1. Here \in Spots /\ There \in Spots /\ target \in 2 .. Len(path) /\ expanded # <<>> /\ Len(expanded) \in Nat
      /\ expanded \in Seq(Spots)
  BY LegPoints DEF LinkInv, LinkTypes, GoAround
<1>2. FirstInTheWay(Here, There) \in DOMAIN Area
  <2>1. InTheWay(Here, There) \subseteq DOMAIN holes /\ InTheWay(Here, There) \subseteq Nat
    BY DEF InTheWay, LinkInv, LinkTypes, HolesAreParts
  <2>2. \E i \in InTheWay(Here, There) : \A j \in InTheWay(Here, There) : i <= j
    BY <2>1, LeastNumber DEF GoAround
  <2>3. QED BY <2>1, <2>2 DEF FirstInTheWay, LinkInv, LinkTypes, HolesAreParts
<1>3. PICK chain \in Detours(Here, There, FirstInTheWay(Here, There)) :
        /\ expanded' = expanded \o Append(chain, There)
        /\ entangled' = IF ClearPath(Joined(Here, chain, There)) THEN entangled
                        ELSE entangled \cup {link}
  BY DEF GoAround
<1> DEFINE t == Append(chain, There)
<1>4. t \in Seq(Spots) /\ Len(t) \in Nat \ {0} /\ t[Len(t)] = There
  <2>1. chain \in Seq(Spots)
    BY <1>2, <1>3, DetourPoints
  <2>2. QED BY <1>1, <2>1
<1> HIDE DEF t
<1>5. expanded' = expanded \o t /\ expanded' \in Seq(Spots) /\ Len(expanded') = Len(expanded) + Len(t)
      /\ expanded'[Len(expanded')] = There /\ expanded'[1] = expanded[1]
  <2>1. expanded' = expanded \o t
    BY <1>3 DEF t
  <2>2. Len(expanded) >= 1
    BY <1>1 DEF LinkInv, LinkTypes
  <2>3. /\ expanded \o t \in Seq(Spots) /\ Len(expanded \o t) = Len(expanded) + Len(t)
        /\ \A i \in 1 .. Len(expanded) + Len(t) :
             (expanded \o t)[i] = IF i <= Len(expanded) THEN expanded[i] ELSE t[i - Len(expanded)]
    BY <1>1, <1>4, ConcatProperties
  <2>4. (expanded \o t)[Len(expanded) + Len(t)] = There
    BY <1>1, <1>4, <2>3
  <2>5. (expanded \o t)[1] = expanded[1]
    BY <1>1, <1>4, <2>2, <2>3
  <2>6. QED BY <2>1, <2>3, <2>4, <2>5
<1>6. LinkTypes'
  <2>1. target' \in 2 .. Len(path) + 1
    BY <1>1 DEF GoAround, LinkInv, LinkTypes
  <2>2. Len(expanded') >= target' - 1
    BY <1>1, <1>4, <1>5 DEF GoAround, LinkInv, LinkTypes
  <2>3. QED BY <1>5, <2>1, <2>2 DEF GoAround, LinkInv, LinkTypes, HolesAreParts, Swaths
<1>7. link \notin entangled' => link \notin entangled /\ ClearPath(<<Here>> \o t)
  BY <1>3 DEF Joined, t
<1>8. ClearPath(expanded) /\ ClearPath(<<Here>> \o t) => ClearPath(expanded')
  BY <1>1, <1>4, <1>5, ClearConcat DEF Here
<1>9. Leading'
  <2>1. ASSUME NEW s
        PROVE  ClearPath(s) => (\A i \in 1 .. Len(s) - 1 : \A k \in DOMAIN holes' : ~Hits(s[i], s[i + 1], holes'[k]))
    BY DEF GoAround, ClearPath, Clear
  <2>2. building = "link" /\ building' = "link"
    BY DEF GoAround, InPass
  <2>3. target' - 1 = target
    BY <1>1 DEF GoAround
  <2>4. expanded'[Len(expanded')] = path'[target' - 1]
    BY <1>5, <2>3 DEF GoAround, There
  <2>5. path'[1] = expanded'[1] /\ expanded'[1] = samples'[Len(samples')].at
    BY <1>5, <2>2 DEF GoAround, LinkInv, Leading
  <2>6. link' \notin entangled' => ClearPath(expanded')
    BY <1>7, <1>8, <2>2 DEF GoAround, LinkInv, Leading
  <2>7. ASSUME pass' >= 2, link' \notin entangled'
        PROVE  FALSE
    <3>1. ClearPath(path)
      BY <1>7, <2>2, <2>7 DEF GoAround, LinkInv, Leading
    <3>2. expanded[Len(expanded)] = path[target - 1]
      BY <2>2 DEF LinkInv, Leading
    <3>3. target - 1 \in 1 .. Len(path) - 1
      BY <1>1 DEF LinkInv, LinkTypes
    <3>4. Clear(Here, There)
      <4>1. Clear(path[target - 1], path[(target - 1) + 1])
        BY <3>1, <3>3 DEF ClearPath
      <4>2. (target - 1) + 1 = target
        BY <1>1
      <4>3. QED BY <3>2, <4>1, <4>2 DEF Here, There
    <3>5. QED BY <3>4, NothingInTheWay DEF GoAround
  <2>8. changed'
    BY DEF GoAround
  <2>9. QED BY <2>1, <2>4, <2>5, <2>6, <2>7, <2>8 DEF Leading, ClearPath, Clear
<1>10. Flying'
  <2>1. entangled \subseteq entangled'
    BY <1>3
  <2>2. QED BY <2>1 DEF GoAround, InPass, LinkInv, Flying, LegSettled, Clear
<1>11. QED BY <1>6, <1>9, <1>10 DEF LinkInv

LEMMA LinkPass ==
  ASSUME LinkInv, NextPass
  PROVE  LinkInv'
<1>1. building = "link" /\ building' = "link" /\ target = Len(path) + 1
  <2>1. DOMAIN path = 1 .. Len(path) /\ Len(path) \in Nat
    BY DEF LinkInv, LinkTypes
  <2>2. QED BY <2>1 DEF NextPass, PassDone, LinkInv, LinkTypes
<1>2. path \in Seq(Spots) /\ Len(path) \in Nat /\ Len(path) >= 2 /\ path[1] \in Spots
  BY DEF LinkInv, LinkTypes
<1>3. expanded' = <<path[1]>> /\ Len(expanded') = 1 /\ expanded'[1] = path[1] /\ expanded' \in Seq(Spots)
  BY <1>2 DEF NextPass
<1>4. Len(path') >= 2 /\ path' = expanded /\ Len(expanded) \in Nat
  BY <1>1, <1>2 DEF NextPass, LinkInv, LinkTypes
<1>5. LinkTypes'
  <2>1. pass' \in 1 .. Passes /\ target' = 2 /\ target' \in 2 .. Len(path') + 1
    BY <1>4 DEF NextPass, LinkInv, LinkTypes, Passes
  <2>2. path' \in Seq(Spots) /\ Len(expanded') >= target' - 1
    BY <1>3, <1>4, <2>1 DEF NextPass, LinkInv, LinkTypes
  <2>3. /\ sortie' \in Sorties /\ HolesAreParts'
        /\ building' \in {"link", "heights", "done", "raised"}
        /\ link' \in 1 .. Len(Swaths') + 1
        /\ samples' \in Seq(Samples) /\ samples' # <<>>
    BY DEF NextPass, LinkInv, LinkTypes, HolesAreParts, Swaths
  <2>4. QED BY <1>3, <1>4, <2>1, <2>2, <2>3 DEF LinkTypes
<1>6. Leading'
  <2>1. ASSUME NEW s
        PROVE  ClearPath(s) => (\A i \in 1 .. Len(s) - 1 : \A k \in DOMAIN holes' : ~Hits(s[i], s[i + 1], holes'[k]))
    BY DEF NextPass, ClearPath, Clear
  <2>2. ClearPath(expanded')
    BY <1>3 DEF ClearPath
  <2>3. link' \notin entangled' => (ClearPath(path') /\ ~changed')
    BY <1>1, <1>4 DEF NextPass, LinkInv, Leading
  <2>4. path'[1] = expanded'[1] /\ expanded'[1] = samples'[Len(samples')].at
    BY <1>1, <1>3, <1>4 DEF NextPass, LinkInv, Leading
  <2>5. expanded'[Len(expanded')] = path'[target' - 1]
    BY <1>3, <2>4 DEF NextPass
  <2>6. QED BY <2>1, <2>2, <2>3, <2>4, <2>5 DEF Leading, ClearPath, Clear
<1>7. Flying'
  BY <1>1 DEF NextPass, LinkInv, Flying, LegSettled, Clear
<1>8. QED BY <1>5, <1>6, <1>7 DEF LinkInv

(* Legs of a finished link: clear, or of a link that is stubborn from now on. *)
LEMMA LedLegs ==
  ASSUME LinkInv, TakeLink
  PROVE  LET w == samples \o Led
         IN /\ w \in Seq(Samples) /\ Len(w) = Len(samples) + Len(expanded) - 1
            /\ Len(expanded) - 1 \in Nat \ {0}
            /\ w[Len(w)].kind = IF IsHome THEN "pad" ELSE "start"
            /\ w # <<>>
            /\ \A i \in 1 .. Len(w) - 1 :
                 w[i].kind = "start" \/ w[i + 1].link \in stubborn' \/ Clear(w[i].at, w[i + 1].at)
<1> DEFINE n == Len(expanded) - 1
           w == samples \o Led
           Point(i) == [kind |-> IF i < n THEN "link" ELSE IF IsHome THEN "pad" ELSE "start",
                        at |-> expanded[i + 1], link |-> link]
<1>1. building = "link" /\ target = Len(path) + 1 /\ Len(path) \in Nat /\ Len(path) >= 2
  <2>1. DOMAIN path = 1 .. Len(path) /\ Len(path) \in Nat
    BY DEF LinkInv, LinkTypes
  <2>2. QED BY <2>1 DEF TakeLink, PassDone, LinkInv, LinkTypes
<1>2. n \in Nat \ {0} /\ Len(expanded) = n + 1 /\ expanded \in Seq(Spots)
  BY <1>1 DEF LinkInv, LinkTypes
<1> HIDE DEF n
<1>3. link \in Nat /\ Len(samples) \in Nat \ {0} /\ samples \in Seq(Samples)
  <2>1. Len(Swaths) \in Nat
    BY SortieSpots DEF LinkInv, LinkTypes
  <2>2. QED BY <2>1 DEF LinkInv, LinkTypes
<1>4. \A i \in 1 .. n : Point(i) \in Samples
  <2>1. \A i \in 1 .. n : expanded[i + 1] \in Spots
    BY <1>2, ElementOfSeq
  <2>2. QED BY <1>3, <2>1 DEF Samples
<1>5. Led = [i \in 1 .. n |-> Point(i)]
  BY DEF Led, n
<1> HIDE DEF Point
<1>6. Led \in Seq(Samples) /\ Len(Led) = n /\ \A i \in 1 .. n : Led[i] = Point(i)
  BY <1>2, <1>4, <1>5
<1>7. \A i \in 1 .. n : /\ Led[i].at = expanded[i + 1] /\ Led[i].link = link
                        /\ i = n => Led[i].kind = IF IsHome THEN "pad" ELSE "start"
  BY <1>6 DEF Point
<1>8. /\ w \in Seq(Samples) /\ Len(w) = Len(samples) + n
      /\ \A i \in 1 .. Len(samples) + n : w[i] = IF i <= Len(samples) THEN samples[i] ELSE Led[i - Len(samples)]
  BY <1>3, <1>6, ConcatProperties
<1> HIDE DEF w
<1>9. link \in stubborn' \/ ClearPath(expanded)
  BY <1>1 DEF TakeLink, LinkInv, Leading
<1>10. stubborn \subseteq stubborn'
  BY DEF TakeLink
<1>11. expanded[1] = samples[Len(samples)].at
  BY <1>1 DEF LinkInv, Leading
<1>12. ASSUME NEW i \in 1 .. Len(w) - 1
       PROVE  w[i].kind = "start" \/ w[i + 1].link \in stubborn' \/ Clear(w[i].at, w[i + 1].at)
  <2>1. CASE i < Len(samples)
    <3>1. i \in 1 .. Len(samples) - 1 /\ w[i] = samples[i] /\ w[i + 1] = samples[i + 1]
      BY <1>2, <1>3, <1>8, <2>1
    <3>2. LegSettled(i)
      BY <3>1 DEF LinkInv, Flying
    <3>3. QED BY <1>10, <3>1, <3>2 DEF LegSettled
  <2>2. CASE i >= Len(samples)
    <3> DEFINE k == i - Len(samples) + 1
    <3>1. k \in 1 .. n /\ k \in 1 .. Len(expanded) - 1
      BY <1>2, <1>3, <1>8, <2>2
    <3>2. w[i + 1] = Led[k]
      BY <1>2, <1>3, <1>8, <2>2
    <3>3. w[i].at = expanded[k]
      <4>1. CASE i = Len(samples)
        <5>1. k = 1 /\ w[i] = samples[Len(samples)]
          BY <1>2, <1>3, <1>8, <4>1
        <5>2. QED BY <1>11, <5>1
      <4>2. CASE i > Len(samples)
        <5>1. w[i] = Led[k - 1] /\ k - 1 \in 1 .. n /\ (k - 1) + 1 = k
          BY <1>2, <1>3, <1>8, <4>2
        <5>2. QED BY <1>7, <5>1
      <4>3. QED BY <1>3, <1>8, <2>2, <4>1, <4>2
    <3>4. w[i + 1].at = expanded[k + 1] /\ w[i + 1].link = link
      BY <1>7, <3>1, <3>2
    <3>5. ClearPath(expanded) => Clear(expanded[k], expanded[k + 1])
      BY <3>1 DEF ClearPath
    <3>6. QED BY <1>9, <3>3, <3>4, <3>5
  <2>3. QED BY <1>2, <1>3, <1>8, <2>1, <2>2
<1>13. w[Len(w)].kind = IF IsHome THEN "pad" ELSE "start"
  <2>1. w[Len(w)] = Led[n]
    BY <1>2, <1>3, <1>8
  <2>2. QED BY <1>2, <1>7, <2>1
<1>14. w # <<>> /\ Len(w) = Len(samples) + Len(expanded) - 1 /\ Len(expanded) - 1 \in Nat \ {0}
  BY <1>2, <1>3, <1>8
<1>15. QED BY <1>8, <1>12, <1>13, <1>14 DEF w

LEMMA LinkTaken ==
  ASSUME LinkInv, TakeLink
  PROVE  LinkInv'
<1> DEFINE w == samples \o Led
<1>1. /\ w \in Seq(Samples) /\ w # <<>> /\ Len(w) \in Nat \ {0}
      /\ w[Len(w)].kind = IF IsHome THEN "pad" ELSE "start"
      /\ \A i \in 1 .. Len(w) - 1 :
           w[i].kind = "start" \/ w[i + 1].link \in stubborn' \/ Clear(w[i].at, w[i + 1].at)
  <2> HIDE DEF w
  <2>1. QED BY LedLegs DEF w
<1>2. building = "link" /\ stubborn' = IF changed THEN stubborn \cup {link} ELSE stubborn
  BY DEF TakeLink, PassDone
<1>3. stubborn' \subseteq entangled'
  <2>1. changed => pass = 4
    BY DEF TakeLink, Passes
  <2>2. changed => link \in entangled
    BY <1>2, <2>1 DEF LinkInv, Leading
  <2>3. QED BY <1>2, <2>2 DEF TakeLink, LinkInv, Flying
<1>4. ASSUME NEW p, NEW q
      PROVE  Clear(p, q) => \A k \in DOMAIN holes' : ~Hits(p, q, holes'[k])
  BY DEF TakeLink, Clear
<1>5. CASE IsHome
  <2>1. samples' = w /\ building' = "heights" /\ UNCHANGED <<link, pass, path, target, expanded, changed>>
    BY <1>5 DEF TakeLink
  <2> HIDE DEF w
  <2>2. LinkTypes'
    BY <1>1, <2>1 DEF TakeLink, LinkInv, LinkTypes, HolesAreParts, Swaths
  <2>3. Leading'
    BY <2>1 DEF Leading
  <2>4. Flying'
    <3>1. ASSUME NEW i \in 1 .. Len(samples') - 1
          PROVE  LegSettled(i)'
      BY <1>1, <1>4, <2>1, <3>1 DEF LegSettled, Clear
    <3>2. QED BY <1>3, <2>1, <3>1 DEF Flying
  <2>5. QED BY <2>2, <2>3, <2>4 DEF LinkInv
<1>6. CASE ~IsHome
  <2> DEFINE next == IF link = Len(Swaths) THEN sortie.landing ELSE Swaths[link + 1].start
             from == Swaths[link].end
  <2>1. samples' = Append(w, Flown) /\ link' = link + 1 /\ pass' = 1 /\ target' = 2 /\ ~changed'
        /\ path' = <<from, next>> /\ expanded' = <<from>> /\ building' = building
    BY <1>6 DEF TakeLink
  <2> HIDE DEF w
  <2>2. Len(Swaths) \in Nat /\ link \in 1 .. Len(Swaths)
    <3>1. Len(Swaths) \in Nat
      BY SortieSpots DEF LinkInv, LinkTypes
    <3>2. QED BY <1>6, <3>1 DEF IsHome, LinkInv, LinkTypes
  <2>3. from \in Spots /\ next \in Spots
    <3>1. sortie \in Sorties
      BY DEF LinkInv, LinkTypes
    <3>2. from \in Spots
      BY <2>2, <3>1, SwathSpots
    <3>3. CASE link = Len(Swaths)
      BY <3>1, <3>2, <3>3, SortieSpots
    <3>4. CASE link # Len(Swaths)
      <4>1. link + 1 \in 1 .. Len(Swaths)
        BY <2>2, <3>4
      <4>2. QED BY <3>1, <3>2, <3>4, <4>1, SwathSpots
    <3>5. QED BY <3>3, <3>4
  <2>4. Flown \in Samples /\ Flown.at = from /\ Flown.kind = "end"
    BY <2>2, <2>3 DEF Flown, Samples
  <2> HIDE DEF from, next
  <2>5. /\ path' \in Seq(Spots) /\ Len(path') = 2 /\ path'[1] = from
        /\ expanded' \in Seq(Spots) /\ Len(expanded') = 1 /\ expanded'[1] = from
    BY <2>1, <2>3
  <2>6. /\ samples' \in Seq(Samples) /\ Len(samples') = Len(w) + 1 /\ samples' # <<>>
        /\ samples'[Len(samples')] = Flown
        /\ \A i \in 1 .. Len(w) : samples'[i] = w[i]
    BY <1>1, <2>1, <2>4
  <2>7. LinkTypes'
    <3>1. link' \in 1 .. Len(Swaths') + 1
      BY <2>1, <2>2 DEF TakeLink, Swaths
    <3>2. pass' \in 1 .. Passes /\ target' \in 2 .. Len(path') + 1 /\ Len(expanded') >= target' - 1
      BY <2>1, <2>5 DEF Passes
    <3>3. sortie' \in Sorties /\ HolesAreParts' /\ building' \in {"link", "heights", "done", "raised"}
      BY <2>1 DEF TakeLink, LinkInv, LinkTypes, HolesAreParts
    <3>4. Len(path') >= 2
      BY <2>5
    <3>5. QED BY <2>5, <2>6, <3>1, <3>2, <3>3, <3>4 DEF LinkTypes
  <2>8. Leading'
    <3>1. ClearPath(expanded)'
      BY <2>5 DEF ClearPath
    <3>2. expanded'[Len(expanded')] = path'[target' - 1]
      BY <2>1, <2>5
    <3>3. expanded'[1] = samples'[Len(samples')].at /\ path'[1] = expanded'[1]
      BY <2>4, <2>5, <2>6
    <3>4. ~(pass' >= 2) /\ ~changed'
      BY <2>1
    <3>5. QED BY <3>1, <3>2, <3>3, <3>4 DEF Leading
  <2>9. Flying'
    <3>1. ASSUME NEW i \in 1 .. Len(samples') - 1
          PROVE  LegSettled(i)'
      <4>1. CASE i < Len(w)
        <5>1. i \in 1 .. Len(w) - 1 /\ samples'[i] = w[i] /\ samples'[i + 1] = w[i + 1]
          BY <1>1, <2>6, <4>1
        <5>2. QED BY <1>1, <1>4, <5>1 DEF LegSettled, Clear
      <4>2. CASE i >= Len(w)
        <5>1. i = Len(w) /\ samples'[i] = w[Len(w)]
          BY <1>1, <2>6, <4>2
        <5>2. samples'[i].kind = "start"
          BY <1>1, <1>6, <5>1
        <5>3. QED BY <5>2 DEF LegSettled
      <4>3. QED BY <1>1, <2>6, <4>1, <4>2
    <3>2. QED BY <1>2, <1>3, <2>1, <3>1 DEF Flying
  <2>10. QED BY <2>7, <2>8, <2>9 DEF LinkInv
<1>7. QED BY <1>5, <1>6

LEMMA LinkHeights ==
  ASSUME LinkInv, SetHeights
  PROVE  LinkInv'
<1>1. LinkTypes'
  BY DEF SetHeights, LinkInv, LinkTypes, HolesAreParts, Swaths
<1>2. Leading'
  BY DEF SetHeights, Leading
<1>3. Flying'
  <2>1. building' \in {"raised", "done"} /\ UNCHANGED <<holes, samples, stubborn, entangled>>
    BY DEF SetHeights
  <2>2. building' = "done" =>
          /\ waypoints' = [i \in DOMAIN samples |->
                             [at |-> samples[i].at, alt |-> HeightOf(samples[Sampled(i)])]]
          /\ \A i \in DOMAIN samples : samples[i].kind # "link" => Terrain[samples[i].at] # NoHeight
    BY DEF SetHeights
  <2>3. \A i \in 1 .. Len(samples) - 1 : LegSettled(i)'
    BY <2>1 DEF LinkInv, Flying, LegSettled, Clear
  <2>4. QED BY <2>1, <2>2, <2>3 DEF LinkInv, Flying, Sampled, HeightOf
<1>4. QED BY <1>1, <1>2, <1>3 DEF LinkInv

LEMMA LinkInvStep ==
  ASSUME LinkInv, [LinksNext]_linkVars
  PROVE  LinkInv'
<1>1. CASE GoStraight
  BY <1>1, LinkStraight
<1>2. CASE GoAround
  BY <1>2, LinkAround
<1>3. CASE NextPass
  BY <1>3, LinkPass
<1>4. CASE TakeLink
  BY <1>4, LinkTaken
<1>5. CASE SetHeights
  BY <1>5, LinkHeights
<1>6. CASE UNCHANGED linkVars
  <2>1. LinkTypes'
    BY <1>6 DEF linkVars, LinkInv, LinkTypes, HolesAreParts, Swaths
  <2>2. Leading'
    BY <1>6 DEF linkVars, LinkInv, Leading, ClearPath, Clear
  <2>3. \A i \in 1 .. Len(samples) - 1 : LegSettled(i)'
    BY <1>6 DEF linkVars, LinkInv, Flying, LegSettled, Clear
  <2>4. Flying'
    BY <1>6, <2>3 DEF linkVars, LinkInv, Flying, Sampled, HeightOf
  <2>5. QED BY <2>1, <2>2, <2>4 DEF LinkInv
<1>7. QED BY <1>1, <1>2, <1>3, <1>4, <1>5, <1>6 DEF LinksNext

(* A point that is not of a bypass has the height that the terrain has there. *)
LEMMA OwnHeight ==
  ASSUME LinkInv, building = "done", NEW i \in DOMAIN samples, samples[i].kind # "link"
  PROVE  Terrain[waypoints[i].at] <= waypoints[i].alt
<1>1. samples \in Seq(Samples) /\ DOMAIN samples = 1 .. Len(samples) /\ Len(samples) \in Nat
  BY DEF LinkInv, LinkTypes
<1>2. Sampled(i) = i
  <2> DEFINE Own(j) == samples[j].kind # "link" /\ \A m \in i .. j - 1 : samples[m].kind = "link"
  <2>1. i \in i .. Len(samples) /\ Own(i)
    BY <1>1
  <2>2. ASSUME NEW j \in i .. Len(samples), Own(j)
        PROVE  j = i
    <3>1. CASE j > i
      <4>1. i \in i .. j - 1
        BY <1>1, <3>1
      <4>2. QED BY <2>2, <4>1
    <3>2. QED BY <1>1, <3>1
  <2>3. Sampled(i) = CHOOSE j \in i .. Len(samples) : Own(j)
    BY DEF Sampled
  <2> HIDE DEF Own
  <2>4. QED BY <2>1, <2>2, <2>3
<1>3. waypoints[i].at = samples[i].at /\ waypoints[i].alt = HeightOf(samples[i])
  BY <1>2 DEF LinkInv, Flying
<1>4. samples[i] \in Samples
  BY <1>1
<1>5. samples[i].at \in DOMAIN Terrain
  BY <1>4 DEF Samples, Spots
<1>6. Terrain[samples[i].at] \in Int /\ Agl \in Nat
  BY <1>5, LinksAssumption DEF LinksAssumption, LinkInv, Flying
<1> DEFINE h == Terrain[samples[i].at]
<1>7. HeightOf(samples[i]) = h \/ HeightOf(samples[i]) = h + Agl
  BY DEF HeightOf
<1>8. h <= HeightOf(samples[i])
  <2> HIDE DEF h
  <2>1. h \in Int
    BY <1>6 DEF h
  <2>2. QED BY <1>6, <1>7, <2>1
<1>9. QED BY <1>3, <1>8

(* _route and _avoid: what four passes have settled is clear of every
   constraint, a link stays unsettled only where ways around constraints run
   through other ones, and no pad and no end of a swath is below the ground. *)
THEOREM RoutesGoAround == LinksSpec => []RouteGoesAround
<1>1. LinkInv => RouteGoesAround
  <2> SUFFICES ASSUME LinkInv, building = "done"
               PROVE  /\ \A i \in 1 .. Len(samples) - 1 :
                           samples[i].kind = "start" \/ samples[i + 1].link \in stubborn
                             \/ Clear(waypoints[i].at, waypoints[i + 1].at)
                      /\ stubborn \subseteq entangled
                      /\ \A i \in DOMAIN waypoints :
                           samples[i].kind = "link" \/ Terrain[waypoints[i].at] <= waypoints[i].alt
    BY DEF RouteGoesAround
  <2>1. DOMAIN samples = 1 .. Len(samples) /\ Len(samples) \in Nat
    BY DEF LinkInv, LinkTypes
  <2>2. DOMAIN waypoints = DOMAIN samples /\ \A i \in DOMAIN samples : waypoints[i].at = samples[i].at
    BY DEF LinkInv, Flying
  <2>3. ASSUME NEW i \in 1 .. Len(samples) - 1
        PROVE  samples[i].kind = "start" \/ samples[i + 1].link \in stubborn
                 \/ Clear(waypoints[i].at, waypoints[i + 1].at)
    <3>1. i \in DOMAIN samples /\ i + 1 \in DOMAIN samples
      BY <2>1
    <3>2. waypoints[i].at = samples[i].at /\ waypoints[i + 1].at = samples[i + 1].at
      BY <2>2, <3>1
    <3>3. LegSettled(i)
      BY DEF LinkInv, Flying
    <3>4. QED BY <3>2, <3>3 DEF LegSettled
  <2>4. QED BY <2>2, <2>3, OwnHeight DEF LinkInv, Flying
<1>2. QED BY LinkStart, LinkInvStep, <1>1, PTL DEF LinksSpec

=============================================================================
