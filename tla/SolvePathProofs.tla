-------------------------- MODULE SolvePathProofs --------------------------
(***************************************************************************)
(* Proofs about SolvePath for any catalog, requests, budgets and numbers of *)
(* swaths: a feasible plan flies the whole survey, with boards that fit it, *)
(* and a worker without a route is not killed.                              *)
(***************************************************************************)
EXTENDS SolvePath, FiniteSetTheorems, WellFoundedInduction, TLAPS

-----------------------------------------------------------------------------
(* The order of the boards *)

Names == Nat \X Nat

LEMMA LeastNumber ==
  ASSUME NEW T, T \subseteq Nat, T # {}
  PROVE  \E x \in T : \A y \in T : x <= y
<1>1. PICK x \in T : \A y \in T : ~ (<<y, x>> \in OpToRel(<, Nat))
  BY NatLessThanWellFounded, WFMin, Zenon
<1>2. ASSUME NEW y \in T, y < x
      PROVE  FALSE
  <2>1. <<y, x>> \in { ss \in Nat \X Nat : ss[1] < ss[2] }
    BY <1>2
  <2>2. QED BY <1>1, <2>1 DEF OpToRel
<1>3. QED BY <1>2

(* Aircraft are ordered by their card, then by their number. *)
LEMMA Ordered ==
  ASSUME NEW a \in Names, NEW b \in Names, NEW c \in Names
  PROVE  /\ ~Before(a, a)
         /\ a = b \/ Before(a, b) \/ Before(b, a)
         /\ Before(a, b) => ~Before(b, a)
         /\ Before(a, b) /\ Before(b, c) => Before(a, c)
<1>1. /\ a[1] \in Nat /\ a[2] \in Nat /\ b[1] \in Nat /\ b[2] \in Nat /\ c[1] \in Nat /\ c[2] \in Nat
      /\ a[1] = b[1] /\ a[2] = b[2] => a = b
  BY DEF Names
<1>2. QED BY <1>1 DEF Before

(* The first of some boards is one of them, and before the others. *)
LEMMA FirstIsLeast ==
  ASSUME NEW S, S \subseteq Names, S # {}
  PROVE  First(S) \in S /\ \A a \in S \ {First(S)} : Before(First(S), a)
<1>1. PICK x \in { b[1] : b \in S } : \A y \in { b[1] : b \in S } : x <= y
  <2>1. { b[1] : b \in S } \subseteq Nat /\ { b[1] : b \in S } # {}
    BY DEF Names
  <2>2. QED BY <2>1, LeastNumber
<1> DEFINE row == { b \in S : b[1] = x }
<1>2. PICK z \in { b[2] : b \in row } : \A y \in { b[2] : b \in row } : z <= y
  <2>1. { b[2] : b \in row } \subseteq Nat /\ { b[2] : b \in row } # {}
    BY <1>1 DEF Names
  <2>2. QED BY <2>1, LeastNumber
<1>3. PICK b \in row : b[2] = z
  BY <1>2
<1>4. b \in S /\ b[1] = x /\ b[2] = z
  BY <1>3
<1>5. ASSUME NEW a \in S \ {b}
      PROVE  Before(b, a)
  <2>1. /\ a \in Names /\ b \in Names /\ a # b /\ x <= a[1]
        /\ a[1] = x => z <= a[2]
    BY <1>1, <1>2, <1>4
  <2>2. a[1] \in Nat /\ a[2] \in Nat /\ x \in Nat /\ z \in Nat /\ (a[1] # b[1] \/ a[2] # b[2])
    BY <1>4, <2>1 DEF Names
  <2>3. QED BY <1>4, <2>1, <2>2 DEF Before
<1>6. QED BY <1>4, <1>5 DEF First

-----------------------------------------------------------------------------
(* The split of a group *)

(* What the first n of c boards are handed of total swaths. *)
Handed(total, c, n) ==
  n * (total \div c) + (IF n < total % c THEN n ELSE total % c)

LEMMA SplitAddsUp ==
  ASSUME NEW total \in Nat, NEW c \in Nat \ {0}, NEW n \in Nat, n < c
  PROVE  /\ Handed(total, c, 0) = 0
         /\ Handed(total, c, c) = total
         /\ Handed(total, c, n + 1) =
              Handed(total, c, n) + (total \div c) + (IF n < total % c THEN 1 ELSE 0)
         /\ Handed(total, c, n) \in 0 .. total
         /\ Handed(total, c, n + 1) \in Handed(total, c, n) .. total
<1> DEFINE q == total \div c
           r == total % c
<1>1. q \in Nat /\ r \in 0 .. c - 1 /\ total = c * q + r
  OBVIOUS
<1> HIDE DEF q, r
<1>2. PICK rest \in Nat : c = n + 1 + rest
  <2>1. c - n - 1 \in Nat /\ c = n + 1 + (c - n - 1)
    OBVIOUS
  <2>2. QED BY <2>1
<1>3. (n + 1) * q = n * q + q /\ c * q = n * q + q + rest * q
  BY <1>1, <1>2
<1>4. n * q \in Nat /\ rest * q \in Nat
  BY <1>1
<1>5. 0 * q = 0
  BY <1>1
<1>6. /\ \A k : Handed(total, c, k) = k * q + (IF k < r THEN k ELSE r)
  BY DEF Handed, q, r
<1>7. QED
  <2> DEFINE m == n * q
             p == rest * q
  <2>1. m \in Nat /\ p \in Nat /\ total = m + q + p + r
    BY <1>1, <1>3, <1>4
  <2>2. /\ Handed(total, c, n) = m + (IF n < r THEN n ELSE r)
        /\ Handed(total, c, n + 1) = m + q + (IF n + 1 < r THEN n + 1 ELSE r)
        /\ Handed(total, c, 0) = 0 + (IF 0 < r THEN 0 ELSE r)
        /\ Handed(total, c, c) = m + q + p + (IF c < r THEN c ELSE r)
    BY <1>3, <1>5, <1>6
  <2> HIDE DEF m, p
  <2>3. r \in Nat /\ r < c
    BY <1>1
  <2>4. QED BY <1>1, <1>2, <2>1, <2>2, <2>3 DEF q, r

-----------------------------------------------------------------------------
(* The plan *)

(* Swath i of a spacing is in a sortie, or left out. *)
Flown(k, i) == \E s \in sorties : Spacing(s.board) = k /\ i \in s.swaths

Placed(k, i) == Flown(k, i) \/ <<k, i>> \in uncovered

AllPlaced(k) == \A i \in 1 .. SwathCount[k] : Placed(k, i)

(* Spacings whose group was packed. *)
Opened(k) == \E a \in Boards : Spacing(a) = k /\ Before(a, group)

(* Sorties of boards of the fleet share no swath of a spacing. *)
Apart ==
  /\ \A s \in sorties : s.board \in Boards
  /\ \A s, t \in sorties :
       Spacing(s.board) = Spacing(t.board) /\ s.swaths \cap t.swaths # {} => s = t

(* What was left out is a swath of the survey, and in no sortie. *)
Missed ==
  \A u \in uncovered :
    /\ \E b \in Boards : Spacing(b) = u[1] /\ u[2] \in Swaths(b)
    /\ ~Flown(u[1], u[2])

(* The group is of a new spacing, and those before it are packed. *)
AtGroup ==
  /\ group \in Boards /\ ~Opened(Spacing(group))
  /\ \A b \in Boards : Opened(Spacing(b)) => AllPlaced(Spacing(b))

(* Boards of the group that come before a board. *)
Earlier(b) == { a \in Members : Before(a, b) }

(* What was handed out so far is the blocks of the boards before this one. *)
AtBoard ==
  /\ board \in Members
  /\ cursor = Handed(SwathCount[Spacing(group)], Cardinality(Members), Cardinality(Earlier(board)))
  /\ \A i \in 1 .. cursor : Placed(Spacing(group), i)

(* The swaths of the sorties and of what was left out have been handed out. *)
HandedOut(limit) ==
  /\ \A s \in sorties :
       \/ Opened(Spacing(s.board))
       \/ Spacing(s.board) = Spacing(group) /\ s.swaths \subseteq 1 .. limit
  /\ \A u \in uncovered :
       Opened(u[1]) \/ (u[1] = Spacing(group) /\ u[2] \in 1 .. limit)

AllDone == \A b \in Boards : AllPlaced(Spacing(b))

Looking == {"group", "board", "hung", "packed", "place", "route"}

Stages ==
  /\ engine \in {"idle", "begin"} => sorties = {} /\ uncovered = {} /\ routed = {}
  /\ engine # "stopped" => verdict = "none"
  /\ engine = "stopped" => verdict \in {"candidate", "uncovered", "nothing", "budget", "raised"}
  /\ engine \in Looking => \A b \in Boards : Spacing(b) \in DOMAIN SwathCount
  /\ engine = "group" => AtGroup /\ board = group /\ HandedOut(0)
  /\ engine = "board" => AtGroup /\ AtBoard /\ HandedOut(cursor)
  /\ engine \in {"packed", "place", "route"} => AllDone
  /\ engine \in {"place", "route"} => uncovered = {} /\ sorties # {}

(* Which sorties have a route; the legacy engine leaves nothing out. *)
Routes == routed \subseteq sorties /\ (~isolated => routed = sorties /\ uncovered = {})

(* What the end of plan() says of the sorties. *)
Ended ==
  /\ verdict = "candidate" => AllDone /\ uncovered = {} /\ routed = sorties
  /\ verdict = "uncovered" => uncovered # {}
  /\ verdict = "budget" => now >= deadline /\ ~HaveRoute
  /\ verdict = "nothing" /\ request.area =>
       \A b \in Boards : Swaths(b) = {}

(* Fleet: aircraft of cards, with the lens of a camera of the catalog. *)
FleetHolds ==
  /\ request \in Requests
  /\ Boards \subseteq Names /\ IsFiniteSet(Boards)
  /\ \A b \in Boards : \E c \in Cameras : fleet[b] = Lens[c]

PlanInv == FleetHolds /\ now \in Nat /\ Apart /\ Missed /\ Stages /\ Routes /\ Ended

(* Every board that flies is of the group of a head that is not after it. *)
LEMMA EveryBoardHasAHead ==
  ASSUME Boards \subseteq Names, NEW b \in Boards
  PROVE  \E h \in Heads : Spacing(h) = Spacing(b) /\ (h = b \/ Before(h, b))
<1> DEFINE alike == { a \in Boards : Spacing(a) = Spacing(b) }
           h == First(alike)
<1>1. alike \subseteq Names /\ b \in alike
  OBVIOUS
<1>2. h \in alike /\ \A a \in alike \ {h} : Before(h, a)
  BY <1>1, FirstIsLeast
<1> HIDE DEF h
<1>3. h \in Heads
  <2>1. ASSUME NEW a \in Boards, Spacing(a) = Spacing(h), Before(a, h)
        PROVE  FALSE
    <3>1. a \in alike /\ a \in Names /\ h \in Names
      BY <1>1, <1>2, <2>1
    <3>2. a # h
      BY <2>1, <3>1, Ordered
    <3>3. Before(h, a)
      BY <1>2, <3>1, <3>2
    <3>4. QED BY <2>1, <3>1, <3>3, Ordered
  <2>2. h \in Boards
    BY <1>2
  <2>3. QED BY <2>1, <2>2 DEF Heads
<1>4. QED BY <1>2, <1>3

(* What is placed stays placed, as long as sorties are added only. *)
LEMMA PlacedStays ==
  ASSUME fleet' = fleet, sorties \subseteq sorties', uncovered \subseteq uncovered'
  PROVE  \A k, i : Placed(k, i) => Placed(k, i)'
BY DEF Placed, Flown, Spacing

(* On to the next group: when the spacing of this one is placed, all those before
   the next one are, and when there is none, all are. *)
LEMMA ToNextGroup ==
  ASSUME FleetHolds, fleet' = fleet, AtGroup, NextGroup,
         sorties \subseteq sorties', uncovered \subseteq uncovered',
         NEW k, k = Spacing(group),
         \A i \in 1 .. SwathCount[k] : Placed(k, i)',
         \A s \in sorties' : Opened(Spacing(s.board)) \/ Spacing(s.board) = k,
         \A u \in uncovered' : Opened(u[1]) \/ u[1] = k
  PROVE  \/ engine' = "packed" /\ AllDone'
         \/ engine' = "group" /\ AtGroup' /\ board' = group' /\ HandedOut(0)'
<1> DEFINE rest == Later(Heads, group)
<1>b. Boards \subseteq Names /\ group \in Boards /\ group \in Names /\ Heads \subseteq Boards
  BY DEF FleetHolds, AtGroup, Heads
<1>f. Boards' = Boards /\ \A b : Spacing(b)' = Spacing(b)
  BY DEF Boards, Spacing
<1>1. \A b \in Boards : Opened(Spacing(b)) \/ Spacing(b) = k => AllPlaced(Spacing(b))'
  BY <1>f, PlacedStays DEF AtGroup, AllPlaced
<1>2. ASSUME NEW h \in Heads, h \notin rest
      PROVE  Opened(Spacing(h)) \/ Spacing(h) = k
  <2>1. h \in Boards /\ h \in Names /\ ~Before(group, h)
    BY <1>b, <1>2 DEF Later
  <2>2. h = group \/ Before(h, group)
    BY <1>b, <2>1, Ordered
  <2>3. QED BY <2>1, <2>2 DEF Opened
<1>3. CASE rest = {}
  <2>1. engine' = "packed"
    BY <1>3 DEF NextGroup
  <2>2. ASSUME NEW b \in Boards
        PROVE  AllPlaced(Spacing(b))'
    <3>1. PICK h \in Heads : Spacing(h) = Spacing(b)
      BY <1>b, EveryBoardHasAHead
    <3>2. Opened(Spacing(b)) \/ Spacing(b) = k
      BY <1>2, <1>3, <3>1
    <3>3. QED BY <1>1, <3>2
  <2>3. QED BY <1>f, <2>1, <2>2 DEF AllDone
<1>4. CASE rest # {}
  <2> DEFINE next == First(rest)
  <2>1. engine' = "group" /\ group' = next /\ board' = next
    BY <1>4 DEF NextGroup
  <2>2. rest \subseteq Heads /\ rest \subseteq Names
    BY <1>b DEF Later
  <2>3. next \in rest /\ \A a \in rest \ {next} : Before(next, a)
    BY <1>4, <2>2, FirstIsLeast
  <2> HIDE DEF next
  <2>4. next \in Heads /\ next \in Boards /\ next \in Names /\ Before(group, next)
    BY <1>b, <2>2, <2>3 DEF Later
  <2>5. ASSUME NEW x, Opened(x) \/ x = k
        PROVE  Opened(x)'
    <3>1. PICK a \in Boards : Spacing(a) = x /\ (a = group \/ Before(a, group))
      BY <1>b, <2>5 DEF Opened
    <3>2. a \in Names /\ Before(a, next)
      BY <1>b, <2>4, <3>1, Ordered
    <3>3. QED BY <1>f, <2>1, <3>1, <3>2 DEF Opened, Before
  <2>6. ASSUME NEW x, Opened(x)'
        PROVE  Opened(x) \/ x = k
    <3>1. PICK a \in Boards : Spacing(a) = x /\ Before(a, next)
      BY <1>f, <2>1, <2>6 DEF Opened, Before
    <3>2. PICK h \in Heads : Spacing(h) = x /\ (h = a \/ Before(h, a))
      BY <1>b, <3>1, EveryBoardHasAHead
    <3>3. h \in Names /\ a \in Names /\ Before(h, next)
      BY <1>b, <2>4, <3>1, <3>2, Ordered
    <3>4. h \notin rest
      <4>1. ~Before(next, h) /\ h # next
        BY <2>4, <3>3, Ordered
      <4>2. QED BY <2>3, <4>1
    <3>5. QED BY <1>2, <3>2, <3>4
  <2>7. ~Opened(Spacing(group))'
    <3>1. \A a \in Boards : Spacing(a) = Spacing(next) => ~Before(a, next)
      BY <2>4 DEF Heads
    <3>2. QED BY <1>f, <2>1, <3>1 DEF Opened, Before
  <2>8. AtGroup'
    <3>1. ASSUME NEW b \in Boards, Opened(Spacing(b))'
          PROVE  AllPlaced(Spacing(b))'
      <4>1. Opened(Spacing(b)) \/ Spacing(b) = k
        BY <1>f, <2>6, <3>1 DEF Opened
      <4>2. QED BY <1>1, <4>1
    <3>2. group' \in Boards'
      BY <1>f, <2>1, <2>4
    <3>3. QED BY <1>f, <2>7, <3>1, <3>2 DEF AtGroup
  <2>9. HandedOut(0)'
    BY <1>f, <2>5 DEF HandedOut
  <2>10. QED BY <2>1, <2>8, <2>9
<1>5. QED BY <1>3, <1>4

LEMMA BoardIndex ==
  ASSUME FleetHolds, board \in Members
  PROVE  /\ Cardinality(Members) \in Nat \ {0}
         /\ Cardinality(Earlier(board)) \in Nat
         /\ Cardinality(Earlier(board)) < Cardinality(Members)
         /\ Later(Members, board) = {} =>
              Cardinality(Earlier(board)) + 1 = Cardinality(Members)
         /\ Later(Members, board) # {} =>
              /\ First(Later(Members, board)) \in Members
              /\ Cardinality(Earlier(First(Later(Members, board)))) = Cardinality(Earlier(board)) + 1
<1> DEFINE before == Earlier(board)
           after == Later(Members, board)
<1>1. /\ Members \subseteq Boards /\ Members \subseteq Names /\ board \in Names
      /\ before \subseteq Members /\ board \notin before
  <2>1. Members \subseteq Boards /\ Boards \subseteq Names
    BY DEF Members, FleetHolds
  <2>2. before \subseteq Members
    BY DEF Earlier
  <2>3. board \notin before
    BY <2>1, Ordered DEF Earlier
  <2>4. QED BY <2>1, <2>2, <2>3
<1>2. IsFiniteSet(Members) /\ IsFiniteSet(before)
  BY <1>1, FS_Subset DEF FleetHolds
<1>3. /\ Cardinality(before) \in Nat /\ Cardinality(Members) \in Nat
      /\ IsFiniteSet(before \cup {board}) /\ Cardinality(before \cup {board}) = Cardinality(before) + 1
  BY <1>1, <1>2, FS_CardinalityType, FS_AddElement
<1>4. Cardinality(before \cup {board}) <= Cardinality(Members)
  <2>1. before \cup {board} \subseteq Members
    BY <1>1
  <2>2. QED BY <2>1, <1>2, FS_Subset
<1>5. Members = before \cup {board} \cup after
  BY <1>1, Ordered DEF Earlier, Later
<1>6. ASSUME after # {}
      PROVE  First(after) \in Members /\ Earlier(First(after)) = before \cup {board}
  <2> DEFINE next == First(after)
  <2>1. after \subseteq Members /\ after \subseteq Names
    BY <1>1 DEF Later
  <2>2. next \in after /\ \A a \in after \ {next} : Before(next, a)
    BY <1>6, <2>1, FirstIsLeast
  <2> HIDE DEF next
  <2>3. next \in Members /\ next \in Names /\ Before(board, next)
    BY <2>1, <2>2 DEF Later
  <2>4. ASSUME NEW a \in Members
        PROVE  Before(a, next) <=> a \in before \cup {board}
    <3>1. a \in Names /\ (a \in before <=> Before(a, board)) /\ (a \in after <=> Before(board, a))
      BY <1>1 DEF Earlier, Later
    <3>2. a \in after => ~Before(a, next)
      BY <2>2, <2>3, <3>1, Ordered
    <3>3. a \in before \cup {board} => Before(a, next)
      BY <1>1, <2>3, <3>1, Ordered
    <3>4. a \in after \/ a \in before \cup {board}
      BY <1>5
    <3>5. QED BY <3>2, <3>3, <3>4
  <2>5. QED BY <1>1, <2>3, <2>4 DEF Earlier, next
<1>7. QED BY <1>3, <1>4, <1>5, <1>6

(* The block of the board that is packed follows what was handed out, and ends
   where the next one begins. *)
LEMMA BlockFits ==
  ASSUME PlanInv, engine = "board"
  PROVE  /\ Spacing(board) = Spacing(group) /\ SwathCount[Spacing(group)] \in Nat
         /\ cursor \in Nat /\ Take \in Nat
         /\ cursor + Take <= SwathCount[Spacing(group)]
         /\ Later(Members, board) = {} => cursor + Take = SwathCount[Spacing(group)]
         /\ Later(Members, board) # {} =>
              /\ First(Later(Members, board)) \in Members
              /\ cursor + Take = Handed(SwathCount[Spacing(group)], Cardinality(Members),
                                        Cardinality(Earlier(First(Later(Members, board)))))
<1> DEFINE total == SwathCount[Spacing(group)]
           count == Cardinality(Members)
           index == Cardinality(Earlier(board))
<1>1. FleetHolds /\ AtGroup /\ AtBoard /\ Spacing(group) \in DOMAIN SwathCount
  BY DEF PlanInv, Stages, Looking, AtGroup
<1>2. total \in Nat /\ Spacing(board) = Spacing(group) /\ board \in Members
  BY <1>1, EngineAssumption DEF AtBoard, Members
<1>3. /\ count \in Nat \ {0} /\ index \in Nat /\ index < count
      /\ Later(Members, board) = {} => index + 1 = count
      /\ Later(Members, board) # {} =>
           /\ First(Later(Members, board)) \in Members
           /\ Cardinality(Earlier(First(Later(Members, board)))) = index + 1
  BY <1>1, <1>2, BoardIndex
<1>4. cursor = Handed(total, count, index)
  BY <1>1 DEF AtBoard
<1>5. Take = (total \div count) + (IF index < total % count THEN 1 ELSE 0)
  BY DEF Take, Earlier
<1>6. (total \div count) \in Nat
  BY <1>2, <1>3
<1> HIDE DEF total, count, index
<1>7. /\ Handed(total, count, count) = total
      /\ Handed(total, count, index + 1) =
           Handed(total, count, index) + (total \div count) + (IF index < total % count THEN 1 ELSE 0)
      /\ Handed(total, count, index) \in 0 .. total
      /\ Handed(total, count, index + 1) \in Handed(total, count, index) .. total
  BY <1>2, <1>3, SplitAddsUp DEF total
<1>8. Take \in Nat /\ cursor \in Nat
  BY <1>4, <1>5, <1>6, <1>7, <1>2 DEF total
<1>9. cursor + Take = Handed(total, count, index + 1) /\ cursor + Take <= total
  BY <1>4, <1>5, <1>6, <1>7, <1>2 DEF total
<1>10. QED BY <1>2, <1>3, <1>7, <1>8, <1>9 DEF total, count, index

(* What the sorties of one more board do to those there are. *)
LEMMA SortiesOfABoard ==
  ASSUME PlanInv, engine = "board", NEW P \in PackResults(Block), Keep(P),
         fleet' = fleet, isolated' = isolated, NEW k, k = Spacing(group)
  PROVE  /\ Apart' /\ Missed' /\ Routes'
         /\ cursor' = cursor + Take
         /\ sorties \subseteq sorties' /\ uncovered \subseteq uncovered'
         /\ \A i \in 1 .. cursor + Take : Placed(k, i)'
         /\ \A s \in sorties' :
              \/ Opened(Spacing(s.board))
              \/ Spacing(s.board) = k /\ s.swaths \subseteq 1 .. cursor + Take
         /\ \A u \in uncovered' :
              Opened(u[1]) \/ (u[1] = k /\ u[2] \in 1 .. cursor + Take)
<1> DEFINE total == SwathCount[k]
           new == { [board |-> board, swaths |-> p] : p \in P }
           left == {k} \X (Block \ UNION P)
<1>1. /\ Spacing(board) = k /\ total \in Nat /\ cursor \in Nat /\ Take \in Nat
      /\ cursor + Take <= total
  BY BlockFits
<1>2. /\ sorties' = sorties \cup new /\ uncovered' = uncovered \cup left
      /\ routed' = (IF isolated THEN routed ELSE routed \cup new) /\ cursor' = cursor + Take
  BY <1>1 DEF Keep
<1>3. AtGroup /\ AtBoard /\ HandedOut(cursor) /\ Apart /\ Missed /\ Routes /\ board \in Boards
  BY DEF PlanInv, Stages, AtBoard, Members
<1>4. /\ \A p \in P : p \subseteq Block
      /\ \A p, q \in P : p # q => p \cap q = {}
  BY DEF PackResults, Packings
<1>5. Block = cursor + 1 .. cursor + Take
  BY DEF Block
<1>6. /\ Boards' = Boards /\ \A b : Spacing(b)' = Spacing(b) /\ Swaths(b)' = Swaths(b)
  BY DEF Boards, Spacing, Swaths
<1>7. ~Opened(k)
  BY <1>3 DEF AtGroup
<1>8. \A i \in Block : i \in 1 .. cursor + Take /\ i \in 1 .. total /\ i \notin 1 .. cursor
  BY <1>1, <1>5
<1>9. \A s \in new : s.board = board /\ Spacing(s.board) = k /\ s.swaths \in P /\ s.swaths \subseteq Block
  BY <1>1, <1>4
<1>10. \A s \in sorties : Spacing(s.board) = k => s.swaths \subseteq 1 .. cursor
  BY <1>3, <1>7 DEF HandedOut
<1>11. \A u \in uncovered : u[1] = k => u[2] \in 1 .. cursor
  BY <1>3, <1>7 DEF HandedOut
<1>12. \A u \in left : u = <<k, u[2]>> /\ u[1] = k /\ u[2] \in Block /\ u[2] \notin UNION P
  OBVIOUS
<1> HIDE DEF total, new, left
<1>13. Apart'
  <2>1. ASSUME NEW s \in sorties', NEW t \in sorties',
               Spacing(s.board) = Spacing(t.board), s.swaths \cap t.swaths # {}
        PROVE  s = t
    <3>1. CASE s \in sorties /\ t \in sorties
      BY <1>3, <2>1, <3>1 DEF Apart
    <3>2. CASE s \in new /\ t \in sorties
      BY <1>8, <1>9, <1>10, <2>1, <3>2
    <3>3. CASE s \in sorties /\ t \in new
      BY <1>8, <1>9, <1>10, <2>1, <3>3
    <3>4. CASE s \in new /\ t \in new
      <4>1. s.swaths = t.swaths
        BY <1>4, <1>9, <2>1, <3>4
      <4>2. s = [board |-> board, swaths |-> s.swaths] /\ t = [board |-> board, swaths |-> t.swaths]
        BY <3>4 DEF new
      <4>3. QED BY <4>1, <4>2
    <3>5. QED BY <1>2, <3>1, <3>2, <3>3, <3>4
  <2>2. \A s \in sorties' : s.board \in Boards
    BY <1>2, <1>3, <1>9 DEF Apart
  <2>3. QED BY <1>6, <2>1, <2>2 DEF Apart
<1>14. Missed'
  <2>1. ASSUME NEW u \in uncovered
        PROVE  ~Flown(u[1], u[2])'
    <3>1. ~Flown(u[1], u[2])
      BY <1>3 DEF Missed
    <3>2. \A s \in new : Spacing(s.board) = u[1] => u[2] \notin s.swaths
      BY <1>8, <1>9, <1>11
    <3>3. QED BY <1>2, <1>6, <3>1, <3>2 DEF Flown
  <2>2. ASSUME NEW u \in left
        PROVE  /\ ~Flown(u[1], u[2])'
               /\ Spacing(board) = u[1] /\ u[2] \in Swaths(board)
    <3>1. \A s \in sorties : Spacing(s.board) = k => u[2] \notin s.swaths
      BY <1>8, <1>10, <1>12
    <3>2. \A s \in new : u[2] \notin s.swaths
      BY <1>9, <1>12
    <3>3. Spacing(board) = u[1] /\ u[2] \in Swaths(board)
      BY <1>1, <1>8, <1>12 DEF Swaths, total
    <3>4. QED BY <1>1, <1>2, <1>6, <3>1, <3>2, <3>3 DEF Flown
  <2>3. \A u \in uncovered : \E b \in Boards : Spacing(b) = u[1] /\ u[2] \in Swaths(b)
    BY <1>3 DEF Missed
  <2>4. QED BY <1>2, <1>3, <1>6, <2>1, <2>2, <2>3 DEF Missed
<1>15. Routes'
  <2>1. ~isolated => left = {}
    BY DEF PackResults, left
  <2>2. QED BY <1>2, <1>3, <2>1 DEF Routes
<1>16. ASSUME NEW i \in 1 .. cursor + Take
       PROVE  Placed(k, i)'
  <2>1. CASE i \in 1 .. cursor
    <3>1. Placed(k, i)
      BY <1>3, <2>1 DEF AtBoard
    <3>2. QED BY <1>2, <3>1, PlacedStays
  <2>2. CASE i \notin 1 .. cursor
    <3>1. i \in Block
      BY <1>1, <1>5, <2>2
    <3>2. CASE i \in UNION P
      <4>1. PICK p \in P : i \in p
        BY <3>2
      <4>2. [board |-> board, swaths |-> p] \in sorties'
        BY <1>2 DEF new
      <4>3. QED BY <1>1, <1>6, <4>1, <4>2 DEF Placed, Flown
    <3>3. CASE i \notin UNION P
      <4>1. <<k, i>> \in uncovered'
        BY <1>2, <3>1, <3>3 DEF left
      <4>2. QED BY <4>1, <1>6 DEF Placed
    <3>4. QED BY <3>2, <3>3
  <2>3. QED BY <2>1, <2>2
<1>17. \A s \in sorties' :
         Opened(Spacing(s.board)) \/ (Spacing(s.board) = k /\ s.swaths \subseteq 1 .. cursor + Take)
  <2>1. 1 .. cursor \subseteq 1 .. cursor + Take /\ Block \subseteq 1 .. cursor + Take
    BY <1>1, <1>8
  <2>2. QED BY <1>2, <1>3, <1>9, <2>1 DEF HandedOut
<1>18. \A u \in uncovered' : Opened(u[1]) \/ (u[1] = k /\ u[2] \in 1 .. cursor + Take)
  <2>1. 1 .. cursor \subseteq 1 .. cursor + Take /\ Block \subseteq 1 .. cursor + Take
    BY <1>1, <1>8
  <2>2. QED BY <1>2, <1>3, <1>12, <2>1 DEF HandedOut
<1>19. QED BY <1>2, <1>13, <1>14, <1>15, <1>16, <1>17, <1>18

(* A step that leaves the sorties alone. *)
LEMMA SameSorties ==
  ASSUME PlanInv, UNCHANGED <<fleet, isolated, request, sorties, uncovered, routed>>
  PROVE  /\ FleetHolds' /\ Apart' /\ Missed' /\ Routes'
         /\ AllDone => AllDone'
         /\ group' = group => (AtGroup => AtGroup')
         /\ group' = group => \A n : HandedOut(n) => HandedOut(n)'
<1>1. /\ Boards' = Boards /\ \A b : Spacing(b)' = Spacing(b) /\ Swaths(b)' = Swaths(b)
      /\ \A k, i : (Placed(k, i)' <=> Placed(k, i)) /\ (Flown(k, i)' <=> Flown(k, i))
  BY DEF Boards, Spacing, Swaths, Placed, Flown
<1>2. FleetHolds'
  BY <1>1 DEF PlanInv, FleetHolds
<1>3. Apart' /\ Routes'
  BY <1>1 DEF PlanInv, Apart, Routes
<1>4. Missed'
  BY <1>1 DEF PlanInv, Missed
<1>5. AllDone => AllDone'
  BY <1>1 DEF AllDone, AllPlaced
<1>6. ASSUME group' = group
      PROVE  /\ AtGroup => AtGroup'
             /\ \A n : HandedOut(n) => HandedOut(n)'
  <2>1. \A k : Opened(k)' <=> Opened(k)
    BY <1>1, <1>6 DEF Opened, Before
  <2>2. \A b : (AllPlaced(Spacing(b))' <=> AllPlaced(Spacing(b)))
               /\ (Opened(Spacing(b))' <=> Opened(Spacing(b)))
    BY <1>1, <2>1 DEF AllPlaced, Opened, Before
  <2>3. ~Opened(Spacing(group)) => ~Opened(Spacing(group))'
    BY <1>1, <1>6, <2>1 DEF Opened, Before
  <2>4. AtGroup => AtGroup'
    BY <1>1, <1>6, <2>2, <2>3 DEF AtGroup
  <2>5. \A n : HandedOut(n) => HandedOut(n)'
    BY <1>1, <1>6, <2>1 DEF HandedOut, Opened, Before
  <2>6. QED BY <2>4, <2>5
<1>7. QED BY <1>2, <1>3, <1>4, <1>5, <1>6

(* plan() ends. *)
LEMMA StopStep ==
  ASSUME PlanInv, UNCHANGED <<fleet, isolated, request, deadline>>, now' \in Nat, NEW v, Stop(v),
         \/ v = "raised"
         \/ v = "budget" /\ now' >= deadline /\ ~HaveRoute
         \/ v = "uncovered" /\ uncovered # {}
         \/ v = "nothing" /\ (request.area => \A b \in Boards : Swaths(b) = {})
         \/ v = "candidate" /\ AllDone /\ uncovered = {} /\ routed = sorties
  PROVE  PlanInv'
<1>1. /\ UNCHANGED <<sorties, uncovered, routed, group, board, cursor>>
      /\ engine' = "stopped" /\ verdict' = v
  BY DEF Stop
<1>2. FleetHolds' /\ Apart' /\ Missed' /\ Routes' /\ (AllDone => AllDone')
  BY <1>1, SameSorties
<1>3. Stages'
  BY <1>1 DEF Stages, Looking
<1>4. Ended'
  <2>1. Boards' = Boards /\ \A b : Swaths(b)' = Swaths(b)
    BY DEF Boards, Swaths, Spacing
  <2>2. HaveRoute' = HaveRoute
    BY <1>1 DEF HaveRoute
  <2>3. QED BY <1>1, <1>2, <2>1, <2>2 DEF Ended
<1>5. QED BY <1>2, <1>3, <1>4 DEF PlanInv

(* The loops go on: nothing has ended, and the position holds. *)
LEMMA GoOn ==
  ASSUME FleetHolds', now' \in Nat, Apart', Missed', Routes', verdict' = "none",
         engine' \in Looking, \A b \in Boards' : Spacing(b)' \in DOMAIN SwathCount,
         engine' = "group" => AtGroup' /\ board' = group' /\ HandedOut(0)',
         engine' = "board" => AtGroup' /\ AtBoard' /\ HandedOut(cursor)',
         engine' \in {"packed", "place", "route"} => AllDone',
         engine' \in {"place", "route"} => uncovered' = {} /\ sorties' # {}
  PROVE  PlanInv'
<1>1. Ended'
  BY DEF Ended
<1>2. Stages'
  BY DEF Stages, Looking
<1>3. QED BY <1>1, <1>2 DEF PlanInv

(* The checks before the loop. *)
LEMMA BeginStep ==
  ASSUME PlanInv, BeginPlan(request.area), request' = request
  PROVE  PlanInv'
<1>1. /\ engine = "begin" /\ UNCHANGED <<now, deadline, fleet, isolated, request>>
      /\ sorties = {} /\ uncovered = {} /\ routed = {} /\ verdict = "none"
  BY DEF BeginPlan, PlanInv, Stages
<1>2. now' \in Nat
  BY <1>1 DEF PlanInv
<1>3. CASE Boards = {} \/ \E b \in Boards : Spacing(b) = 0
  <2>1. Stop("raised")
    BY <1>3 DEF BeginPlan
  <2>2. QED BY <1>1, <1>2, <2>1, StopStep
<1>4. CASE /\ Boards # {} /\ \A b \in Boards : Spacing(b) # 0
           /\ OutOfBudget
  <2>1. Stop("budget") /\ now' >= deadline /\ ~HaveRoute
    BY <1>1, <1>4 DEF BeginPlan, OutOfBudget
  <2>2. QED BY <1>1, <1>2, <2>1, StopStep
<1>5. CASE /\ Boards # {} /\ \A b \in Boards : Spacing(b) # 0
           /\ ~OutOfBudget /\ ~request.area
  <2>1. Stop("nothing")
    BY <1>5 DEF BeginPlan
  <2>2. QED BY <1>1, <1>2, <1>5, <2>1, StopStep
<1>6. CASE /\ Boards # {} /\ \A b \in Boards : Spacing(b) # 0
           /\ ~OutOfBudget /\ request.area
  <2> DEFINE first == First(Boards)
  <2>1. /\ engine' = "group" /\ group' = first /\ board' = first
        /\ UNCHANGED <<cursor, sorties, uncovered, routed, verdict>>
    BY <1>6 DEF BeginPlan
  <2>2. Boards \subseteq Names
    BY DEF PlanInv, FleetHolds
  <2>3. first \in Boards /\ \A a \in Boards \ {first} : Before(first, a)
    BY <1>6, <2>2, FirstIsLeast
  <2> HIDE DEF first
  <2>4. \A a \in Boards : ~Before(a, first)
    BY <2>2, <2>3, Ordered
  <2>5. Boards' = Boards /\ \A b : Spacing(b)' = Spacing(b)
    BY <1>1 DEF Boards, Spacing
  <2>6. \A b \in Boards : ~Opened(Spacing(b))'
    BY <2>1, <2>4, <2>5 DEF Opened, Before
  <2>7. AtGroup'
    <3>1. ~Opened(Spacing(group))'
      BY <2>1, <2>4, <2>5 DEF Opened, Before
    <3>2. QED BY <2>1, <2>3, <2>5, <2>6, <3>1 DEF AtGroup
  <2>8. HandedOut(0)'
    BY <1>1, <2>1 DEF HandedOut
  <2>9. \A b \in Boards' : Spacing(b)' \in DOMAIN SwathCount
    <3>1. ASSUME NEW b \in Boards
          PROVE  Spacing(b) \in DOMAIN SwathCount
      <4>1. PICK c \in Cameras : fleet[b] = Lens[c]
        BY DEF PlanInv, FleetHolds
      <4>2. Spacing(b) = Lens[c].spacing /\ Lens[c].spacing \in Nat /\ Spacing(b) # 0
        BY <1>6, <4>1, CatalogAssumption DEF Spacing
      <4>3. QED BY <4>2, PathAssumption
    <3>2. QED BY <2>5, <3>1
  <2>10. FleetHolds' /\ Apart' /\ Missed' /\ Routes'
    BY <1>1, <2>1, SameSorties
  <2>11. QED BY <1>1, <1>2, <2>1, <2>7, <2>8, <2>9, <2>10, GoOn DEF Looking
<1>7. QED BY <1>3, <1>4, <1>5, <1>6

(* A spacing without swaths is passed over, the others begin with their first
   board and their first swath. *)
LEMMA GenerateStep ==
  ASSUME PlanInv, GenerateSwaths, request' = request
  PROVE  PlanInv'
<1>1. /\ engine = "group" /\ UNCHANGED <<deadline, fleet, isolated, request>>
      /\ AtGroup /\ board = group /\ HandedOut(0) /\ verdict = "none" /\ now \in Nat
      /\ FleetHolds /\ \A b \in Boards : Spacing(b) \in DOMAIN SwathCount
  BY DEF GenerateSwaths, PlanInv, Stages, Looking
<1>2. Boards' = Boards /\ \A b : Spacing(b)' = Spacing(b)
  BY <1>1 DEF Boards, Spacing
<1>3. CASE OutOfBudget
  <2>1. Stop("budget") /\ now' = now /\ now' >= deadline /\ ~HaveRoute
    BY <1>3 DEF GenerateSwaths, OutOfBudget
  <2>2. now' \in Nat
    BY <1>1, <2>1
  <2>3. QED BY <1>1, <2>1, <2>2, StopStep
<1>4. CASE ~OutOfBudget
  <2>1. PICK d \in StepTimes :
          /\ now' = now + d
          /\ IF Swaths(group) = {}
               THEN NextGroup /\ UNCHANGED <<cursor, sorties, uncovered, routed, verdict>>
             ELSE IF TooLate THEN Stop("budget")
             ELSE /\ engine' = "board" /\ cursor' = 0
                  /\ UNCHANGED <<group, board, sorties, uncovered, routed, verdict>>
    BY <1>4, Zenon DEF GenerateSwaths
  <2>2. now' \in Nat
    BY <1>1, <2>1, EngineAssumption
  <2>3. CASE Swaths(group) = {}
    <3>1. NextGroup /\ UNCHANGED <<cursor, sorties, uncovered, routed, verdict>>
      BY <2>1, <2>3
    <3>2. PICK k : k = Spacing(group)
      OBVIOUS
    <3>3. 1 .. SwathCount[k] = {}
      BY <2>3, <3>2 DEF Swaths
    <3>4. /\ \A s \in sorties' : Opened(Spacing(s.board)) \/ Spacing(s.board) = k
          /\ \A u \in uncovered' : Opened(u[1]) \/ u[1] = k
      BY <1>1, <3>1, <3>2 DEF HandedOut
    <3>5. \/ engine' = "packed" /\ AllDone'
          \/ engine' = "group" /\ AtGroup' /\ board' = group' /\ HandedOut(0)'
      BY <1>1, <3>1, <3>2, <3>3, <3>4, ToNextGroup
    <3>6. FleetHolds' /\ Apart' /\ Missed' /\ Routes'
      BY <1>1, <3>1, SameSorties
    <3>7. QED BY <1>1, <1>2, <2>2, <3>1, <3>5, <3>6, GoOn DEF Looking
  <2>4. CASE Swaths(group) # {} /\ TooLate
    <3>1. Stop("budget") /\ now' >= deadline /\ ~HaveRoute
      BY <2>1, <2>4 DEF TooLate
    <3>2. QED BY <1>1, <2>2, <3>1, StopStep
  <2>5. CASE Swaths(group) # {} /\ ~TooLate
    <3>1. /\ engine' = "board" /\ cursor' = 0
          /\ UNCHANGED <<group, board, sorties, uncovered, routed, verdict>>
      BY <2>1, <2>5
    <3>2. FleetHolds' /\ Apart' /\ Missed' /\ Routes' /\ AtGroup' /\ HandedOut(0)'
      BY <1>1, <3>1, SameSorties
    <3>3. AtBoard'
      <4>1. group \in Members /\ Earlier(group) = {} /\ Members' = Members
            /\ \A b : Earlier(b)' = Earlier(b)
        BY <1>1, <1>2, <3>1 DEF AtGroup, Members, Earlier, Opened, Before
      <4>2. Cardinality(Earlier(board))' = 0
        BY <1>1, <3>1, <4>1, FS_EmptySet DEF Earlier
      <4>3. SwathCount[Spacing(group)] \in Nat
        BY <1>1, EngineAssumption DEF AtGroup
      <4>4. Cardinality(Members) \in Nat \ {0}
        <5>1. board \in Members
          BY <1>1, <4>1
        <5>2. QED BY <1>1, <5>1, BoardIndex
      <4>5. Handed(SwathCount[Spacing(group)], Cardinality(Members), 0) = 0
        BY <4>3, <4>4, SplitAddsUp
      <4>6. Handed(SwathCount[Spacing(group)], Cardinality(Members), Cardinality(Earlier(board)))' = 0
        BY <1>2, <3>1, <4>1, <4>2, <4>5 DEF Handed
      <4>7. QED BY <1>1, <3>1, <4>1, <4>6 DEF AtBoard
    <3>4. HandedOut(cursor)'
      BY <3>1, <3>2 DEF HandedOut
    <3>5. QED BY <1>1, <1>2, <2>2, <3>1, <3>2, <3>3, <3>4, GoOn DEF Looking
  <2>6. QED BY <2>3, <2>4, <2>5
<1>5. QED BY <1>3, <1>4

(* One board is packed, and the loop goes on to the next one or the next group. *)
LEMMA KeepStep ==
  ASSUME PlanInv, engine = "board", NEW P \in PackResults(Block), Keep(P),
         UNCHANGED <<deadline, fleet, isolated, request>>, now' \in Nat
  PROVE  PlanInv'
<1>1. PICK k : k = Spacing(group)
  OBVIOUS
<1>2. /\ Apart' /\ Missed' /\ Routes'
      /\ cursor' = cursor + Take
      /\ sorties \subseteq sorties' /\ uncovered \subseteq uncovered'
      /\ \A i \in 1 .. cursor + Take : Placed(k, i)'
      /\ \A s \in sorties' :
           \/ Opened(Spacing(s.board))
           \/ Spacing(s.board) = k /\ s.swaths \subseteq 1 .. cursor + Take
      /\ \A u \in uncovered' :
           Opened(u[1]) \/ (u[1] = k /\ u[2] \in 1 .. cursor + Take)
  BY <1>1, SortiesOfABoard
<1>3. /\ Later(Members, board) = {} => cursor + Take = SwathCount[k]
      /\ Later(Members, board) # {} =>
           /\ First(Later(Members, board)) \in Members
           /\ cursor + Take = Handed(SwathCount[k], Cardinality(Members),
                                     Cardinality(Earlier(First(Later(Members, board)))))
  BY <1>1, BlockFits
<1>4. FleetHolds /\ AtGroup /\ verdict = "none" /\ \A b \in Boards : Spacing(b) \in DOMAIN SwathCount
  BY DEF PlanInv, Stages, Looking
<1>5. Boards' = Boards /\ \A b : Spacing(b)' = Spacing(b)
  BY DEF Boards, Spacing
<1>6. FleetHolds' /\ verdict' = "none" /\ \A b \in Boards' : Spacing(b)' \in DOMAIN SwathCount
  BY <1>4, <1>5 DEF FleetHolds, Keep
<1>7. CASE Later(Members, board) = {}
  <2>1. NextGroup
    BY <1>7 DEF Keep, NextBoard
  <2>2. \A i \in 1 .. SwathCount[k] : Placed(k, i)'
    BY <1>2, <1>3, <1>7
  <2>3. \/ engine' = "packed" /\ AllDone'
        \/ engine' = "group" /\ AtGroup' /\ board' = group' /\ HandedOut(0)'
    BY <1>1, <1>2, <1>4, <2>1, <2>2, ToNextGroup
  <2>4. QED BY <1>2, <1>6, <2>3, GoOn DEF Looking
<1>8. CASE Later(Members, board) # {}
  <2>1. engine' = "board" /\ board' = First(Later(Members, board)) /\ group' = group
    BY <1>8 DEF Keep, NextBoard
  <2>2. /\ \A x : Opened(x)' <=> Opened(x)
        /\ \A b : Opened(Spacing(b))' <=> Opened(Spacing(b))
    BY <1>5, <2>1 DEF Opened, Before
  <2>3. AtGroup'
    <3>1. \A b \in Boards : AllPlaced(Spacing(b)) => AllPlaced(Spacing(b))'
      BY <1>2, <1>5, PlacedStays DEF AllPlaced
    <3>2. ~Opened(Spacing(group))'
      BY <1>4, <1>5, <2>1 DEF AtGroup, Opened, Before
    <3>3. QED BY <1>4, <1>5, <2>1, <2>2, <3>1, <3>2 DEF AtGroup
  <2>4. AtBoard'
    <3>1. Members' = Members /\ Spacing(group)' = k
      BY <1>1, <1>5, <2>1 DEF Members
    <3>2. Earlier(board)' = Earlier(First(Later(Members, board)))
      BY <2>1, <3>1 DEF Earlier, Before
    <3>3. Handed(SwathCount[Spacing(group)], Cardinality(Members), Cardinality(Earlier(board)))'
            = cursor + Take
      BY <1>3, <1>8, <3>1, <3>2 DEF Handed
    <3>4. \A i \in 1 .. cursor' : Placed(Spacing(group), i)'
      BY <1>2, <3>1 DEF Placed, Flown
    <3>5. QED BY <1>2, <1>3, <1>8, <2>1, <3>1, <3>3, <3>4 DEF AtBoard
  <2>5. HandedOut(cursor)'
    <3>1. \A s \in sorties' : Opened(Spacing(s.board))' <=> Opened(Spacing(s.board))
      BY <2>2
    <3>2. QED BY <1>1, <1>2, <1>5, <2>1, <2>2, <3>1 DEF HandedOut
  <2>6. QED BY <1>2, <1>6, <2>1, <2>3, <2>4, <2>5, GoOn DEF Looking
<1>9. QED BY <1>7, <1>8

LEMMA PackStep ==
  ASSUME PlanInv, PackBoard, request' = request
  PROVE  PlanInv'
<1>1. engine = "board" /\ UNCHANGED <<deadline, fleet, isolated, request>> /\ now \in Nat
  BY DEF PackBoard, PlanInv
<1>2. CASE OutOfBudget
  <2>1. Stop("budget") /\ now' = now /\ now' >= deadline /\ ~HaveRoute
    BY <1>2 DEF PackBoard, OutOfBudget
  <2>2. now' \in Nat
    BY <1>1, <2>1
  <2>3. QED BY <1>1, <2>1, <2>2, StopStep
<1>3. CASE ~OutOfBudget
  <2>1. PICK d \in StepTimes, P \in PackResults(Block) :
          /\ now' = now + d
          /\ IF ~isolated /\ P # {} /\ TooLate THEN Stop("budget") ELSE Keep(P)
    BY <1>3, Zenon DEF PackBoard
  <2>2. now' \in Nat
    BY <1>1, <2>1, EngineAssumption
  <2>3. CASE Stop("budget") /\ TooLate
    <3>1. now' >= deadline /\ ~HaveRoute
      BY <2>3 DEF TooLate
    <3>2. QED BY <1>1, <2>2, <2>3, <3>1, StopStep
  <2>4. CASE Keep(P)
    BY <1>1, <2>2, <2>4, KeepStep
  <2>5. QED BY <2>1, <2>3, <2>4
<1>4. QED BY <1>2, <1>3

(* What follows the packing, and the routes. *)
LEMMA AfterStep ==
  ASSUME PlanInv, AfterPacking, request' = request
  PROVE  PlanInv'
<1>1. /\ engine = "packed" /\ UNCHANGED <<now, deadline, fleet, isolated, request>>
      /\ AllDone /\ verdict = "none" /\ Routes
      /\ \A b \in Boards : Spacing(b) \in DOMAIN SwathCount
  BY DEF AfterPacking, PlanInv, Stages, Looking
<1>2. now' \in Nat
  BY <1>1 DEF PlanInv
<1>3. CASE uncovered # {}
  <2>1. Stop("uncovered")
    BY <1>3 DEF AfterPacking
  <2>2. QED BY <1>1, <1>2, <1>3, <2>1, StopStep
<1>4. CASE uncovered = {} /\ sorties = {}
  <2>1. Stop("nothing")
    BY <1>4 DEF AfterPacking
  <2>2. \A b \in Boards : Swaths(b) = {}
    BY <1>1, <1>4 DEF AllDone, AllPlaced, Placed, Flown, Swaths
  <2>3. QED BY <1>1, <1>2, <2>1, <2>2, StopStep
<1>5. CASE uncovered = {} /\ sorties # {} /\ ~isolated
  <2>1. Stop("candidate") /\ routed = sorties
    BY <1>1, <1>5 DEF AfterPacking, Routes
  <2>2. QED BY <1>1, <1>2, <1>5, <2>1, StopStep
<1>6. CASE uncovered = {} /\ sorties # {} /\ isolated
  <2>1. engine' = "place" /\ UNCHANGED <<group, board, cursor, sorties, uncovered, routed, verdict>>
    BY <1>6 DEF AfterPacking
  <2>2. FleetHolds' /\ Apart' /\ Missed' /\ Routes' /\ AllDone'
    BY <1>1, <2>1, SameSorties
  <2>3. Boards' = Boards /\ \A b : Spacing(b)' = Spacing(b)
    BY <1>1 DEF Boards, Spacing
  <2>4. QED BY <1>1, <1>2, <1>6, <2>1, <2>2, <2>3, GoOn DEF Looking
<1>7. QED BY <1>3, <1>4, <1>5, <1>6

LEMMA PlaceStep ==
  ASSUME PlanInv, PlaceSorties \/ Hang, request' = request
  PROVE  PlanInv'
<1>1. /\ engine \in {"place", "group"} /\ UNCHANGED <<deadline, fleet, isolated, request>>
      /\ UNCHANGED <<group, board, cursor, sorties, uncovered, routed, verdict>>
      /\ verdict = "none" /\ now \in Nat
      /\ \A b \in Boards : Spacing(b) \in DOMAIN SwathCount
  BY DEF PlaceSorties, Hang, PlanInv, Stages, Looking
<1>2. FleetHolds' /\ Apart' /\ Missed' /\ Routes' /\ (AllDone => AllDone')
  BY <1>1, SameSorties
<1>3. Boards' = Boards /\ \A b : Spacing(b)' = Spacing(b)
  BY <1>1 DEF Boards, Spacing
<1>4. now' \in Nat
  BY <1>1, EngineAssumption DEF PlaceSorties, Hang
<1>5. \/ engine' = "hung"
      \/ engine' = "route" /\ AllDone /\ uncovered = {} /\ sorties # {}
  BY DEF PlaceSorties, Hang, PlanInv, Stages
<1>6. QED BY <1>1, <1>2, <1>3, <1>4, <1>5, GoOn DEF Looking

LEMMA RouteStep ==
  ASSUME PlanInv, BuildRoute, request' = request
  PROVE  PlanInv'
<1>1. /\ engine = "route" /\ UNCHANGED <<deadline, fleet, isolated, request>>
      /\ UNCHANGED <<group, board, cursor, sorties, uncovered>>
      /\ AllDone /\ uncovered = {} /\ sorties # {} /\ verdict = "none" /\ now \in Nat
      /\ FleetHolds /\ Apart /\ Missed /\ Routes
      /\ \A b \in Boards : Spacing(b) \in DOMAIN SwathCount
  BY DEF BuildRoute, PlanInv, Stages, Looking
<1>2. /\ Boards' = Boards /\ \A b : Spacing(b)' = Spacing(b) /\ Swaths(b)' = Swaths(b)
      /\ \A k, i : (Placed(k, i)' <=> Placed(k, i)) /\ (Flown(k, i)' <=> Flown(k, i))
  BY <1>1 DEF Boards, Spacing, Swaths, Placed, Flown
<1>3. PICK d \in StepTimes, s \in sorties \ routed :
        /\ now' = now + d
        /\ routed' = routed \cup {s}
        /\ IF routed' = sorties THEN engine' = "stopped" /\ verdict' = "candidate"
           ELSE UNCHANGED <<engine, verdict>>
  BY DEF BuildRoute
<1>4. now' \in Nat
  BY <1>1, <1>3, EngineAssumption
<1>5. /\ FleetHolds' /\ AllDone' /\ Apart' /\ Missed' /\ Routes'
  <2>1. FleetHolds' /\ AllDone'
    BY <1>1, <1>2 DEF FleetHolds, AllDone, AllPlaced
  <2>2. Apart' /\ Missed'
    BY <1>1, <1>2 DEF Apart, Missed
  <2>3. Routes'
    BY <1>1, <1>3 DEF Routes
  <2>4. QED BY <2>1, <2>2, <2>3
<1>6. CASE routed' = sorties
  <2>1. engine' = "stopped" /\ verdict' = "candidate"
    BY <1>3, <1>6
  <2>2. Stages' /\ Ended'
    BY <1>1, <1>5, <1>6, <2>1 DEF Stages, Ended, Looking
  <2>3. QED BY <1>4, <1>5, <2>2 DEF PlanInv
<1>7. CASE routed' # sorties
  BY <1>1, <1>2, <1>3, <1>4, <1>5, <1>7, GoOn DEF Looking
<1>8. QED BY <1>6, <1>7

LEMMA RaiseStep ==
  ASSUME PlanInv, EngineRaises, request' = request
  PROVE  PlanInv'
<1>1. Stop("raised") /\ UNCHANGED <<now, deadline, fleet, isolated, request>>
  BY DEF EngineRaises
<1>2. now' \in Nat
  BY <1>1 DEF PlanInv
<1>3. QED BY <1>1, <1>2, StopStep

-----------------------------------------------------------------------------
(* The boards *)

(* A card that may fly. *)
Fitting(card) ==
  /\ request.spectrum # AnySpectrum => Fits(request, card)
  /\ WorkerPairs(card) /\ card.model \in Flies /\ card.pad \in PadIds(request)

(* A complaint about cards is the fault of one of them, and without one none has
   any. *)
LEMMA FirstFaultIsOne ==
  ASSUME NEW faults, DOMAIN faults \subseteq Nat
  PROVE  /\ FirstFault(faults) = "none" => \A i \in DOMAIN faults : faults[i] = "none"
         /\ FirstFault(faults) # "none" => \E i \in DOMAIN faults : FirstFault(faults) = faults[i]
<1> DEFINE wrong == { i \in DOMAIN faults : faults[i] # "none" }
           first == CHOOSE i \in wrong : \A j \in wrong : i <= j
<1>1. wrong = {} => FirstFault(faults) = "none" /\ \A i \in DOMAIN faults : faults[i] = "none"
  BY DEF FirstFault
<1>2. ASSUME wrong # {}
      PROVE  \E i \in DOMAIN faults : FirstFault(faults) = faults[i] /\ faults[i] # "none"
  <2>1. \E i \in wrong : \A j \in wrong : i <= j
    BY <1>2, LeastNumber
  <2>2. first \in wrong
    BY <2>1
  <2>3. FirstFault(faults) = faults[first]
    BY <1>2 DEF FirstFault
  <2>4. QED BY <2>2, <2>3
<1>3. QED BY <1>1, <1>2

(* The aircraft of some cards. *)
LEMMA FleetOfCards ==
  ASSUME request \in Requests, NEW ids, ids \subseteq CardIds(request),
         \A i \in ids : request.cards[i].camera \in Cameras
  PROVE  /\ DOMAIN Fleet(request, ids) \subseteq Names /\ IsFiniteSet(DOMAIN Fleet(request, ids))
         /\ \A b \in DOMAIN Fleet(request, ids) :
              b[1] \in ids /\ Fleet(request, ids)[b] = Lens[request.cards[b[1]].camera]
<1> DEFINE size(i) == IF request.cards[i].count > 0 THEN request.cards[i].count ELSE 1
           rows == [ i \in ids |-> {i} \X (1 .. size(i)) ]
           boards == UNION { rows[i] : i \in ids }
<1>1. ids \subseteq Nat /\ IsFiniteSet(ids) /\ \A i \in ids : size(i) \in Nat
  BY PathAssumption, FS_Subset DEF CardIds
<1> HIDE DEF size
<1>2. \A i \in ids : rows[i] \subseteq Names /\ IsFiniteSet(rows[i])
  <2>1. ASSUME NEW i \in ids
        PROVE  rows[i] \subseteq Names /\ IsFiniteSet(rows[i])
    <3>1. IsFiniteSet({i}) /\ IsFiniteSet(1 .. size(i))
      <4>1. size(i) \in Int /\ 1 \in Int
        BY <1>1
      <4>2. QED BY <4>1, FS_Singleton, FS_Interval
    <3>2. IsFiniteSet({i} \X (1 .. size(i)))
      BY <3>1, FS_Product
    <3>3. QED BY <1>1, <3>2 DEF Names
  <2>2. QED BY <2>1
<1>3. IsFiniteSet({ rows[i] : i \in ids })
  <2>1. rows \in Surjection(ids, { rows[i] : i \in ids })
    BY DEF Surjection
  <2>2. QED BY <1>1, <2>1, FS_Surjection
<1>4. IsFiniteSet(boards) /\ boards \subseteq Names
  <2>1. \A T \in { rows[i] : i \in ids } : IsFiniteSet(T)
    BY <1>2
  <2>2. IsFiniteSet(boards)
    BY <1>3, <2>1, FS_UNION
  <2>3. QED BY <1>2, <2>2
<1>5. \A b \in boards : b[1] \in ids
  OBVIOUS
<1>6. boards = UNION { {i} \X (1 .. (IF request.cards[i].count > 0 THEN request.cards[i].count ELSE 1)) : i \in ids }
  BY DEF size
<1> HIDE DEF boards
<1>7. Fleet(request, ids) = [ b \in boards |-> Lens[request.cards[b[1]].camera] ]
  BY <1>6 DEF Fleet
<1>8. QED BY <1>4, <1>5, <1>7

(* What the worker does not complain about fits, once the bridge let it through. *)
LEMMA WorkerCardsFit ==
  ASSUME request \in Requests, Mismatched(request) = {}, WorkerComplaint(request) = "none"
  PROVE  \A i \in CardIds(request) :
           request.cards[i].camera \in Cameras /\ Fitting(request.cards[i])
<1> DEFINE faults == [ i \in CardIds(request) |-> WorkerFault(request, request.cards[i]) ]
<1>1. DOMAIN faults \subseteq Nat
  BY PathAssumption DEF CardIds
<1>2. FirstFault(faults) = "none"
  BY DEF WorkerComplaint
<1> HIDE DEF faults
<1>3. \A i \in DOMAIN faults : faults[i] = "none"
  BY <1>1, <1>2, FirstFaultIsOne
<1>4. ASSUME NEW i \in CardIds(request)
      PROVE  request.cards[i].camera \in Cameras /\ Fitting(request.cards[i])
  <2>1. WorkerFault(request, request.cards[i]) = "none"
    BY <1>3 DEF faults
  <2>2. /\ request.cards[i].camera \in Cameras /\ WorkerPairs(request.cards[i])
        /\ request.cards[i].model \in Flies /\ request.cards[i].pad \in PadIds(request)
    BY <2>1 DEF WorkerFault, ModelFault
  <2>3. request.spectrum # AnySpectrum => Fits(request, request.cards[i])
    BY <1>4 DEF Mismatched
  <2>4. QED BY <2>2, <2>3 DEF Fitting
<1>5. QED BY <1>4

LEMMA EnvelopeCardsFit ==
  ASSUME request \in Requests, EnvelopeComplaint(request) = "none", EnvelopeFlies(request)
  PROVE  \A i \in Admitted(request) :
           request.cards[i].camera \in Cameras /\ Fitting(request.cards[i])
<1> DEFINE forms == [ i \in CardIds(request) |-> EnvelopeCard(request, request.cards[i]) ]
           faults == [ i \in CardIds(request) |-> EnvelopeFault(request, request.cards[i]) ]
<1>1. DOMAIN faults \subseteq Nat /\ DOMAIN forms \subseteq Nat
  BY PathAssumption DEF CardIds
<1>2. FirstFault(faults) = "none" /\ FirstFault(forms) = "none"
  BY DEF EnvelopeComplaint
<1> HIDE DEF faults, forms
<1>3. /\ \A i \in DOMAIN faults : faults[i] = "none"
      /\ \A i \in DOMAIN forms : forms[i] = "none"
  BY <1>1, <1>2, FirstFaultIsOne
<1>4. ASSUME NEW i \in Admitted(request)
      PROVE  request.cards[i].camera \in Cameras /\ Fitting(request.cards[i])
  <2>1. /\ i \in CardIds(request) /\ Fits(request, request.cards[i])
        /\ request.cards[i].model \in Flies
    BY <1>4 DEF Admitted, EnvelopeFlies
  <2>2. /\ EnvelopeFault(request, request.cards[i]) = "none"
        /\ EnvelopeCard(request, request.cards[i]) = "none"
    BY <1>3, <2>1 DEF faults, forms
  <2>3. Compatible(request.cards[i]) /\ request.cards[i].pad \in PadIds(request)
    BY <2>2 DEF EnvelopeFault, EnvelopeCard
  <2>4. QED BY <2>1, <2>3 DEF Fitting, WorkerPairs, Fits
<1>5. QED BY <1>4

-----------------------------------------------------------------------------
(* The request *)

Ending(o, w) == answer = [outcome |-> o, why |-> w]

NoSwaths == request.area => \A b \in Boards : Swaths(b) = {}

(* What is behind a kill, and behind a refused scenario of the legacy backend. *)
SlowStep ==
  engine # "hung" /\ (\A d, e \in StepTimes : d + e <= ClientBuffer) => HaveRoute

CardsRefused ==
  ~isolated /\ EnvelopeSurvey(request) /\ EnvelopeComplaint(request) = "none" /\ request.params
    => ~EnvelopeFlies(request)

(* Every ending, with what it means. *)
Reasons ==
  \/ \E w \in {"input", "envelope", "terrain", "launch", "died", "raised"} : Ending("error", w)
  \/ Ending("error", "killed") /\ SlowStep
  \/ Ending("error", "cards") /\ CardsRefused
  \/ Ending("infeasible", "empty") /\ CardIds(request) = {}
  \/ Ending("infeasible", "spectrum") /\ Admitted(request) # CardIds(request)
  \/ Ending("infeasible", "uncovered") /\ ~Covered
  \/ Ending("infeasible", "nothing") /\ NoSwaths
  \/ Ending("infeasible", "clearance") /\ request.strict
  \/ Ending("timed_out", "due") /\ now >= due /\ ~HaveRoute
  \/ Ending("timed_out", "budget") /\ now >= deadline /\ ~HaveRoute
  \/ Ending("feasible", "plan") /\ Covered

CardsFit == \A b \in Boards : Fitting(request.cards[b[1]])

(* The budgets, each above the one it was computed from. *)
Budgets ==
  /\ due \in Int /\ deadline \in Int /\ remaining \in Nat /\ killAt \in Nat
  /\ stage \in {"terrain", "launch", "worker"} => remaining >= 1
  /\ stage = "worker" => killAt = now + remaining + ClientBuffer
  /\ stage = "plan" /\ isolated => \E d \in StepTimes : killAt + d = deadline + ClientBuffer

Places ==
  /\ stage \notin {"plan", "answered"} => engine = "idle"
  /\ stage \in {"bridge", "terrain", "launch", "worker"} => isolated
  /\ stage = "envelope" => ~isolated
  /\ stage \in {"terrain", "launch", "worker"} => Mismatched(request) = {}

Answers == IF stage = "answered" THEN Reasons ELSE answer = None

IInv == PlanInv /\ CardsFit /\ Budgets /\ Places /\ Answers

(* Outside plan() the engine waits. *)
LEMMA EngineWaits ==
  ASSUME PlanInv, CardsFit, UNCHANGED <<engineVars, request>>, now' \in Nat,
         now' = now \/ engine # "stopped"
  PROVE  PlanInv' /\ CardsFit'
<1>1. UNCHANGED <<deadline, fleet, isolated, engine, group, board, cursor, sorties, uncovered,
                  routed, verdict, request>>
  BY DEF engineVars
<1>2. FleetHolds' /\ Apart' /\ Missed' /\ Routes' /\ (AllDone => AllDone')
      /\ (AtGroup => AtGroup') /\ (\A n : HandedOut(n) => HandedOut(n)')
  BY <1>1, SameSorties
<1>3. Boards' = Boards /\ \A b : Spacing(b)' = Spacing(b) /\ Swaths(b)' = Swaths(b)
  BY <1>1 DEF Boards, Spacing, Swaths
<1>4. AtBoard => AtBoard'
  <2>1. Members' = Members /\ Earlier(board)' = Earlier(board) /\ Spacing(group)' = Spacing(group)
    BY <1>1, <1>3 DEF Members, Earlier, Before
  <2>2. \A i : Placed(Spacing(group), i)' <=> Placed(Spacing(group), i)
    BY <1>1, <1>3 DEF Placed, Flown
  <2>3. QED BY <1>1, <2>1, <2>2 DEF AtBoard
<1>5. HandedOut(cursor) => HandedOut(cursor)'
  BY <1>1, <1>2 DEF HandedOut
<1>6. Stages'
  BY <1>1, <1>2, <1>3, <1>4, <1>5 DEF PlanInv, Stages, Looking
<1>7. Ended'
  BY <1>1, <1>2, <1>3 DEF PlanInv, Ended, Stages, HaveRoute
<1>8. CardsFit'
  BY <1>1, <1>3 DEF CardsFit, Fitting, Fits, PadIds
<1>9. QED BY <1>2, <1>6, <1>7, <1>8 DEF PlanInv

(* A stage other than plan() moves on, or answers. *)
LEMMA StageStep ==
  ASSUME IInv, UNCHANGED <<engineVars, request>>, now' \in Nat,
         now' = now \/ engine # "stopped",
         due' \in Int, remaining' \in Nat, killAt' \in Nat,
         \/ stage' = "answered" /\ Reasons'
         \/ /\ stage' \in {"solve", "bridge", "envelope", "terrain", "launch", "worker"}
            /\ engine = "idle" /\ answer' = None
            /\ stage' \in {"bridge", "terrain", "launch", "worker"} => isolated
            /\ stage' = "envelope" => ~isolated
            /\ stage' \in {"terrain", "launch", "worker"} =>
                 Mismatched(request) = {} /\ remaining' >= 1
            /\ stage' = "worker" => killAt' = now' + remaining' + ClientBuffer
  PROVE  IInv'
<1>1. PlanInv' /\ CardsFit'
  BY EngineWaits DEF IInv
<1>2. deadline' = deadline /\ isolated' = isolated /\ engine' = engine
  BY DEF engineVars
<1>3. Budgets'
  BY <1>2 DEF IInv, Budgets
<1>4. Places'
  <2>1. Mismatched(request)' = Mismatched(request)
    BY DEF Mismatched, CardIds, Fits
  <2>2. QED BY <1>2, <2>1 DEF Places
<1>5. Answers'
  BY DEF Answers, None
<1>6. QED BY <1>1, <1>3, <1>4, <1>5 DEF IInv

(* The stages before a backend plans. *)
LEMMA EarlyStep ==
  ASSUME IInv, Ingest \/ Dispatch \/ EnterBridge \/ AcquireTerrain \/ LaunchWorker
  PROVE  IInv'
<1>1. /\ PlanInv /\ CardsFit /\ Budgets /\ Places /\ now \in Nat /\ request \in Requests
      /\ due \in Int /\ remaining \in Nat /\ killAt \in Nat
  BY DEF IInv, PlanInv, FleetHolds, Budgets
<1>2. /\ stage \in {"ingest", "solve", "bridge", "terrain", "launch"}
      /\ engine = "idle" /\ answer = None /\ UNCHANGED <<engineVars, request>>
  BY DEF Ingest, Dispatch, EnterBridge, AcquireTerrain, LaunchWorker, IInv, Places, Answers
<1>3. \A w \in {"input", "envelope", "terrain", "launch"} : Answer("error", w) => Reasons'
  BY DEF Answer, Reasons, Ending
<1>4. CASE Ingest
  <2>1. due' \in Int /\ now' = now /\ UNCHANGED <<remaining, killAt>>
    BY <1>1, <1>4, PathAssumption DEF Ingest
  <2>2. (stage' = "solve" /\ answer' = answer) \/ Answer("error", "input")
    BY <1>4 DEF Ingest
  <2>3. CASE Answer("error", "input")
    BY <1>1, <1>2, <1>3, <2>1, <2>3, StageStep DEF Answer
  <2>4. CASE stage' = "solve" /\ answer' = answer
    BY <1>1, <1>2, <2>1, <2>4, StageStep
  <2>5. QED BY <2>2, <2>3, <2>4
<1>5. CASE Dispatch
  <2>1. now' = now /\ UNCHANGED <<due, remaining, killAt>>
    BY <1>5 DEF Dispatch
  <2>2. \/ stage' = (IF isolated THEN "bridge" ELSE "envelope") /\ answer' = answer
        \/ Answer("error", "envelope")
    BY <1>5 DEF Dispatch
  <2>3. CASE Answer("error", "envelope")
    BY <1>1, <1>2, <1>3, <2>1, <2>3, StageStep DEF Answer
  <2>4. CASE stage' = (IF isolated THEN "bridge" ELSE "envelope") /\ answer' = answer
    <3>1. \/ stage' = "bridge" /\ isolated
          \/ stage' = "envelope" /\ ~isolated
      BY <2>4
    <3>2. QED BY <1>1, <1>2, <2>1, <2>4, <3>1, StageStep
  <2>5. QED BY <2>2, <2>3, <2>4
<1>6. CASE EnterBridge
  <2>1. now' = now /\ UNCHANGED <<due, killAt>> /\ isolated
    BY <1>1, <1>6 DEF EnterBridge, Places
  <2>2. CASE Mismatched(request) = {}
    <3>1. stage' = "terrain" /\ remaining' = Remaining /\ answer' = answer
      BY <1>6, <2>2 DEF EnterBridge
    <3>2. remaining' \in Nat /\ remaining' >= 1
      BY <1>1, <3>1 DEF Remaining
    <3>3. QED BY <1>1, <1>2, <2>1, <2>2, <3>1, <3>2, StageStep
  <2>3. CASE Mismatched(request) # {}
    <3>1. Answer("infeasible", "spectrum") /\ remaining' = remaining
      BY <1>6, <2>3 DEF EnterBridge
    <3>2. Admitted(request) # CardIds(request)
      BY <2>3 DEF Admitted, Mismatched
    <3>3. Reasons'
      BY <1>2, <3>1, <3>2 DEF Answer, Reasons, Ending, Admitted, CardIds, Fits
    <3>4. QED BY <1>1, <1>2, <2>1, <3>1, <3>3, StageStep DEF Answer
  <2>4. QED BY <2>2, <2>3
<1>7. CASE AcquireTerrain
  <2>1. now' \in Nat /\ UNCHANGED <<due, remaining, killAt>> /\ remaining >= 1
        /\ isolated /\ Mismatched(request) = {}
    BY <1>1, <1>7, EngineAssumption DEF AcquireTerrain, Budgets, Places
  <2>2. (stage' = "launch" /\ answer' = answer) \/ Answer("error", "terrain")
    BY <1>7 DEF AcquireTerrain
  <2>3. CASE Answer("error", "terrain")
    BY <1>1, <1>2, <1>3, <2>1, <2>3, StageStep DEF Answer
  <2>4. CASE stage' = "launch" /\ answer' = answer
    BY <1>1, <1>2, <2>1, <2>4, StageStep
  <2>5. QED BY <2>2, <2>3, <2>4
<1>8. CASE LaunchWorker
  <2>1. now' = now /\ UNCHANGED <<due, remaining>> /\ remaining >= 1
        /\ isolated /\ Mismatched(request) = {}
    BY <1>1, <1>8 DEF LaunchWorker, Budgets, Places
  <2>2. \/ stage' = "worker" /\ killAt' = now + remaining + ClientBuffer /\ answer' = answer
        \/ Answer("error", "launch") /\ killAt' = killAt
    BY <1>8 DEF LaunchWorker
  <2>3. CASE Answer("error", "launch") /\ killAt' = killAt
    BY <1>1, <1>2, <1>3, <2>1, <2>3, StageStep DEF Answer
  <2>4. CASE stage' = "worker" /\ killAt' = now + remaining + ClientBuffer /\ answer' = answer
    <3>1. killAt' \in Nat /\ killAt' = now' + remaining' + ClientBuffer
      BY <1>1, <2>1, <2>4, PathAssumption
    <3>2. QED BY <1>1, <1>2, <2>1, <2>4, <3>1, StageStep
  <2>5. QED BY <2>2, <2>3, <2>4
<1>9. QED BY <1>4, <1>5, <1>6, <1>7, <1>8

(* plan() begins with the fleet of the cards that were let through. *)
LEMMA PlanBegins ==
  ASSUME IInv, engine = "idle", engine' = "begin", now' \in Nat,
         UNCHANGED <<isolated, group, board, cursor, sorties, uncovered, routed, verdict, request>>,
         NEW ids, ids \subseteq CardIds(request), fleet' = Fleet(request, ids),
         \A i \in ids : request.cards[i].camera \in Cameras /\ Fitting(request.cards[i])
  PROVE  PlanInv' /\ CardsFit'
<1>1. /\ request \in Requests /\ sorties = {} /\ uncovered = {} /\ routed = {} /\ verdict = "none"
  BY DEF IInv, PlanInv, FleetHolds, Stages
<1>2. /\ Boards' \subseteq Names /\ IsFiniteSet(Boards')
      /\ \A b \in Boards' : b[1] \in ids /\ fleet'[b] = Lens[request.cards[b[1]].camera]
  BY <1>1, FleetOfCards DEF Boards
<1>3. FleetHolds'
  BY <1>1, <1>2 DEF FleetHolds
<1>4. Apart' /\ Missed' /\ Stages' /\ Routes' /\ Ended'
  BY <1>1 DEF Apart, Missed, Stages, Looking, Routes, Ended
<1>5. CardsFit'
  BY <1>2 DEF CardsFit, Fitting, Fits, PadIds
<1>6. QED BY <1>3, <1>4, <1>5 DEF PlanInv

(* The answer of a worker or an envelope that does not plan: its clock moves. *)
LEMMA RefusedStep ==
  ASSUME IInv, engine = "idle", now' \in Nat, deadline' \in Int, stage' = "answered", Reasons',
         UNCHANGED <<fleet, engine, isolated, group, board, cursor, sorties, uncovered, routed,
                     verdict, request, due, remaining, killAt>>
  PROVE  IInv'
<1>1. /\ PlanInv /\ CardsFit /\ verdict = "none" /\ Budgets
      /\ sorties = {} /\ uncovered = {} /\ routed = {}
  BY DEF IInv, PlanInv, Stages
<1>2. FleetHolds' /\ Apart' /\ Missed' /\ Routes'
  BY <1>1, SameSorties
<1>3. Stages' /\ Ended'
  BY <1>1 DEF Stages, Looking, Ended
<1>4. CardsFit'
  BY <1>1 DEF CardsFit, Fitting, Fits, PadIds, Boards
<1>5. Budgets' /\ Places' /\ Answers'
  BY <1>1 DEF Budgets, Places, Answers
<1>6. QED BY <1>2, <1>3, <1>4, <1>5 DEF IInv, PlanInv

LEMMA WorkerStep ==
  ASSUME IInv, StartWorker
  PROVE  IInv'
<1>1. /\ stage = "worker" /\ engine = "idle" /\ isolated /\ answer = None
      /\ Mismatched(request) = {} /\ remaining \in Nat /\ remaining >= 1
      /\ killAt = now + remaining + ClientBuffer /\ killAt \in Nat /\ due \in Int
      /\ now \in Nat /\ request \in Requests /\ deadline \in Int
  BY DEF StartWorker, IInv, Places, Budgets, Answers, PlanInv, FleetHolds
<1>2. PICK d \in StepTimes, e \in StepTimes :
        /\ now' = now + d + e
        /\ deadline' = now + d + (IF remaining = 0 THEN DefaultLimit ELSE remaining)
  BY DEF StartWorker
<1>3. /\ now' \in Nat /\ deadline' \in Int
      /\ killAt + d = deadline' + ClientBuffer
  BY <1>1, <1>2, EngineAssumption, PathAssumption
<1>4. UNCHANGED <<isolated, group, board, cursor, sorties, uncovered, routed, verdict, request,
                  due, remaining, killAt>>
  BY DEF StartWorker, Planning
<1>5. CASE WorkerComplaint(request) = "none" /\ WorkerSurvey(request)
  <2>1. /\ stage' = "plan" /\ engine' = "begin" /\ fleet' = Fleet(request, CardIds(request))
        /\ answer' = answer
    BY <1>5 DEF StartWorker
  <2>2. \A i \in CardIds(request) :
          request.cards[i].camera \in Cameras /\ Fitting(request.cards[i])
    BY <1>1, <1>5, WorkerCardsFit
  <2>3. PlanInv' /\ CardsFit'
    BY <1>1, <1>3, <1>4, <2>1, <2>2, PlanBegins
  <2>4. Budgets'
    BY <1>1, <1>2, <1>3, <1>4, <2>1 DEF Budgets
  <2>5. Places' /\ Answers'
    BY <1>1, <2>1 DEF Places, Answers, None
  <2>6. QED BY <2>3, <2>4, <2>5 DEF IInv
<1>6. CASE ~(WorkerComplaint(request) = "none" /\ WorkerSurvey(request))
  <2>1. Answer("error", "cards") /\ UNCHANGED <<engine, fleet>>
    BY <1>6 DEF StartWorker
  <2>2. Reasons'
    BY <1>1, <1>4, <2>1 DEF Answer, Reasons, Ending, CardsRefused
  <2>3. QED BY <1>1, <1>3, <1>4, <2>1, <2>2, RefusedStep DEF Answer
<1>7. QED BY <1>5, <1>6

LEMMA EnvelopeStep ==
  ASSUME IInv, EnterEnvelope
  PROVE  IInv'
<1>1. /\ stage = "envelope" /\ engine = "idle" /\ ~isolated /\ answer = None /\ sorties = {}
      /\ due \in Int /\ now \in Nat /\ request \in Requests /\ deadline \in Int
      /\ remaining \in Nat /\ killAt \in Nat
  BY DEF EnterEnvelope, IInv, Places, Budgets, Answers, PlanInv, FleetHolds, Stages
<1>2. now' \in Nat /\ now' >= now
  BY <1>1, EngineAssumption DEF EnterEnvelope
<1>3. UNCHANGED <<isolated, group, board, cursor, sorties, uncovered, routed, verdict, request,
                  due, remaining, killAt>>
  BY DEF EnterEnvelope, Planning
<1>4. CASE EnvelopeAnswer = <<"none", "none">>
  <2>1. /\ stage' = "plan" /\ engine' = "begin" /\ fleet' = Fleet(request, Admitted(request))
        /\ answer' = answer /\ deadline' = due
    BY <1>4 DEF EnterEnvelope
  <2>2. EnvelopeComplaint(request) = "none" /\ EnvelopeFlies(request)
    BY <1>4, SMT DEF EnvelopeAnswer
  <2>3. \A i \in Admitted(request) :
          request.cards[i].camera \in Cameras /\ Fitting(request.cards[i])
    BY <1>1, <2>2, EnvelopeCardsFit
  <2>4. Admitted(request) \subseteq CardIds(request)
    BY DEF Admitted
  <2>5. PlanInv' /\ CardsFit'
    BY <1>1, <1>2, <1>3, <2>1, <2>3, <2>4, PlanBegins
  <2>6. Budgets' /\ Places' /\ Answers'
    BY <1>1, <1>3, <2>1 DEF Budgets, Places, Answers, None
  <2>7. QED BY <2>5, <2>6 DEF IInv
<1>5. CASE EnvelopeAnswer # <<"none", "none">>
  <2>1. Answer(EnvelopeAnswer[1], EnvelopeAnswer[2]) /\ UNCHANGED <<engine, fleet, deadline>>
    BY <1>5 DEF EnterEnvelope
  <2>2. \/ EnvelopeAnswer = <<"timed_out", "due">> /\ now' >= due
        \/ EnvelopeAnswer = <<"error", "cards">> /\ CardsRefused
        \/ EnvelopeAnswer = <<"infeasible", "empty">> /\ CardIds(request) = {}
        \/ EnvelopeAnswer = <<"infeasible", "spectrum">> /\ Admitted(request) # CardIds(request)
    <3> DEFINE built == EnvelopeFlies(request) /\ request.params
               refused == ~EnvelopeSurvey(request) \/ EnvelopeComplaint(request) # "none"
    <3>1. CASE now >= due
      BY <1>1, <1>2, <3>1 DEF EnvelopeAnswer
    <3>2. CASE ~(now >= due) /\ refused
      <4>1. EnvelopeAnswer = <<"error", "cards">>
        BY <3>2 DEF EnvelopeAnswer
      <4>2. QED BY <3>2, <4>1 DEF CardsRefused
    <3>3. CASE ~(now >= due) /\ ~refused /\ CardIds(request) = {}
      BY <3>3 DEF EnvelopeAnswer
    <3>4. CASE ~(now >= due) /\ ~refused /\ CardIds(request) # {} /\ Admitted(request) = {}
      BY <3>4 DEF EnvelopeAnswer
    <3>5. CASE ~(now >= due) /\ ~refused /\ CardIds(request) # {} /\ Admitted(request) # {} /\ ~built
      <4>1. EnvelopeAnswer = <<"error", "cards">>
        BY <3>5 DEF EnvelopeAnswer
      <4>2. QED BY <3>5, <4>1 DEF CardsRefused
    <3>6. CASE ~(now >= due) /\ ~refused /\ CardIds(request) # {} /\ Admitted(request) # {} /\ built
      <4>1. EnvelopeAnswer = IF now' >= due THEN <<"timed_out", "due">> ELSE <<"none", "none">>
        BY <3>6 DEF EnvelopeAnswer
      <4>2. QED BY <1>5, <4>1
    <3>7. QED BY <3>1, <3>2, <3>3, <3>4, <3>5, <3>6
  <2>3. \/ Answer("timed_out", "due") /\ now' >= due
        \/ Answer("error", "cards") /\ CardsRefused
        \/ Answer("infeasible", "empty") /\ CardIds(request) = {}
        \/ Answer("infeasible", "spectrum") /\ Admitted(request) # CardIds(request)
    BY <2>1, <2>2
  <2>4. Reasons'
    <3>1. CASE Answer("timed_out", "due") /\ now' >= due
      BY <1>1, <1>3, <3>1 DEF Answer, Reasons, Ending, HaveRoute
    <3>2. CASE Answer("error", "cards") /\ CardsRefused
      <4>1. CardsRefused'
        BY <1>3, <3>2 DEF CardsRefused
      <4>2. QED BY <3>2, <4>1 DEF Answer, Reasons, Ending
    <3>3. CASE Answer("infeasible", "empty") /\ CardIds(request) = {}
      BY <1>3, <3>3 DEF Answer, Reasons, Ending, CardIds
    <3>4. CASE Answer("infeasible", "spectrum") /\ Admitted(request) # CardIds(request)
      BY <1>3, <3>4 DEF Answer, Reasons, Ending, CardIds, Admitted, Fits
    <3>5. QED BY <2>3, <3>1, <3>2, <3>3, <3>4
  <2>5. deadline' \in Int /\ stage' = "answered"
    BY <1>1, <2>1 DEF Answer
  <2>6. QED BY <1>1, <1>2, <1>3, <2>1, <2>4, <2>5, RefusedStep
<1>6. QED BY <1>4, <1>5

(* Every step of plan() keeps what it does to the sorties, and its own deadline. *)
LEMMA PlanningStep ==
  ASSUME IInv, PlanStep
  PROVE  IInv'
<1>1. PlanInv /\ stage = "plan" /\ UNCHANGED pathVars /\ request' = request
  BY DEF IInv, PlanStep, pathVars
<1>2. BeginPlan(request.area) \/ Plan
  BY DEF PlanStep
<1>3. PlanInv'
  BY <1>1, <1>2, BeginStep, GenerateStep, PackStep, AfterStep, PlaceStep, RouteStep, RaiseStep
     DEF Plan
<1>4. UNCHANGED <<deadline, fleet, isolated>>
  BY <1>2 DEF BeginPlan, Plan, GenerateSwaths, Hang, PackBoard, AfterPacking, PlaceSorties,
     BuildRoute, EngineRaises
<1>5. CardsFit'
  BY <1>1, <1>4 DEF IInv, CardsFit, Fitting, Fits, PadIds, Boards
<1>6. Budgets' /\ Places' /\ Answers'
  BY <1>1, <1>4 DEF pathVars, IInv, Budgets, Places, Answers
<1>7. QED BY <1>3, <1>5, <1>6 DEF IInv

(* A worker is killed in a step that is too long, or with a route. *)
LEMMA KillStep ==
  ASSUME IInv, KillWorker
  PROVE  IInv'
<1>1. /\ UNCHANGED <<engineVars, request, due, remaining, killAt>> /\ now' = killAt
      /\ Answer("error", "killed")
      /\ \/ stage = "worker"
         \/ stage = "plan" /\ isolated /\ Busy
      /\ engine = "hung" \/ \E d \in StepTimes : now + d > killAt
  BY DEF KillWorker, WorkerIsBusy
<1>2. /\ due \in Int /\ deadline \in Int /\ remaining \in Nat /\ killAt \in Nat /\ now \in Nat
      /\ stage = "worker" => engine = "idle" /\ remaining >= 1 /\ killAt = now + remaining + ClientBuffer
      /\ stage = "plan" /\ isolated => \E d \in StepTimes : killAt + d = deadline + ClientBuffer
      /\ engine \in {"place", "route"} => HaveRoute
  BY DEF IInv, Budgets, Places, PlanInv, Stages, HaveRoute
<1>3. engine # "stopped"
  BY <1>1, <1>2 DEF Busy
<1>4. SlowStep
  <2> SUFFICES ASSUME engine # "hung", \A d, e \in StepTimes : d + e <= ClientBuffer, ~HaveRoute
               PROVE  FALSE
    BY DEF SlowStep
  <2>1. PICK d \in StepTimes : now + d > killAt
    BY <1>1
  <2>2. d \in Nat /\ ClientBuffer \in Nat
    BY EngineAssumption, PathAssumption
  <2>3. CASE stage = "worker"
    <3>1. d + d <= ClientBuffer
      OBVIOUS
    <3>2. QED BY <1>2, <2>1, <2>2, <2>3, <3>1
  <2>4. CASE stage = "plan" /\ isolated /\ Busy
    <3>1. now < deadline
      BY <1>2, <2>4 DEF Busy, OutOfBudget
    <3>2. PICK e \in StepTimes : killAt + e = deadline + ClientBuffer
      BY <1>2, <2>4
    <3>3. e \in Nat /\ e + d <= ClientBuffer
      BY <3>2, EngineAssumption
    <3>4. QED BY <1>2, <2>1, <2>2, <3>1, <3>2, <3>3
  <2>5. QED BY <1>1, <2>3, <2>4
<1>5. SlowStep'
  BY <1>1, <1>4 DEF SlowStep, HaveRoute, engineVars
<1>6. Reasons' /\ stage' = "answered"
  BY <1>1, <1>5 DEF Answer, Reasons, Ending
<1>7. QED BY <1>1, <1>2, <1>3, <1>6, StageStep

LEMMA DieStep ==
  ASSUME IInv, WorkerDies
  PROVE  IInv'
<1>1. /\ UNCHANGED <<now, engineVars, request, due, remaining, killAt>> /\ Answer("error", "died")
  BY DEF WorkerDies
<1>2. due \in Int /\ remaining \in Nat /\ killAt \in Nat /\ now \in Nat
  BY DEF IInv, Budgets, PlanInv
<1>3. Reasons' /\ stage' = "answered"
  BY <1>1 DEF Answer, Reasons, Ending
<1>4. QED BY <1>1, <1>2, <1>3, StageStep

(* A candidate flies every swath once; what was left out is flown by nobody. *)
LEMMA CandidateCovers ==
  ASSUME PlanInv
  PROVE  /\ verdict = "candidate" => Covered
         /\ verdict = "uncovered" => ~Covered
<1> DEFINE flying(b, i) == { s \in routed : Spacing(s.board) = Spacing(b) /\ i \in s.swaths }
<1>1. ASSUME verdict = "candidate", NEW b \in Boards, NEW i \in Swaths(b)
      PROVE  Cardinality(flying(b, i)) = 1
  <2>1. /\ AllDone /\ uncovered = {} /\ routed = sorties /\ Apart
    BY <1>1 DEF PlanInv, Ended
  <2>2. Placed(Spacing(b), i)
    BY <1>1, <2>1 DEF AllDone, AllPlaced, Swaths
  <2>3. PICK s \in routed : Spacing(s.board) = Spacing(b) /\ i \in s.swaths
    BY <2>1, <2>2 DEF Placed, Flown
  <2>4. \A t \in flying(b, i) : t = s
    BY <2>1, <2>3 DEF Apart
  <2>5. flying(b, i) = {s}
    BY <2>3, <2>4
  <2>6. QED BY <2>5, FS_Singleton
<1>2. ASSUME verdict = "uncovered"
      PROVE  ~Covered
  <2>1. PICK u \in uncovered : TRUE
    BY <1>2 DEF PlanInv, Ended
  <2>2. PICK b \in Boards : Spacing(b) = u[1] /\ u[2] \in Swaths(b) /\ ~Flown(u[1], u[2])
    BY <2>1 DEF PlanInv, Missed
  <2>3. flying(b, u[2]) = {}
    BY <2>2 DEF PlanInv, Routes, Flown
  <2>4. Cardinality(flying(b, u[2])) = 0
    BY <2>3, FS_EmptySet
  <2>5. QED BY <2>2, <2>4 DEF Covered
<1>3. QED BY <1>1, <1>2 DEF Covered

LEMMA ConcludeStep ==
  ASSUME IInv, Conclude
  PROVE  IInv'
<1> DEFINE outcome == IF isolated THEN WorkerOutcome ELSE EnvelopeOutcome
<1>1. /\ UNCHANGED <<now, engineVars, request, due, remaining, killAt>>
      /\ stage = "plan" /\ engine = "stopped" /\ Answer(outcome[1], outcome[2])
  BY DEF Conclude
<1>2. /\ due \in Int /\ remaining \in Nat /\ killAt \in Nat /\ now \in Nat
      /\ PlanInv /\ Ended /\ Routes
  BY DEF IInv, Budgets, PlanInv
<1>3. verdict \in {"candidate", "uncovered", "nothing", "budget", "raised"}
  BY <1>1 DEF IInv, PlanInv, Stages
<1>4. ~isolated => verdict # "uncovered"
  BY <1>2 DEF Ended, Routes
<1>5. \/ outcome = <<"feasible", "plan">> /\ verdict = "candidate"
      \/ outcome = <<"infeasible", "clearance">> /\ request.strict
      \/ outcome = <<"infeasible", "uncovered">> /\ verdict = "uncovered"
      \/ outcome = <<"infeasible", "nothing">> /\ verdict = "nothing"
      \/ outcome = <<"timed_out", "budget">> /\ verdict = "budget"
      \/ outcome = <<"error", "raised">>
  <2>1. CASE isolated
    <3>1. outcome = WorkerOutcome
      BY <2>1
    <3> HIDE DEF outcome
    <3>2. QED BY <1>3, <3>1 DEF WorkerOutcome
  <2>2. CASE ~isolated
    <3>1. outcome = EnvelopeOutcome
      BY <2>2
    <3> HIDE DEF outcome
    <3>2. QED BY <1>3, <1>4, <2>2, <3>1 DEF EnvelopeOutcome
  <2>3. QED BY <2>1, <2>2
<1> HIDE DEF outcome
<1>6. \/ Answer("feasible", "plan") /\ Covered
      \/ Answer("infeasible", "clearance") /\ request.strict
      \/ Answer("infeasible", "uncovered") /\ ~Covered
      \/ Answer("infeasible", "nothing") /\ NoSwaths
      \/ Answer("timed_out", "budget") /\ now >= deadline /\ ~HaveRoute
      \/ Answer("error", "raised")
  BY <1>1, <1>2, <1>5, CandidateCovers DEF Ended, NoSwaths
<1>7. /\ (Covered' <=> Covered) /\ (NoSwaths' <=> NoSwaths) /\ (HaveRoute' <=> HaveRoute)
      /\ deadline' = deadline
  <2>1. /\ UNCHANGED <<fleet, routed, sorties, deadline>> /\ Boards' = Boards
        /\ \A b : Spacing(b)' = Spacing(b) /\ Swaths(b)' = Swaths(b)
    BY <1>1 DEF engineVars, Boards, Spacing, Swaths
  <2>2. Covered' <=> Covered
    BY <2>1 DEF Covered
  <2>3. QED BY <1>1, <2>1, <2>2 DEF NoSwaths, HaveRoute
<1>8. Reasons'
  <2>1. CASE Answer("feasible", "plan") /\ Covered
    BY <1>7, <2>1 DEF Answer, Reasons, Ending
  <2>2. CASE Answer("infeasible", "clearance") /\ request.strict
    BY <1>1, <2>2 DEF Answer, Reasons, Ending
  <2>3. CASE Answer("infeasible", "uncovered") /\ ~Covered
    BY <1>7, <2>3 DEF Answer, Reasons, Ending
  <2>4. CASE Answer("infeasible", "nothing") /\ NoSwaths
    BY <1>7, <2>4 DEF Answer, Reasons, Ending
  <2>5. CASE Answer("timed_out", "budget") /\ now >= deadline /\ ~HaveRoute
    BY <1>1, <1>7, <2>5 DEF Answer, Reasons, Ending
  <2>6. CASE Answer("error", "raised")
    BY <2>6 DEF Answer, Reasons, Ending
  <2>7. QED BY <1>6, <2>1, <2>2, <2>3, <2>4, <2>5, <2>6
<1>9. QED BY <1>1, <1>2, <1>8, StageStep DEF Answer

LEMMA InitHolds ==
  ASSUME Init
  PROVE  IInv
<1>1. /\ request \in Requests /\ now = 0 /\ deadline = 0 /\ fleet = Fleet(request, {})
      /\ stage = "ingest" /\ due = 0 /\ remaining = 0 /\ killAt = 0 /\ answer = None
      /\ engine = "idle" /\ sorties = {} /\ uncovered = {} /\ routed = {} /\ verdict = "none"
  BY DEF Init, EngineIdle
<1>2. Boards = {}
  BY <1>1 DEF Boards, Fleet
<1>3. PlanInv
  <2>1. FleetHolds
    BY <1>1, <1>2, FS_EmptySet DEF FleetHolds
  <2>2. Apart /\ Missed /\ Stages /\ Routes /\ Ended
    BY <1>1 DEF Apart, Missed, Stages, Looking, Routes, Ended
  <2>3. QED BY <1>1, <2>1, <2>2 DEF PlanInv
<1>4. CardsFit /\ Budgets /\ Places /\ Answers
  BY <1>1, <1>2 DEF CardsFit, Budgets, Places, Answers
<1>5. QED BY <1>3, <1>4 DEF IInv

LEMMA InvStep ==
  ASSUME IInv, [Next]_vars
  PROVE  IInv'
<1>1. CASE Ingest \/ Dispatch \/ EnterBridge \/ AcquireTerrain \/ LaunchWorker
  BY <1>1, EarlyStep
<1>2. CASE StartWorker
  BY <1>2, WorkerStep
<1>3. CASE EnterEnvelope
  BY <1>3, EnvelopeStep
<1>4. CASE PlanStep
  BY <1>4, PlanningStep
<1>5. CASE KillWorker
  BY <1>5, KillStep
<1>6. CASE WorkerDies
  BY <1>6, DieStep
<1>7. CASE Conclude
  BY <1>7, ConcludeStep
<1>8. CASE UNCHANGED vars
  <2>1. UNCHANGED <<engineVars, request, now>> /\ now' \in Nat
    BY <1>8 DEF vars, pathVars, IInv, PlanInv
  <2>2. PlanInv' /\ CardsFit'
    BY <2>1, EngineWaits DEF IInv
  <2>3. Budgets' /\ Places'
    BY <1>8 DEF vars, pathVars, engineVars, IInv, Budgets, Places
  <2>4. Reasons => Reasons'
    <3>1. /\ UNCHANGED <<answer, engine, sorties, isolated, request, now, due, deadline, routed, fleet>>
          /\ Boards' = Boards /\ \A b : Spacing(b)' = Spacing(b) /\ Swaths(b)' = Swaths(b)
      BY <1>8 DEF vars, pathVars, engineVars, Boards, Spacing, Swaths
    <3>2. /\ Covered' <=> Covered
          /\ NoSwaths' <=> NoSwaths
          /\ SlowStep' <=> SlowStep
          /\ CardsRefused' <=> CardsRefused
          /\ HaveRoute' <=> HaveRoute
          /\ \A o, w : Ending(o, w)' <=> Ending(o, w)
      BY <3>1 DEF Covered, NoSwaths, SlowStep, CardsRefused, HaveRoute, Ending
    <3>3. QED BY <3>1, <3>2 DEF Reasons
  <2>5. Answers'
    BY <1>8, <2>4 DEF vars, pathVars, IInv, Answers, None
  <2>6. QED BY <2>2, <2>3, <2>5 DEF IInv
<1>9. QED BY <1>1, <1>2, <1>3, <1>4, <1>5, <1>6, <1>7, <1>8 DEF Next, Progress

(* solve, plan and the mapping of their outcomes: a feasible plan flies every
   swath of every spacing exactly once, whatever the split of a group over its
   boards, and whatever the packer leaves out. *)
THEOREM FeasiblePlansCover == Spec => []FeasibleMeansCovered
<1>1. IInv => FeasibleMeansCovered
  BY DEF IInv, Answers, Reasons, Ending, None, FeasibleMeansCovered
<1>2. QED BY <1>1, InitHolds, InvStep, PTL DEF Spec

(* The bridge, _expand_boards and _mission together: no sortie is flown with a
   camera, a model or a pad that does not fit the scenario. *)
THEOREM FittingBoardsFly == Spec => []OnlyFittingBoardsFly
<1>1. IInv => OnlyFittingBoardsFly
  <2>1. ASSUME IInv, NEW s \in routed
        PROVE  Fitting(request.cards[s.board[1]])
    <3>1. s \in sorties
      BY <2>1 DEF IInv, PlanInv, Routes
    <3>2. s.board \in Boards
      BY <2>1, <3>1 DEF IInv, PlanInv, Apart
    <3>3. QED BY <2>1, <3>2 DEF IInv, CardsFit
  <2>2. QED BY <2>1 DEF OnlyFittingBoardsFly, Fitting
<1>2. QED BY <1>1, InitHolds, InvStep, PTL DEF Spec

(* The 5 s of client.solve: a worker whose library returns, in steps no longer than
   half of them, is killed only when it has a route. *)
THEOREM KillsHaveARoute == Spec => []KilledOnlyWithARoute
<1>1. IInv => KilledOnlyWithARoute
  BY DEF IInv, Answers, Reasons, Ending, None, SlowStep, KilledOnlyWithARoute
<1>2. QED BY <1>1, InitHolds, InvStep, PTL DEF Spec

-----------------------------------------------------------------------------
(* The codes *)

(* A code has its sign among the texts, and no code means that there is none. *)
LEMMA CodeHasItsSign ==
  ASSUME NEW holds
  PROVE  \/ /\ FirstCode(holds) = "none"
            /\ \A k \in 1 .. 14 : Precedence[k][1] \notin holds
         \/ \E k \in 1 .. 14 : Precedence[k][1] \in holds /\ FirstCode(holds) = Precedence[k][2]
<1> DEFINE hits == { k \in DOMAIN Precedence : Precedence[k][1] \in holds }
           first == CHOOSE k \in hits : \A j \in hits : k <= j
<1>1. DOMAIN Precedence = 1 .. 14
  BY DEF Precedence
<1>2. CASE hits = {}
  BY <1>1, <1>2 DEF FirstCode
<1>3. CASE hits # {}
  <2>1. hits \subseteq Nat
    BY <1>1
  <2>2. \E k \in hits : \A j \in hits : k <= j
    BY <1>3, <2>1, LeastNumber
  <2>3. first \in hits
    BY <2>2
  <2>4. FirstCode(holds) = Precedence[first][2]
    BY <1>3 DEF FirstCode
  <2>5. QED BY <1>1, <2>3, <2>4
<1>4. QED BY <1>2, <1>3

(* The same, code by code. *)
LEMMA SignOfCode ==
  ASSUME NEW holds, NEW code, code = FirstCode(holds)
  PROVE  \/ code = "none" /\ "budget" \notin holds /\ "error" \notin holds
         \/ code = "ERROR_CAMERA_UAV_INCOMPATIBLE" /\ "incompatible" \in holds
         \/ code = "ERROR_CAMERA_NOT_IN_CATALOG" /\ "camera" \in holds
         \/ code = "ERROR_UAV_NOT_IN_CATALOG" /\ "uav" \in holds
         \/ code = "ERROR_MISSING_AERODROMES" /\ "noAerodromes" \in holds
         \/ code = "ERROR_UNKNOWN_AERODROME" /\ "aerodrome" \in holds
         \/ code = "ERROR_NO_BOARDS" /\ "boards" \in holds
         \/ code = "ERROR_MODEL_NO_ENDURANCE_OR_SPEED" /\ "endurance" \in holds
         \/ code = "INFEASIBLE_WIND_EXCEEDS_FLEET" /\ "wind" \in holds
         \/ code = "INFEASIBLE_ENDURANCE_NO_RECHARGE" /\ "oneSortie" \in holds
         \/ code = "INFEASIBLE_NO_SWATHS" /\ "noSwaths" \in holds
         \/ code = "INFEASIBLE_TERRAIN_CLEARANCE" /\ "clearance" \in holds
         \/ code = "TIMED_OUT_BUDGET" /\ "budget" \in holds
         \/ code = "OFFLINE_ENERGY_UNCOVERED" /\ "energy" \in holds
         \/ code = "ERROR_WORKER_EXCEPTION" /\ "error" \in holds
<1>1. CASE code = "none" /\ \A k \in 1 .. 14 : Precedence[k][1] \notin holds
  <2>1. Precedence[12][1] = "budget" /\ Precedence[14][1] = "error"
    BY DEF Precedence
  <2>2. QED BY <1>1, <2>1
<1>2. ASSUME NEW k \in 1 .. 14, Precedence[k][1] \in holds, code = Precedence[k][2]
      PROVE  \E p \in { Precedence[j] : j \in 1 .. 14 } : p[1] \in holds /\ code = p[2]
  BY <1>2
<1>3. { Precedence[j] : j \in 1 .. 14 } =
        {Precedence[1], Precedence[2], Precedence[3], Precedence[4], Precedence[5], Precedence[6],
         Precedence[7], Precedence[8], Precedence[9], Precedence[10], Precedence[11], Precedence[12],
         Precedence[13], Precedence[14]}
  <2>1. 1 .. 14 = {1, 2, 3, 4, 5, 6, 7, 8, 9, 10, 11, 12, 13, 14}
    OBVIOUS
  <2>2. QED BY <2>1
<1>4. QED BY <1>1, <1>2, <1>3, CodeHasItsSign DEF Precedence

(* What a scenario was refused for is wrong with it. *)
LEMMA ComplaintIsTrue ==
  ASSUME request \in Requests, CardsRefused,
         NEW cards, cards = { request.cards[i] : i \in CardIds(request) }
  PROVE  /\ Complaint = "incompatible" => \E c \in cards : ~Compatible(c)
         /\ Complaint = "camera" => \E c \in cards : c.camera \notin Cameras \cap Translated
         /\ Complaint = "uav" => \E c \in cards : c.model \notin Models \cap Translated
         /\ Complaint = "noAerodromes" => Cardinality(DOMAIN request.pads) \notin 1 .. 4
         /\ Complaint = "aerodrome" => \E c \in cards : c.pad \notin PadIds(request)
         /\ Complaint = "boards" => cards = {}
         /\ Complaint = "endurance" => \E c \in cards : c.model \in Stated \ Flies
         /\ Complaint \notin {"wind", "uncovered", "noRecharge", "noSwaths", "clearance",
                              "budget", "energy"}
<1> DEFINE ids == CardIds(request)
           faults == [ i \in ids |-> WorkerFault(request, request.cards[i]) ]
           forms == [ i \in ids |-> EnvelopeCard(request, request.cards[i]) ]
           lookups == [ i \in ids |-> EnvelopeFault(request, request.cards[i]) ]
<1>1. ids \subseteq Nat /\ \A i \in ids : request.cards[i] \in cards
  BY PathAssumption DEF CardIds
<1>2. \/ FirstFault(faults) = "none"
      \/ \E i \in ids : FirstFault(faults) = WorkerFault(request, request.cards[i])
  BY <1>1, FirstFaultIsOne
<1>3. \/ FirstFault(forms) = "none"
      \/ \E i \in ids : FirstFault(forms) = EnvelopeCard(request, request.cards[i])
  BY <1>1, FirstFaultIsOne
<1>4. \/ FirstFault(lookups) = "none"
      \/ \E i \in ids : FirstFault(lookups) = EnvelopeFault(request, request.cards[i])
  BY <1>1, FirstFaultIsOne
<1>5. DOMAIN request.pads = {} => Cardinality(DOMAIN request.pads) \notin 1 .. 4
  BY FS_EmptySet
<1>6. CASE isolated
  <2>1. Complaint = WorkerComplaint(request)
    BY <1>6 DEF Complaint
  <2>2. CASE DOMAIN request.pads = {}
    BY <1>5, <2>1, <2>2 DEF WorkerComplaint
  <2>3. CASE DOMAIN request.pads # {} /\ ids = {}
    <3>1. Complaint = "boards"
      BY <2>1, <2>3 DEF WorkerComplaint
    <3>2. cards = {}
      BY <2>3
    <3>3. QED BY <3>1, <3>2
  <2>4. CASE DOMAIN request.pads # {} /\ ids # {}
    <3>1. Complaint = FirstFault(faults)
      BY <2>1, <2>4 DEF WorkerComplaint
    <3>2. ASSUME NEW i \in ids, Complaint = WorkerFault(request, request.cards[i])
          PROVE  /\ Complaint \in {"uav", "camera", "incompatible", "aerodrome", "figures", "endurance", "optics", "none"}
                 /\ Complaint = "incompatible" => ~Compatible(request.cards[i])
                 /\ Complaint = "camera" => request.cards[i].camera \notin Cameras
                 /\ Complaint = "uav" => request.cards[i].model \notin Models
                 /\ Complaint = "aerodrome" => request.cards[i].pad \notin PadIds(request)
                 /\ Complaint = "endurance" => request.cards[i].model \in Stated \ Flies
      BY <3>2 DEF WorkerFault, WorkerPairs, ModelFault
    <3>3. CASE Complaint = "none"
      BY <3>3
    <3>4. CASE Complaint # "none"
      <4>1. PICK i \in ids : Complaint = WorkerFault(request, request.cards[i])
        BY <1>2, <3>1, <3>4
      <4>2. QED BY <1>1, <3>2, <4>1
    <3>5. QED BY <3>3, <3>4
  <2>5. QED BY <2>2, <2>3, <2>4
<1>7. CASE ~isolated /\ ~EnvelopeSurvey(request)
  <2>1. Complaint = "survey"
    BY <1>7 DEF Complaint
  <2>2. QED BY <2>1
<1>8. CASE ~isolated /\ EnvelopeSurvey(request) /\ EnvelopeComplaint(request) = "none"
  <2> DEFINE figures == [ i \in Admitted(request) |-> ModelFault(request.cards[i].model) ]
  <2>1. Admitted(request) \subseteq ids
    BY DEF Admitted
  <2>2. CASE ~request.params
    <3>1. Complaint = "params"
      BY <1>8, <2>2 DEF Complaint
    <3>2. QED BY <3>1
  <2>3. CASE request.params
    <3>1. Complaint = FirstFault(figures)
      BY <1>8, <2>3 DEF Complaint, EnvelopeFigures
    <3>2. \/ FirstFault(figures) = "none"
          \/ \E i \in Admitted(request) : FirstFault(figures) = ModelFault(request.cards[i].model)
      BY <1>1, <2>1, FirstFaultIsOne
    <3>3. ASSUME NEW i \in Admitted(request), Complaint = ModelFault(request.cards[i].model)
          PROVE  /\ Complaint \in {"figures", "endurance", "none"}
                 /\ Complaint = "endurance" => request.cards[i].model \in Stated \ Flies
      BY <3>3 DEF ModelFault
    <3>4. CASE Complaint = "none"
      BY <3>4
    <3>5. CASE Complaint # "none"
      <4>1. PICK i \in Admitted(request) : Complaint = ModelFault(request.cards[i].model)
        BY <3>1, <3>2, <3>5
      <4>2. QED BY <1>1, <2>1, <3>3, <4>1
    <3>6. QED BY <3>4, <3>5
  <2>4. QED BY <2>2, <2>3
<1>9. CASE ~isolated /\ EnvelopeSurvey(request) /\ EnvelopeComplaint(request) # "none"
  <2>1. Complaint = EnvelopeComplaint(request)
    BY <1>9 DEF Complaint
  <2>2. \/ EnvelopeComplaint(request) \in {"edge", "spectrum", "twins"}
        \/ /\ EnvelopeComplaint(request) = "noAerodromes"
           /\ DOMAIN request.pads = {} \/ Cardinality(DOMAIN request.pads) > 4
        \/ EnvelopeComplaint(request) = FirstFault(forms)
        \/ EnvelopeComplaint(request) = FirstFault(lookups)
    BY DEF EnvelopeComplaint
  <2>3. CASE Complaint \in {"edge", "spectrum", "twins"}
    BY <2>3
  <2>4. CASE Complaint = "noAerodromes" /\ (DOMAIN request.pads = {} \/ Cardinality(DOMAIN request.pads) > 4)
    <3>1. Cardinality(DOMAIN request.pads) \notin 1 .. 4
      BY <1>5, <2>4
    <3>2. QED BY <2>4, <3>1
  <2>5. CASE Complaint = FirstFault(forms)
    <3>1. PICK i \in ids : Complaint = EnvelopeCard(request, request.cards[i])
      BY <1>3, <1>9, <2>1, <2>5
    <3>2. /\ Complaint \in {"aerodrome", "count", "none"}
          /\ Complaint = "aerodrome" => request.cards[i].pad \notin PadIds(request)
      BY <3>1 DEF EnvelopeCard
    <3>3. QED BY <1>1, <3>2
  <2>6. CASE Complaint = FirstFault(lookups)
    <3>1. PICK i \in ids : Complaint = EnvelopeFault(request, request.cards[i])
      BY <1>4, <1>9, <2>1, <2>6
    <3>2. /\ Complaint \in {"uav", "camera", "incompatible", "none"}
          /\ Complaint = "incompatible" => ~Compatible(request.cards[i])
          /\ Complaint = "camera" => request.cards[i].camera \notin Cameras \cap Translated
          /\ Complaint = "uav" => request.cards[i].model \notin Models \cap Translated
      BY <3>1 DEF EnvelopeFault
    <3>3. QED BY <1>1, <3>2
  <2>7. QED BY <2>1, <2>2, <2>3, <2>4, <2>5, <2>6
<1>10. QED BY <1>6, <1>7, <1>8, <1>9

(* The texts of an answer, by the way it ended. *)
LEMMA SaysByEnding ==
  /\ Says \subseteq Texts
  /\ answer.why = "cards" => Says \subseteq {Complaint}
  /\ answer.why = "nothing" => Says \subseteq {"noSwaths"}
  /\ answer.why = "uncovered" =>
       Says \subseteq {"uncovered", "noRecharge"} /\ (request.recharge => "noRecharge" \notin Says)
  /\ answer.why = "clearance" => Says \subseteq {"clearance"}
  /\ answer.why = "budget" => Says \subseteq {"budget"}
  /\ answer.why = "plan" => Says \subseteq {"clearance"}
  /\ answer.why \notin {"cards", "nothing", "uncovered", "clearance", "budget", "plan"} => Says = {}
<1>1. Says \subseteq Texts
  BY DEF Says
<1>2. answer.why = "cards" => Says \subseteq {Complaint}
  BY DEF Says
<1>3. answer.why = "nothing" => Says \subseteq {"noSwaths"}
  BY DEF Says
<1>4. answer.why = "uncovered" =>
        Says \subseteq {"uncovered", "noRecharge"} /\ (request.recharge => "noRecharge" \notin Says)
  BY DEF Says
<1>5. answer.why \in {"clearance", "budget"} => Says \subseteq {answer.why}
  BY DEF Says
<1>6. answer.why = "plan" => Says \subseteq {"clearance"}
  BY DEF Says
<1>7. answer.why \notin {"cards", "nothing", "uncovered", "clearance", "budget", "plan"} => Says = {}
  BY DEF Says
<1>8. QED BY <1>1, <1>2, <1>3, <1>4, <1>5, <1>6, <1>7

(* What each text means in the answer it stands in. *)
LEMMA SaysTheTruth ==
  ASSUME IInv,
         NEW cards, cards = { request.cards[i] : i \in CardIds(request) }
  PROVE  /\ "wind" \notin Says /\ "energy" \notin Says
         /\ "incompatible" \in Says => \E c \in cards : ~Compatible(c)
         /\ "camera" \in Says => \E c \in cards : c.camera \notin Cameras \cap Translated
         /\ "uav" \in Says => \E c \in cards : c.model \notin Models \cap Translated
         /\ "noAerodromes" \in Says => Cardinality(DOMAIN request.pads) \notin 1 .. 4
         /\ "aerodrome" \in Says => \E c \in cards : c.pad \notin PadIds(request)
         /\ "boards" \in Says => cards = {}
         /\ "endurance" \in Says => \E c \in cards : c.model \in Stated \ Flies
         /\ "noRecharge" \in Says => ~Covered /\ ~request.recharge
         /\ "noSwaths" \in Says => NoSwaths
         /\ "clearance" \in Says /\ answer.outcome # "feasible" => request.strict
         /\ "budget" \in Says => answer.outcome = "timed_out"
<1>1. request \in Requests
  BY DEF IInv, PlanInv, FleetHolds
<1>2. request.recharge \in BOOLEAN
  BY <1>1, PathAssumption
<1>3. CASE stage = "answered"
  <2>1. CASE Ending("error", "cards") /\ CardsRefused
    <3>1. Says \subseteq {Complaint}
      BY <2>1, SaysByEnding DEF Ending
    <3>2. QED BY <1>1, <2>1, <3>1, ComplaintIsTrue
  <2>2. CASE Ending("infeasible", "nothing") /\ NoSwaths
    BY <2>2, SaysByEnding DEF Ending
  <2>3. CASE Ending("infeasible", "uncovered") /\ ~Covered
    BY <1>2, <2>3, SaysByEnding DEF Ending
  <2>4. CASE Ending("infeasible", "clearance") /\ request.strict
    BY <2>4, SaysByEnding DEF Ending
  <2>5. CASE Ending("timed_out", "budget")
    BY <2>5, SaysByEnding DEF Ending
  <2>6. CASE Ending("feasible", "plan")
    BY <2>6, SaysByEnding DEF Ending
  <2>7. CASE Says = {}
    BY <2>7
  <2>8. \/ answer.why \notin {"cards", "nothing", "uncovered", "clearance", "budget", "plan"}
        \/ Ending("error", "cards") /\ CardsRefused
        \/ Ending("infeasible", "nothing") /\ NoSwaths
        \/ Ending("infeasible", "uncovered") /\ ~Covered
        \/ Ending("infeasible", "clearance") /\ request.strict
        \/ Ending("timed_out", "budget")
        \/ Ending("feasible", "plan")
    BY <1>3 DEF IInv, Answers, Reasons, Ending
  <2>9. QED BY <2>1, <2>2, <2>3, <2>4, <2>5, <2>6, <2>7, <2>8, SaysByEnding
<1>4. CASE stage # "answered"
  <2>1. Says = {}
    BY <1>4, SaysByEnding DEF IInv, Answers, None
  <2>2. QED BY <2>1
<1>5. QED BY <1>3, <1>4

(* Without a wind text and an energy field the API and the browser look at the same
   signs. *)
LEMMA SameSigns ==
  ASSUME "wind" \notin Says, "energy" \notin Says
  PROVE  /\ Named = FirstCode(OfOutcome(answer.outcome, Says) \cup Says)
         /\ CardCode(answer.outcome, Says, Named) = Named
<1>1. /\ { s \in Says : s = "wind" => answer.outcome \in Refusals } = Says
      /\ Says \ {"energy"} = Says
  OBVIOUS
<1>2. QED BY <1>1 DEF Named, ApiCode, CardCode

LEMMA TrueCodes ==
  ASSUME IInv, answer.outcome # "feasible"
  PROVE  CodeIsTrue
<1> DEFINE cards == { request.cards[i] : i \in CardIds(request) }
           holds == OfOutcome(answer.outcome, Says) \cup Says
<1>1. /\ "wind" \notin Says /\ "energy" \notin Says
      /\ "incompatible" \in Says => \E c \in cards : ~Compatible(c)
      /\ "camera" \in Says => \E c \in cards : c.camera \notin Cameras \cap Translated
      /\ "uav" \in Says => \E c \in cards : c.model \notin Models \cap Translated
      /\ "noAerodromes" \in Says => Cardinality(DOMAIN request.pads) \notin 1 .. 4
      /\ "aerodrome" \in Says => \E c \in cards : c.pad \notin PadIds(request)
      /\ "boards" \in Says => cards = {}
      /\ "endurance" \in Says => \E c \in cards : c.model \in Stated \ Flies
      /\ "noRecharge" \in Says => ~Covered /\ ~request.recharge
      /\ "noSwaths" \in Says => NoSwaths
      /\ "clearance" \in Says => request.strict
      /\ "budget" \in Says => answer.outcome = "timed_out"
  BY SaysTheTruth
<1>2. Says \subseteq Texts
  BY SaysByEnding
<1>3. /\ "oneSortie" \in holds => "noRecharge" \in Says
      /\ "budget" \in holds => answer.outcome = "timed_out"
      /\ "error" \in holds => answer.outcome = "error"
      /\ answer.outcome = "timed_out" => "budget" \in holds
      /\ answer.outcome = "error" => "error" \in holds
      /\ \A s \in Texts \ {"budget"} : s \in holds => s \in Says
  BY <1>1, <1>2 DEF OfOutcome, Texts
<1>4. answer.outcome \in {"none", "infeasible", "timed_out", "error"}
  BY DEF IInv, Answers, Reasons, Ending, None
<1>5. Named = FirstCode(holds)
  BY <1>1, SameSigns
<1> HIDE DEF holds
<1>6. \A s \in Texts \ {"budget"} : s \in holds => s \in Says
  BY <1>3
<1>7. CASE Named \in {"ERROR_CAMERA_UAV_INCOMPATIBLE", "ERROR_CAMERA_NOT_IN_CATALOG",
                      "ERROR_UAV_NOT_IN_CATALOG", "ERROR_MISSING_AERODROMES",
                      "ERROR_UNKNOWN_AERODROME", "ERROR_NO_BOARDS",
                      "ERROR_MODEL_NO_ENDURANCE_OR_SPEED"}
  <2>1. /\ Named = "ERROR_CAMERA_UAV_INCOMPATIBLE" => "incompatible" \in Says
        /\ Named = "ERROR_CAMERA_NOT_IN_CATALOG" => "camera" \in Says
        /\ Named = "ERROR_UAV_NOT_IN_CATALOG" => "uav" \in Says
        /\ Named = "ERROR_MISSING_AERODROMES" => "noAerodromes" \in Says
        /\ Named = "ERROR_UNKNOWN_AERODROME" => "aerodrome" \in Says
        /\ Named = "ERROR_NO_BOARDS" => "boards" \in Says
        /\ Named = "ERROR_MODEL_NO_ENDURANCE_OR_SPEED" => "endurance" \in Says
    BY <1>5, <1>6, <1>7, SignOfCode DEF Texts
  <2>2. QED BY <1>1, <1>7, <2>1 DEF CodeIsTrue
<1>8. CASE Named \notin {"ERROR_CAMERA_UAV_INCOMPATIBLE", "ERROR_CAMERA_NOT_IN_CATALOG",
                         "ERROR_UAV_NOT_IN_CATALOG", "ERROR_MISSING_AERODROMES",
                         "ERROR_UNKNOWN_AERODROME", "ERROR_NO_BOARDS",
                         "ERROR_MODEL_NO_ENDURANCE_OR_SPEED"}
  <2>1. \/ Named = "none" /\ "budget" \notin holds /\ "error" \notin holds
        \/ Named = "INFEASIBLE_ENDURANCE_NO_RECHARGE" /\ "noRecharge" \in Says
        \/ Named = "INFEASIBLE_NO_SWATHS" /\ "noSwaths" \in Says
        \/ Named = "INFEASIBLE_TERRAIN_CLEARANCE" /\ "clearance" \in Says
        \/ Named = "TIMED_OUT_BUDGET" /\ "budget" \in holds
        \/ Named = "ERROR_WORKER_EXCEPTION" /\ "error" \in holds
    BY <1>1, <1>3, <1>5, <1>6, <1>8, SignOfCode DEF Texts
  <2>2. CASE Named = "none" /\ "budget" \notin holds /\ "error" \notin holds
    BY <1>3, <1>4, <2>2 DEF CodeIsTrue
  <2>3. CASE Named = "INFEASIBLE_ENDURANCE_NO_RECHARGE" /\ "noRecharge" \in Says
    BY <1>1, <2>3 DEF CodeIsTrue
  <2>4. CASE Named = "INFEASIBLE_NO_SWATHS" /\ "noSwaths" \in Says
    BY <1>1, <2>4 DEF CodeIsTrue, NoSwaths
  <2>5. CASE Named = "INFEASIBLE_TERRAIN_CLEARANCE" /\ "clearance" \in Says
    BY <1>1, <2>5 DEF CodeIsTrue
  <2>6. CASE Named = "TIMED_OUT_BUDGET" /\ "budget" \in holds
    BY <1>3, <2>6 DEF CodeIsTrue
  <2>7. CASE Named = "ERROR_WORKER_EXCEPTION" /\ "error" \in holds
    BY <1>3, <2>7 DEF CodeIsTrue
  <2>8. QED BY <2>1, <2>2, <2>3, <2>4, <2>5, <2>6, <2>7
<1>9. QED BY <1>7, <1>8

(* Admission, plan, worker, bridge and the two places that name a code: a refusal has
   the reason it names, in its outcome, in the code of the API and on the card. *)
THEOREM RefusalsAreTrue == Spec => []RefusalIsTrue
<1>1. ASSUME IInv
      PROVE  RefusalIsTrue
  <2>1. answer.outcome = "infeasible" =>
          \/ answer.why = "empty" /\ CardIds(request) = {}
          \/ answer.why = "spectrum" /\ Admitted(request) # CardIds(request)
          \/ answer.why = "uncovered" /\ ~Covered
          \/ answer.why = "nothing" /\ (request.area => \A b \in Boards : Swaths(b) = {})
          \/ answer.why = "clearance" /\ request.strict
    BY <1>1 DEF IInv, Answers, Reasons, Ending, None, NoSwaths
  <2>2. answer.outcome = "timed_out" =>
          now >= (IF answer.why = "due" THEN due ELSE deadline) /\ ~HaveRoute
    BY <1>1 DEF IInv, Answers, Reasons, Ending, None
  <2>3. CardCode(answer.outcome, Says, Named) = Named
    BY <1>1, SaysTheTruth, SameSigns
  <2>4. QED BY <1>1, <2>1, <2>2, <2>3, TrueCodes DEF RefusalIsTrue
<1>2. QED BY <1>1, InitHolds, InvStep, PTL DEF Spec

=============================================================================
