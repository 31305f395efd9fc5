-------------------------- MODULE WaveBPackProofs --------------------------
(***************************************************************************)
(* Proofs about WaveBPack for any points, distances, pads and calls: the   *)
(* endurance, the sharing out of the swaths, the takeoff pads, and what a  *)
(* refusal and a forbidden recharge mean.  Nothing is used of Duration but *)
(* its name, so the results hold for whatever a flight costs.              *)
(***************************************************************************)
EXTENDS WaveBPack, TLAPS, SequenceTheorems, WellFoundedInduction

-----------------------------------------------------------------------------
(* Pads *)

(* A set of numbers that is not empty has a least one. *)
LEMMA LeastNumber ==
  ASSUME NEW T, T \subseteq Nat, T # {}
  PROVE  \E x \in T : \A y \in T : x <= y
<1>1. PICK x \in T : \A y \in T : ~ (<<y, x>> \in OpToRel(<, Nat))
  BY NatLessThanWellFounded, WFMin
<1>2. ASSUME NEW y \in T, y < x
      PROVE  FALSE
  <2>1. <<y, x>> \in {ss \in Nat \X Nat : ss[1] < ss[2]}
    BY <1>2
  <2>2. QED BY <1>1, <2>1 DEF OpToRel
<1>3. QED BY <1>2

(* choose_pad returns a pad. *)
LEMMA PadChosen ==
  ASSUME NEW point \in Points, NEW home \in Pads, NEW allowed
  PROVE  ChoosePad(point, home, allowed) \in Pads
<1> DEFINE d(pad) == Distance[point, PadAt[pad]]
           near == {p \in Pads : \A q \in Pads : d(p) <= d(q)}
<1>1. \A p \in Pads : d(p) \in Nat
  BY PackAssumption
<1>2. \A p, q \in Pads :
        d(p) < d(q) \/ (d(p) = d(q) /\ (p = home \/ (q # home /\ p < q)))
          => p = q \/ Before(point, home, p, q)
  <2>1. 0 < 1
    OBVIOUS
  <2> SUFFICES ASSUME NEW p \in Pads, NEW q \in Pads, p # q,
                      d(p) < d(q) \/ (d(p) = d(q) /\ (p = home \/ (q # home /\ p < q)))
               PROVE  Before(point, home, p, q)
    OBVIOUS
  <2>2. CASE d(p) < d(q)
    BY <2>2 DEF Before
  <2>3. CASE d(p) = d(q) /\ p = home
    <3>1. q # home
      BY <2>3
    <3>2. (IF p = home THEN 0 ELSE 1) = 0 /\ (IF q = home THEN 0 ELSE 1) = 1
      BY <2>3, <3>1, Zenon
    <3>3. QED BY <2>1, <2>3, <3>2, Zenon DEF Before
  <2>4. CASE d(p) = d(q) /\ p # home /\ q # home /\ p < q
    <3>1. (IF p = home THEN 0 ELSE 1) = (IF q = home THEN 0 ELSE 1)
      BY <2>4
    <3>2. QED BY <2>4, <3>1 DEF Before
  <2>5. QED BY <2>3, <2>4, <2>2
<1> HIDE DEF d
<1>3. near # {}
  <2>1. PICK x \in {d(p) : p \in Pads} : \A y \in {d(p) : p \in Pads} : x <= y
    <3>1. {d(p) : p \in Pads} \subseteq Nat /\ {d(p) : p \in Pads} # {}
      BY <1>1
    <3>2. QED BY <3>1, LeastNumber
  <2>2. PICK p \in Pads : x = d(p)
    OBVIOUS
  <2>3. \A q \in Pads : d(p) <= d(q)
    BY <2>1, <2>2
  <2>4. QED BY <2>3
<1>4. \A p \in Pads : p \in near <=> \A q \in Pads : d(p) <= d(q)
  OBVIOUS
<1>5. near \subseteq Pads
  OBVIOUS
<1> HIDE DEF near
<1>6. ASSUME NEW p \in near, NEW q \in Pads, ~(d(p) < d(q))
      PROVE  d(p) = d(q) /\ q \in near
  <2>1. p \in Pads /\ d(p) <= d(q)
    BY <1>4, <1>5, <1>6
  <2>2. d(p) = d(q)
    BY <1>1, <1>6, <2>1
  <2>3. \A r \in Pads : d(q) <= d(r)
    BY <1>4, <2>1, <2>2
  <2>4. QED BY <1>4, <2>2, <2>3
<1>7. \E p \in Pads : \A q \in Pads \ {p} : Before(point, home, p, q)
  <2>1. CASE home \in near
    <3>1. \A q \in Pads \ {home} : Before(point, home, home, q)
      BY <1>2, <1>6, <2>1
    <3>2. QED BY <3>1
  <2>2. CASE home \notin near
    <3>1. PICK p \in near : \A q \in near : p <= q
      BY <1>3, <1>5, LeastNumber, PackAssumption
    <3>2. ASSUME NEW q \in Pads \ {p}
          PROVE  Before(point, home, p, q)
      <4>1. CASE d(p) < d(q)
        BY <1>2, <1>5, <4>1
      <4>2. CASE ~(d(p) < d(q))
        <5>1. d(p) = d(q) /\ q \in near
          BY <1>6, <4>2
        <5>2. p <= q /\ p # q /\ p \in Nat /\ q \in Nat
          BY <1>5, <3>1, <5>1, PackAssumption
        <5>3. q # home /\ p < q
          BY <2>2, <5>1, <5>2
        <5>4. QED BY <1>2, <1>5, <5>1, <5>3
      <4>3. QED BY <4>1, <4>2
    <3>3. QED BY <1>5, <3>2
  <2>3. QED BY <2>1, <2>2
<1>8. QED BY <1>7 DEF ChoosePad

(* The last swath of a block that is not empty, and where it is landed from. *)
LEMMA LandingChosen ==
  ASSUME NEW b \in Boards, NEW block \in Seq(Swaths), block # <<>>
  PROVE  LandingOf(b, block) \in Pads
<1>1. Last(block) \in Swaths
  BY EmptySeq, ElementOfSeq DEF Last
<1>2. QED BY <1>1, PadChosen, PackAssumption DEF LandingOf, Swaths, BoardCalls

(* The reversed block is a block over the same swaths. *)
LEMMA ReversedIsBlock ==
  ASSUME NEW block \in Seq(Swaths)
  PROVE  /\ ReversedBlock(block) \in Seq(Swaths)
         /\ Len(ReversedBlock(block)) = Len(block)
         /\ \A n \in 1 .. Len(block) :
              ReversedBlock(block)[n].id = block[Len(block) + 1 - n].id
<1>1. Len(block) \in Nat /\ DOMAIN block = 1 .. Len(block)
  BY LenProperties
<1>2. \A n \in 1 .. Len(block) : Len(block) + 1 - n \in 1 .. Len(block)
  BY <1>1
<1>3. \A n \in 1 .. Len(block) : block[Len(block) + 1 - n] \in Swaths
  BY <1>2, ElementOfSeq
<1>4. \A n \in 1 .. Len(block) : Flipped(block[Len(block) + 1 - n]) \in Swaths
  BY <1>3 DEF Flipped, Swaths
<1>5. ReversedBlock(block) = [n \in 1 .. Len(block) |-> Flipped(block[Len(block) + 1 - n])]
  BY <1>1 DEF ReversedBlock
<1>6. ReversedBlock(block) \in [1 .. Len(block) -> Swaths]
  BY <1>4, <1>5
<1>7. ReversedBlock(block) \in Seq(Swaths) /\ Len(ReversedBlock(block)) = Len(block)
  BY <1>1, <1>6
<1>8. QED
  BY <1>3, <1>5, <1>7 DEF Flipped, Swaths

LEMMA TakeoffChosen ==
  ASSUME NEW b \in Boards, NEW block \in Seq(Swaths)
  PROVE  FirstTakeoff(b, block) \in Pads
<1>1. CASE block = <<>>
  BY <1>1, PackAssumption DEF FirstTakeoff, BoardCalls
<1>2. CASE block # <<>>
  <2>1. Head(block) \in Swaths
    BY <1>2, HeadTailProperties
  <2>2. QED BY <1>2, <2>1, PadChosen, PackAssumption DEF FirstTakeoff, Swaths, BoardCalls
<1>3. QED BY <1>1, <1>2

-----------------------------------------------------------------------------
(* Numbers of swaths *)

LEMMA IdsOfFew ==
  /\ Ids(<<>>) = {} /\ NoRepeat(<<>>)
  /\ \A swath : Ids(<<swath>>) = {swath.id} /\ NoRepeat(<<swath>>)
<1>1. Ids(<<>>) = {} /\ NoRepeat(<<>>)
  BY DEF Ids, NoRepeat
<1>2. ASSUME NEW swath
      PROVE  Ids(<<swath>>) = {swath.id} /\ NoRepeat(<<swath>>)
  <2>1. DOMAIN <<swath>> = {1} /\ <<swath>>[1] = swath
    OBVIOUS
  <2>2. QED BY <2>1 DEF Ids, NoRepeat
<1>3. QED BY <1>1, <1>2

(* The block with one more swath. *)
LEMMA IdsOfAppend ==
  ASSUME NEW block \in Seq(Swaths), NEW swath \in Swaths
  PROVE  /\ Ids(Append(block, swath)) = Ids(block) \cup {swath.id}
         /\ NoRepeat(block) /\ swath.id \notin Ids(block) => NoRepeat(Append(block, swath))
<1> DEFINE longer == Append(block, swath)
<1>1. /\ Len(block) \in Nat
      /\ DOMAIN block = 1 .. Len(block)
      /\ DOMAIN longer = 1 .. Len(block) + 1
      /\ \A n \in 1 .. Len(block) : longer[n] = block[n]
      /\ longer[Len(block) + 1] = swath
  BY AppendProperties, LenProperties
<1>2. \A n \in DOMAIN longer : n \in DOMAIN block \/ n = Len(block) + 1
  BY <1>1
<1> HIDE DEF longer
<1>3. Ids(longer) = Ids(block) \cup {swath.id}
  BY <1>1, <1>2 DEF Ids
<1>4. ASSUME NoRepeat(block), swath.id \notin Ids(block)
      PROVE  NoRepeat(longer)
  BY <1>1, <1>2, <1>4 DEF NoRepeat, Ids
<1>5. QED BY <1>3, <1>4 DEF longer

(* The block without its first swath. *)
LEMMA IdsOfTail ==
  ASSUME NEW block \in Seq(Swaths), block # <<>>
  PROVE  /\ Ids(block) = Ids(Tail(block)) \cup {Head(block).id}
         /\ NoRepeat(block) => /\ NoRepeat(Tail(block))
                               /\ Head(block).id \notin Ids(Tail(block))
<1> DEFINE rest == Tail(block)
<1>1. /\ Len(block) \in Nat \ {0}
      /\ DOMAIN block = 1 .. Len(block)
      /\ DOMAIN rest = 1 .. Len(block) - 1
      /\ \A n \in 1 .. Len(block) - 1 : rest[n] = block[n + 1]
      /\ Head(block) = block[1]
  BY HeadTailProperties, LenProperties, EmptySeq
<1>2. /\ \A n \in DOMAIN block : n = 1 \/ (n - 1 \in DOMAIN rest /\ block[n] = rest[n - 1])
      /\ \A n \in DOMAIN rest : n + 1 \in DOMAIN block /\ n + 1 # 1 /\ rest[n] = block[n + 1]
      /\ 1 \in DOMAIN block
  BY <1>1
<1> HIDE DEF rest
<1>3. Ids(block) = Ids(rest) \cup {Head(block).id}
  <2>1. ASSUME NEW n \in DOMAIN block
        PROVE  block[n].id \in Ids(rest) \cup {Head(block).id}
    BY <1>1, <1>2 DEF Ids
  <2>2. ASSUME NEW n \in DOMAIN rest
        PROVE  rest[n].id \in Ids(block)
    BY <1>2 DEF Ids
  <2>3. Head(block).id \in Ids(block)
    BY <1>1, <1>2 DEF Ids
  <2>4. Ids(block) \subseteq Ids(rest) \cup {Head(block).id}
    BY <2>1 DEF Ids
  <2>5. Ids(rest) \subseteq Ids(block)
    BY <2>2 DEF Ids
  <2>6. QED BY <2>3, <2>4, <2>5
<1>4. ASSUME NoRepeat(block)
      PROVE  NoRepeat(rest) /\ Head(block).id \notin Ids(rest)
  <2>1. ASSUME NEW m \in DOMAIN rest, NEW n \in DOMAIN rest, rest[m].id = rest[n].id
        PROVE  m = n
    <3>1. m + 1 = n + 1
      BY <1>2, <1>4, <2>1 DEF NoRepeat
    <3>2. QED BY <1>1, <3>1
  <2>2. Head(block).id \notin Ids(rest)
    BY <1>1, <1>2, <1>4 DEF NoRepeat, Ids
  <2>3. QED BY <2>1, <2>2 DEF NoRepeat
<1>5. QED BY <1>3, <1>4 DEF rest

(* One block after another. *)
LEMMA IdsOfConcat ==
  ASSUME NEW a \in Seq(Swaths), NEW b \in Seq(Swaths)
  PROVE  /\ Ids(a \o b) = Ids(a) \cup Ids(b)
         /\ NoRepeat(a) /\ NoRepeat(b) /\ Ids(a) \cap Ids(b) = {} => NoRepeat(a \o b)
<1> DEFINE both == a \o b
<1>1. /\ Len(a) \in Nat /\ Len(b) \in Nat
      /\ DOMAIN a = 1 .. Len(a) /\ DOMAIN b = 1 .. Len(b)
      /\ DOMAIN both = 1 .. Len(a) + Len(b)
      /\ \A n \in 1 .. Len(a) + Len(b) :
           both[n] = IF n <= Len(a) THEN a[n] ELSE b[n - Len(a)]
  BY ConcatProperties, LenProperties
<1> HIDE DEF both
<1>2. /\ \A n \in DOMAIN both : \/ n \in DOMAIN a /\ both[n] = a[n]
                                \/ n - Len(a) \in DOMAIN b /\ both[n] = b[n - Len(a)]
      /\ \A n \in DOMAIN a : n \in DOMAIN both /\ both[n] = a[n]
      /\ \A n \in DOMAIN b : n + Len(a) \in DOMAIN both /\ both[n + Len(a)] = b[n]
  BY <1>1
<1>3. Ids(both) = Ids(a) \cup Ids(b)
  BY <1>2 DEF Ids
<1>4. ASSUME NoRepeat(a), NoRepeat(b), Ids(a) \cap Ids(b) = {}
      PROVE  NoRepeat(both)
  <2> SUFFICES ASSUME NEW m \in DOMAIN both, NEW n \in DOMAIN both, both[m].id = both[n].id
               PROVE  m = n
    BY DEF NoRepeat
  <2>1. CASE m \in DOMAIN a /\ both[m] = a[m] /\ n \in DOMAIN a /\ both[n] = a[n]
    BY <1>4, <2>1 DEF NoRepeat
  <2>2. CASE /\ m - Len(a) \in DOMAIN b /\ both[m] = b[m - Len(a)]
             /\ n - Len(a) \in DOMAIN b /\ both[n] = b[n - Len(a)]
    <3>1. m - Len(a) = n - Len(a)
      BY <1>4, <2>2 DEF NoRepeat
    <3>2. QED BY <1>1, <3>1
  <2>3. CASE ~(\/ m \in DOMAIN a /\ both[m] = a[m] /\ n \in DOMAIN a /\ both[n] = a[n]
               \/ /\ m - Len(a) \in DOMAIN b /\ both[m] = b[m - Len(a)]
                  /\ n - Len(a) \in DOMAIN b /\ both[n] = b[n - Len(a)])
    <3>1. \/ both[m].id \in Ids(a) /\ both[n].id \in Ids(b)
          \/ both[m].id \in Ids(b) /\ both[n].id \in Ids(a)
      BY <1>2, <2>3 DEF Ids
    <3>2. QED BY <1>4, <3>1
  <2>4. QED BY <2>1, <2>2, <2>3
<1>5. QED BY <1>3, <1>4 DEF both

(* The block of a call is numbered from 1, in either order. *)
LEMMA IdsOfCall ==
  ASSUME NEW b \in Boards
  PROVE  /\ Ids(b.swaths) = 1 .. Len(b.swaths) /\ NoRepeat(b.swaths)
         /\ Ids(ReversedBlock(b.swaths)) = 1 .. Len(b.swaths)
         /\ NoRepeat(ReversedBlock(b.swaths))
<1> DEFINE block == b.swaths
           back == ReversedBlock(block)
<1>1. /\ block \in Seq(Swaths)
      /\ \A n \in 1 .. Len(block) : block[n].id = n
  BY PackAssumption DEF BoardCalls
<1>2. Len(block) \in Nat /\ DOMAIN block = 1 .. Len(block)
  BY <1>1, LenProperties
<1>3. Ids(block) = 1 .. Len(block) /\ NoRepeat(block)
  BY <1>1, <1>2 DEF Ids, NoRepeat
<1> HIDE DEF block
<1>4. back \in Seq(Swaths) /\ DOMAIN back = 1 .. Len(block)
  BY <1>1, ReversedIsBlock, LenProperties
<1>5. \A n \in 1 .. Len(block) : back[n].id = Len(block) + 1 - n
  <2> SUFFICES ASSUME NEW n \in 1 .. Len(block)
               PROVE  back[n].id = Len(block) + 1 - n
    OBVIOUS
  <2>1. Len(block) + 1 - n \in 1 .. Len(block)
    BY <1>2
  <2>2. QED BY <1>1, <2>1, ReversedIsBlock
<1> HIDE DEF back
<1>6. Ids(back) = 1 .. Len(block)
  <2>1. \A n \in 1 .. Len(block) : /\ Len(block) + 1 - n \in 1 .. Len(block)
                                  /\ Len(block) + 1 - (Len(block) + 1 - n) = n
    BY <1>2
  <2>2. \A n \in 1 .. Len(block) : back[Len(block) + 1 - n].id = n
    BY <1>5, <2>1
  <2>3. QED BY <1>4, <1>5, <2>1, <2>2 DEF Ids
<1>7. NoRepeat(back)
  BY <1>2, <1>4, <1>5 DEF NoRepeat
<1>8. QED BY <1>3, <1>6, <1>7 DEF block, back

-----------------------------------------------------------------------------
(* The inductive invariant *)

(* The loop so far without the sortie being filled, and a result with one
   sortie more. *)
Loop == [sorties |-> sorties, uncovered |-> uncovered]

With(r, s) == [sorties |-> Append(r.sorties, s), uncovered |-> r.uncovered]

(* The order this pass works through. *)
Order == IF pass = "forward" THEN board.swaths ELSE ReversedBlock(board.swaths)

InTime(b, r) ==
  \A k \in DOMAIN r.sorties :
    ~TooLong(b, r.sorties[k].takeoff, r.sorties[k].swaths, r.sorties[k].landing)

(* The sortie being filled fits, whenever the loop comes by. *)
Fitted ==
  /\ InTime(board, Loop)
  /\ current # <<>> => ~TooLong(board, currentTakeoff, current, LandingOf(board, current))
  /\ \A r \in Range(packs) : InTime(board, r)

(* Each swath is in a sortie, left out, in the sortie being filled, or still to
   be looked at. *)
Shared ==
  /\ NoRepeat(remaining)
  /\ NoRepeat(current)
  /\ Ids(remaining) \cap Ids(current) = {}
  /\ Ids(remaining) \cup Ids(current) \subseteq 1 .. Len(board.swaths)
  /\ SharesOut(Loop, (1 .. Len(board.swaths)) \ (Ids(remaining) \cup Ids(current)))
  /\ EverySwathOnce

(* The sorties are connected but for recoveries, and the board is where the last
   one ended. *)
Connected(b, r) ==
  \A k \in DOMAIN r.sorties :
    r.sorties[k].takeoff \in Departures(b, r, k) \/ IsRecovery(b, r, k)

Chained ==
  /\ Connected(board, Loop)
  /\ currentTakeoff \in Departures(board, Loop, Len(sorties) + 1)
  /\ \A r \in Range(packs) : Connected(board, r)

(* Without recharge the loop has closed nothing but recoveries. *)
Single ==
  ~board.allowRecharge =>
    /\ \A k \in DOMAIN sorties : IsRecovery(board, Loop, k)
    /\ \A r \in Range(packs) : \A k \in DOMAIN r.sorties :
         k < Len(r.sorties) => IsRecovery(board, r, k)

(* With recharge something is left out only if it is impossible in this order,
   and what is left to look at is part of the order. *)
Justified ==
  /\ Range(remaining) \subseteq Range(Order)
  /\ board.allowRecharge /\ uncovered # <<>> => Impossible(board, Order)
  /\ board.allowRecharge /\ pass = "backward" /\ packs[1].uncovered # <<>>
       => Impossible(board, board.swaths)
  /\ RefusalIsJustified

IInv == TypeOK /\ Fitted /\ Shared /\ Chained /\ Single /\ Justified

-----------------------------------------------------------------------------
(* TypeOK *)

(* What the loop looks at and what it closes. *)
LEMMA LoopTypes ==
  ASSUME TypeOK
  PROVE  /\ board.swaths \in Seq(Swaths)
         /\ Order \in Seq(Swaths)
         /\ remaining # <<>> => Head(remaining) \in Swaths /\ Tail(remaining) \in Seq(Swaths)
         /\ current # <<>> => /\ LandingOf(board, current) \in Pads
                              /\ Closed(board, currentTakeoff, current) \in Sorties
         /\ Result \in Packs
<1>1. board.swaths \in Seq(Swaths)
  BY PackAssumption DEF TypeOK, BoardCalls
<1>2. Order \in Seq(Swaths)
  BY <1>1, ReversedIsBlock DEF Order
<1>3. remaining # <<>> => Head(remaining) \in Swaths /\ Tail(remaining) \in Seq(Swaths)
  BY HeadTailProperties DEF TypeOK
<1>4. ASSUME current # <<>>
      PROVE  /\ LandingOf(board, current) \in Pads
             /\ Closed(board, currentTakeoff, current) \in Sorties
  BY <1>4, LandingChosen DEF TypeOK, Closed, Sorties
<1>5. Result \in Packs
  <2>1. CASE current = <<>>
    BY <2>1 DEF Result, TypeOK, Packs
  <2>2. CASE current # <<>>
    BY <1>4, <2>2, AppendProperties DEF Result, TypeOK, Packs
  <2>3. QED BY <2>1, <2>2
<1>6. QED BY <1>1, <1>2, <1>3, <1>4, <1>5

(* The flight that Recover appends. *)
LEMMA Recovered ==
  ASSUME TypeOK, remaining # <<>>, NEW s \in Recoveries(board, Head(remaining))
  PROVE  /\ s \in Sorties
         /\ s.swaths = <<Head(remaining)>>
         /\ ~TooLong(board, s.takeoff, s.swaths, s.landing)
<1>1. Head(remaining) \in Swaths
  BY LoopTypes
<1>2. board.home \in Pads
  BY PackAssumption DEF TypeOK, BoardCalls
<1>3. /\ s \in [takeoff : Pads, landing : RecoveryLandings(board),
                swaths : {<<Head(remaining)>>}]
      /\ ~TooLong(board, s.takeoff, s.swaths, s.landing)
  BY DEF Recoveries, RecoveryTakeoffs
<1>4. RecoveryLandings(board) \subseteq Pads
  BY <1>2 DEF RecoveryLandings
<1>5. <<Head(remaining)>> \in Seq(Swaths)
  BY <1>1
<1>6. s \in [takeoff : Pads, landing : Pads, swaths : Seq(Swaths)]
  BY <1>3, <1>4, <1>5
<1>7. s.swaths = <<Head(remaining)>>
  BY <1>3
<1>8. QED BY <1>3, <1>6, <1>7 DEF Sorties

(* The results kept: none in the first pass, one from then on. *)
LEMMA ResultsKept ==
  ASSUME TypeOK
  PROVE  /\ pass = "forward" => Range(packs) = {}
         /\ pass # "forward" => packs[1] \in Packs /\ Range(packs) = {packs[1]}
<1>1. DOMAIN packs = 1 .. Len(packs)
  BY LenProperties DEF TypeOK
<1>2. CASE pass = "forward"
  BY <1>1, <1>2 DEF TypeOK, Range
<1>3. CASE pass # "forward"
  <2>1. DOMAIN packs = {1}
    BY <1>1, <1>3 DEF TypeOK
  <2>2. packs[1] \in Packs
    <3>1. packs \in Seq(Packs) /\ 1 \in 1 .. Len(packs)
      BY <1>3 DEF TypeOK
    <3>2. QED BY <3>1, ElementOfSeq
  <2>3. QED BY <1>3, <2>1, <2>2 DEF Range
<1>4. QED BY <1>2, <1>3

LEMMA TypesStep ==
  ASSUME TypeOK, [Next]_vars
  PROVE  TypeOK'
<1>1. CASE TakeSwath
  <2>1. current' \in Seq(Swaths) /\ remaining' \in Seq(Swaths)
    BY <1>1, LoopTypes, AppendProperties DEF TypeOK, TakeSwath, Fits
  <2>2. QED BY <1>1, <2>1 DEF TypeOK, TakeSwath
<1>2. CASE CloseSortie
  <2>1. sorties' \in Seq(Sorties) /\ currentTakeoff' \in Pads
    BY <1>2, LoopTypes, AppendProperties DEF TypeOK, CloseSortie
  <2>2. current' \in Seq(Swaths)
    BY <1>2, EmptySeq DEF CloseSortie
  <2>3. QED BY <1>2, <2>1, <2>2 DEF TypeOK, CloseSortie
<1>3. CASE GiveUp
  <2>1. uncovered' \in Seq(Swaths) /\ remaining' \in Seq(Swaths)
    BY <1>3, ConcatProperties, EmptySeq DEF TypeOK, GiveUp
  <2>2. QED BY <1>3, <2>1 DEF TypeOK, GiveUp
<1>4. CASE Recover
  <2>1. remaining' \in Seq(Swaths) /\ remaining # <<>>
    BY <1>4, LoopTypes DEF Recover, Exceeds
  <2>2. PICK s \in Recoveries(board, Head(remaining)) :
          sorties' = Append(sorties, s) /\ currentTakeoff' = s.landing
    BY <1>4 DEF Recover
  <2>3. s \in Sorties /\ s.landing \in Pads
    BY <2>1, Recovered DEF Sorties
  <2>4. sorties' \in Seq(Sorties)
    BY <2>2, <2>3, AppendProperties DEF TypeOK
  <2>5. QED BY <1>4, <2>1, <2>2, <2>3, <2>4 DEF TypeOK, Recover
<1>5. CASE LeaveOut
  <2>1. uncovered' \in Seq(Swaths) /\ remaining' \in Seq(Swaths)
    BY <1>5, LoopTypes, AppendProperties DEF TypeOK, LeaveOut, Exceeds
  <2>2. QED BY <1>5, <2>1 DEF TypeOK, LeaveOut
<1>6. CASE StartBackward
  <2>1. remaining' \in Seq(Swaths)
    BY <1>6, LoopTypes, ReversedIsBlock DEF StartBackward
  <2>2. currentTakeoff' \in Pads
    BY <1>6, <2>1, TakeoffChosen DEF StartBackward, TypeOK
  <2>3. packs' \in Seq(Packs) /\ Len(packs') = 1
    BY <1>6, LoopTypes DEF StartBackward
  <2>4. /\ current' \in Seq(Swaths) /\ uncovered' \in Seq(Swaths)
        /\ sorties' \in Seq(Sorties)
    BY <1>6, EmptySeq DEF StartBackward
  <2>5. board' \in Boards /\ pass' = "backward"
    BY <1>6 DEF StartBackward, TypeOK
  <2>6. QED BY <2>1, <2>2, <2>3, <2>4, <2>5 DEF TypeOK
<1>7. CASE KeepBetter
  <2>1. Better(packs[1], Result) \in Packs
    BY <1>7, LoopTypes, ResultsKept DEF KeepBetter, Better
  <2>2. packs' \in Seq(Packs) /\ Len(packs') = 1
    BY <1>7, <2>1 DEF KeepBetter
  <2>3. QED BY <1>7, <2>2 DEF TypeOK, KeepBetter, loop
<1>8. CASE PlaceSorties
  BY <1>8 DEF TypeOK, PlaceSorties, loop
<1>9. CASE UNCHANGED vars
  BY <1>9 DEF TypeOK, vars, loop
<1>10. QED
  BY <1>1, <1>2, <1>3, <1>4, <1>5, <1>6, <1>7, <1>8, <1>9 DEF Next

-----------------------------------------------------------------------------
(* Results and sorties *)

LEMMA BoardStays ==
  ASSUME [Next]_vars
  PROVE  board' = board
BY DEF Next, vars, TakeSwath, CloseSortie, GiveUp, Recover, LeaveOut,
       StartBackward, KeepBetter, PlaceSorties

(* A result with one sortie more. *)
LEMMA OneMore ==
  ASSUME NEW r, r.sorties \in Seq(Sorties), NEW s \in Sorties
  PROVE  /\ Len(r.sorties) \in Nat
         /\ DOMAIN r.sorties = 1 .. Len(r.sorties)
         /\ DOMAIN With(r, s).sorties = 1 .. Len(r.sorties) + 1
         /\ Len(With(r, s).sorties) = Len(r.sorties) + 1
         /\ \A k \in 1 .. Len(r.sorties) : With(r, s).sorties[k] = r.sorties[k]
         /\ With(r, s).sorties[Len(r.sorties) + 1] = s
         /\ With(r, s).uncovered = r.uncovered
BY AppendProperties, LenProperties DEF With

(* The result of a pass is the loop so far with the last sortie closed. *)
LEMMA ResultIs ==
  /\ current = <<>> => Result = Loop
  /\ current # <<>> => Result = With(Loop, Closed(board, currentTakeoff, current))
BY DEF Result, Loop, With

(* A step keeps the results it had or adds that of the pass, which is over. *)
LEMMA NewResults ==
  ASSUME TypeOK, [Next]_vars
  PROVE  \A r \in Range(packs') : r \in Range(packs) \/ (r = Result /\ remaining = <<>>)
<1>1. CASE StartBackward
  <2>1. packs' = <<Result>>
    BY <1>1 DEF StartBackward
  <2>2. DOMAIN packs' = {1} /\ packs'[1] = Result
    BY <2>1
  <2>3. QED BY <1>1, <2>2 DEF Range, StartBackward
<1>2. CASE KeepBetter
  <2>1. packs' = <<Better(packs[1], Result)>>
    BY <1>2 DEF KeepBetter
  <2>2. DOMAIN packs' = {1} /\ packs'[1] = Better(packs[1], Result)
    BY <2>1
  <2>3. Better(packs[1], Result) = packs[1] \/ Better(packs[1], Result) = Result
    BY DEF Better
  <2>4. packs[1] \in Range(packs)
    BY <1>2, ResultsKept DEF KeepBetter
  <2>5. QED BY <1>2, <2>2, <2>3, <2>4 DEF Range, KeepBetter
<1>3. CASE UNCHANGED packs
  BY <1>3
<1>4. QED
  BY <1>1, <1>2, <1>3 DEF Next, vars, TakeSwath, CloseSortie, GiveUp, Recover,
     LeaveOut, PlaceSorties

(* What the loop looks at when it closes a sortie or recovers a swath. *)
LEMMA LoopGrows ==
  ASSUME TypeOK
  PROVE  /\ CloseSortie => Loop' = With(Loop, Closed(board, currentTakeoff, current))
         /\ Recover => \E s \in Recoveries(board, Head(remaining)) :
                          Loop' = With(Loop, s) /\ currentTakeoff' = s.landing
<1>1. CloseSortie => Loop' = With(Loop, Closed(board, currentTakeoff, current))
  BY DEF CloseSortie, Loop, With
<1>2. ASSUME Recover
      PROVE  \E s \in Recoveries(board, Head(remaining)) :
               Loop' = With(Loop, s) /\ currentTakeoff' = s.landing
  <2>1. PICK s \in Recoveries(board, Head(remaining)) :
          sorties' = Append(sorties, s) /\ currentTakeoff' = s.landing
    BY <1>2 DEF Recover
  <2>2. Loop' = With(Loop, s)
    BY <1>2, <2>1 DEF Recover, Loop, With
  <2>3. QED BY <2>1, <2>2
<1>3. QED BY <1>1, <1>2

-----------------------------------------------------------------------------
(* Endurance *)

LEMMA OneMoreInTime ==
  ASSUME NEW b, NEW r, r.sorties \in Seq(Sorties), NEW s \in Sorties,
         InTime(b, r), ~TooLong(b, s.takeoff, s.swaths, s.landing)
  PROVE  InTime(b, With(r, s))
<1>1. \A k \in 1 .. Len(r.sorties) + 1 : k \in 1 .. Len(r.sorties) \/ k = Len(r.sorties) + 1
  BY OneMore
<1> DEFINE t(k) == With(r, s).sorties[k]
<1>2. ASSUME NEW k \in 1 .. Len(r.sorties)
      PROVE  ~TooLong(b, t(k).takeoff, t(k).swaths, t(k).landing)
  <2>1. t(k) = r.sorties[k] /\ k \in DOMAIN r.sorties
    BY <1>2, OneMore
  <2>2. QED BY <2>1 DEF InTime
<1>3. t(Len(r.sorties) + 1) = s
  BY OneMore
<1>4. DOMAIN With(r, s).sorties = 1 .. Len(r.sorties) + 1
  BY OneMore
<1> HIDE DEF t
<1>5. ASSUME NEW k \in 1 .. Len(r.sorties) + 1
      PROVE  ~TooLong(b, t(k).takeoff, t(k).swaths, t(k).landing)
  BY <1>1, <1>2, <1>3, <1>5
<1>6. QED BY <1>4, <1>5 DEF InTime, t

(* The sortie that is closed was measured when its last swath was added. *)
LEMMA ClosedInTime ==
  ASSUME TypeOK, Fitted, current # <<>>
  PROVE  InTime(board, With(Loop, Closed(board, currentTakeoff, current)))
<1> DEFINE s == Closed(board, currentTakeoff, current)
<1>1. s \in Sorties
  BY LoopTypes
<1>2. ~TooLong(board, s.takeoff, s.swaths, s.landing)
  BY DEF Fitted, Closed
<1>3. Loop.sorties \in Seq(Sorties)
  BY DEF Loop, TypeOK
<1> HIDE DEF s
<1>4. InTime(board, With(Loop, s))
  BY <1>1, <1>2, <1>3, OneMoreInTime DEF Fitted
<1>5. QED BY <1>4 DEF s

LEMMA FittedStep ==
  ASSUME TypeOK, Fitted, [Next]_vars
  PROVE  Fitted'
<1>1. board' = board
  BY BoardStays
<1>2. InTime(board, Result)
  BY ResultIs, ClosedInTime DEF Fitted
<1>3. \A r \in Range(packs') : InTime(board', r)
  BY <1>1, <1>2, NewResults DEF Fitted
<1>4. Loop.sorties \in Seq(Sorties)
  BY DEF Loop, TypeOK
<1>5. InTime(board', Loop')
      /\ (current' # <<>> =>
            ~TooLong(board', currentTakeoff', current', LandingOf(board', current')))
  <2>1. CASE TakeSwath
    <3>1. ~TooLong(board, currentTakeoff, current', LandingOf(board, current'))
      BY <2>1 DEF TakeSwath, Fits, Trial
    <3>2. QED BY <1>1, <2>1, <3>1 DEF TakeSwath, Fitted, Loop
  <2>2. CASE CloseSortie
    <3>1. InTime(board, Loop')
      BY <2>2, LoopGrows, ClosedInTime DEF CloseSortie
    <3>2. QED BY <1>1, <2>2, <3>1 DEF CloseSortie
  <2>3. CASE GiveUp
    <3>1. Loop'.sorties = Loop.sorties
      BY <2>3 DEF GiveUp, Loop
    <3>2. InTime(board, Loop')
      BY <3>1 DEF InTime, Fitted
    <3>3. QED BY <1>1, <2>3, <3>2 DEF GiveUp, Fitted
  <2>4. CASE Recover
    <3>1. PICK s \in Recoveries(board, Head(remaining)) : Loop' = With(Loop, s)
      BY <2>4, LoopGrows
    <3>2. InTime(board, Loop')
      BY <1>4, <2>4, <3>1, Recovered, OneMoreInTime DEF Fitted, Recover, Exceeds
    <3>3. QED BY <1>1, <2>4, <3>2 DEF Recover
  <2>5. CASE LeaveOut
    <3>1. Loop'.sorties = Loop.sorties
      BY <2>5 DEF LeaveOut, Loop
    <3>2. InTime(board, Loop')
      BY <3>1 DEF InTime, Fitted
    <3>3. QED BY <1>1, <2>5, <3>2 DEF LeaveOut
  <2>6. CASE StartBackward
    <3>1. Loop'.sorties = <<>> /\ current' = <<>>
      BY <2>6 DEF StartBackward, Loop
    <3>2. QED BY <3>1 DEF InTime
  <2>7. CASE UNCHANGED loop
    BY <1>1, <2>7 DEF Fitted, loop, Loop
  <2>8. QED
    BY <2>1, <2>2, <2>3, <2>4, <2>5, <2>6, <2>7
       DEF Next, vars, KeepBetter, PlaceSorties
<1>6. QED BY <1>3, <1>5 DEF Fitted

-----------------------------------------------------------------------------
(* Swaths *)

LEMMA OneMoreShared ==
  ASSUME NEW r, r.sorties \in Seq(Sorties), NEW s \in Sorties, NEW ids,
         SharesOut(r, ids), NoRepeat(s.swaths), Ids(s.swaths) \cap ids = {}
  PROVE  SharesOut(With(r, s), ids \cup Ids(s.swaths))
<1> DEFINE n == Len(r.sorties)
           more == With(r, s)
           Of(k) == Ids(more.sorties[k].swaths)
<1>1. /\ n \in Nat
      /\ DOMAIN r.sorties = 1 .. n
      /\ DOMAIN more.sorties = 1 .. n + 1
      /\ \A k \in 1 .. n : more.sorties[k] = r.sorties[k]
      /\ more.sorties[n + 1] = s
      /\ more.uncovered = r.uncovered
  BY OneMore
<1> HIDE DEF n, more
<1>2. \A k \in DOMAIN more.sorties : k \in 1 .. n \/ k = n + 1
  BY <1>1
<1>3. \A k \in 1 .. n : /\ k \in DOMAIN more.sorties /\ k # n + 1
                        /\ Of(k) = Ids(r.sorties[k].swaths)
                        /\ Of(k) \subseteq ids
                        /\ Of(k) \cap Ids(s.swaths) = {}
  BY <1>1 DEF SharesOut
<1>4. Of(n + 1) = Ids(s.swaths) /\ n + 1 \in DOMAIN more.sorties
  BY <1>1
<1>5. Ids(r.uncovered) \cap Ids(s.swaths) = {}
  BY DEF SharesOut
<1> DEFINE flown == UNION {Ids(r.sorties[k].swaths) : k \in DOMAIN r.sorties}
           flownMore == UNION {Of(k) : k \in DOMAIN more.sorties}
<1>6. flownMore = flown \cup Ids(s.swaths)
  <2>1. ASSUME NEW x, \E k \in DOMAIN more.sorties : x \in Of(k)
        PROVE  (\E k \in DOMAIN r.sorties : x \in Ids(r.sorties[k].swaths)) \/ x \in Ids(s.swaths)
    BY <1>1, <1>2, <1>3, <1>4, <2>1
  <2>2. ASSUME NEW x, (\E k \in DOMAIN r.sorties : x \in Ids(r.sorties[k].swaths)) \/ x \in Ids(s.swaths)
        PROVE  \E k \in DOMAIN more.sorties : x \in Of(k)
    BY <1>1, <1>3, <1>4, <2>2
  <2>3. QED BY <2>1, <2>2
<1>7. ids \cup Ids(s.swaths) = Ids(more.uncovered) \cup flownMore
  <2>1. ids = Ids(r.uncovered) \cup flown
    BY DEF SharesOut
  <2> HIDE DEF flown, flownMore
  <2>2. QED BY <1>1, <1>6, <2>1
<1>8. \A k \in DOMAIN more.sorties :
        NoRepeat(more.sorties[k].swaths) /\ Of(k) \cap Ids(more.uncovered) = {}
  BY <1>1, <1>2, <1>5 DEF SharesOut
<1>9. \A k, l \in DOMAIN more.sorties : Of(k) \cap Of(l) # {} => k = l
  <2> SUFFICES ASSUME NEW k \in DOMAIN more.sorties, NEW l \in DOMAIN more.sorties,
                      Of(k) \cap Of(l) # {}
               PROVE  k = l
    OBVIOUS
  <2>1. CASE k \in 1 .. n /\ l \in 1 .. n
    BY <1>1, <1>3, <2>1 DEF SharesOut
  <2>2. CASE k = n + 1 /\ l \in 1 .. n
    BY <1>3, <1>4, <2>2
  <2>3. CASE k \in 1 .. n /\ l = n + 1
    BY <1>3, <1>4, <2>3
  <2>4. QED BY <1>2, <2>1, <2>2, <2>3
<1>10. NoRepeat(more.uncovered)
  BY <1>1 DEF SharesOut
<1>11. SharesOut(more, ids \cup Ids(s.swaths))
  BY <1>7, <1>8, <1>9, <1>10 DEF SharesOut
<1>12. QED BY <1>11 DEF more

LEMMA MoreLeftOut ==
  ASSUME NEW r, r.uncovered \in Seq(Swaths), NEW block \in Seq(Swaths), NEW ids,
         SharesOut(r, ids), NoRepeat(block), Ids(block) \cap ids = {}
  PROVE  SharesOut([sorties |-> r.sorties, uncovered |-> r.uncovered \o block],
                   ids \cup Ids(block))
<1>1. Ids(r.uncovered) \subseteq ids
      /\ \A k \in DOMAIN r.sorties : Ids(r.sorties[k].swaths) \subseteq ids
  BY DEF SharesOut
<1> DEFINE more == [sorties |-> r.sorties, uncovered |-> r.uncovered \o block]
           flown == UNION {Ids(r.sorties[k].swaths) : k \in DOMAIN r.sorties}
<1>2. /\ more.sorties = r.sorties
      /\ Ids(more.uncovered) = Ids(r.uncovered) \cup Ids(block)
      /\ NoRepeat(more.uncovered)
  BY <1>1, IdsOfConcat DEF SharesOut
<1> HIDE DEF more
<1>3. ids \cup Ids(block) = Ids(more.uncovered) \cup flown
  <2>1. ids = Ids(r.uncovered) \cup flown
    BY DEF SharesOut
  <2> HIDE DEF flown
  <2>2. QED BY <1>2, <2>1
<1>4. \A k \in DOMAIN r.sorties : Ids(r.sorties[k].swaths) \cap Ids(more.uncovered) = {}
  BY <1>1, <1>2 DEF SharesOut
<1>5. SharesOut(more, ids \cup Ids(block))
  <2>1. UNION {Ids(more.sorties[k].swaths) : k \in DOMAIN more.sorties} = flown
    BY <1>2
  <2>2. \A k \in DOMAIN more.sorties :
          /\ NoRepeat(more.sorties[k].swaths)
          /\ Ids(more.sorties[k].swaths) \cap Ids(more.uncovered) = {}
          /\ \A l \in DOMAIN more.sorties :
               Ids(more.sorties[k].swaths) \cap Ids(more.sorties[l].swaths) # {} => k = l
    BY <1>2, <1>4 DEF SharesOut
  <2> HIDE DEF flown
  <2>3. QED BY <1>2, <1>3, <2>1, <2>2 DEF SharesOut
<1>6. QED BY <1>5 DEF more

(* A pass that is over has shared out the whole block. *)
LEMMA ResultShared ==
  ASSUME TypeOK, Shared, remaining = <<>>
  PROVE  SharesOut(Result, 1 .. Len(board.swaths))
<1> DEFINE ids == 1 .. Len(board.swaths)
           s == Closed(board, currentTakeoff, current)
<1>1. Ids(remaining) = {}
  BY IdsOfFew
<1>2. SharesOut(Loop, ids \ Ids(current)) /\ Ids(current) \subseteq ids
  BY <1>1 DEF Shared
<1>3. CASE current = <<>>
  <2>1. Ids(current) = {}
    BY <1>3, IdsOfFew
  <2>2. SharesOut(Loop, ids)
    BY <1>2, <2>1
  <2>3. QED BY <1>3, <2>2, ResultIs
<1>4. CASE current # <<>>
  <2>1. s \in Sorties /\ s.swaths = current
    BY <1>4, LoopTypes DEF Closed
  <2>2. Loop.sorties \in Seq(Sorties) /\ NoRepeat(current)
    BY DEF Loop, TypeOK, Shared
  <2> HIDE DEF ids, s
  <2>3. SharesOut(With(Loop, s), (ids \ Ids(current)) \cup Ids(current))
    BY <1>2, <2>1, <2>2, OneMoreShared
  <2>4. (ids \ Ids(current)) \cup Ids(current) = ids
    BY <1>2
  <2>5. SharesOut(With(Loop, s), ids)
    BY <2>3, <2>4
  <2>6. QED BY <1>4, <2>5, ResultIs DEF s, ids
<1>5. QED BY <1>3, <1>4

(* What Shared says of the loop, for a step that moves swaths from what remains
   and the sortie being filled to what is shared out. *)
LEMMA SharedStep ==
  ASSUME TypeOK, Shared, [Next]_vars
  PROVE  Shared'
<1> DEFINE ids == 1 .. Len(board.swaths)
           R == Ids(remaining)
           C == Ids(current)
<1>1. board' = board
  BY BoardStays
<1>2. EverySwathOnce'
  BY <1>1, NewResults, ResultShared DEF Shared, EverySwathOnce
<1>3. /\ NoRepeat(remaining) /\ NoRepeat(current)
      /\ R \cap C = {} /\ R \cup C \subseteq ids
      /\ SharesOut(Loop, ids \ (R \cup C))
      /\ Loop.sorties \in Seq(Sorties) /\ Loop.uncovered \in Seq(Swaths)
  BY DEF Shared, TypeOK, Loop
<1>4. /\ remaining \in Seq(Swaths) /\ current \in Seq(Swaths)
      /\ board \in Boards
  BY DEF TypeOK
<1>5. Ids(<<>>) = {} /\ NoRepeat(<<>>)
  BY IdsOfFew
<1>6. ASSUME remaining # <<>>
      PROVE  /\ Head(remaining) \in Swaths
             /\ R = Ids(Tail(remaining)) \cup {Head(remaining).id}
             /\ NoRepeat(Tail(remaining))
             /\ Head(remaining).id \notin Ids(Tail(remaining))
             /\ Ids(<<Head(remaining)>>) = {Head(remaining).id}
             /\ NoRepeat(<<Head(remaining)>>)
             /\ <<Head(remaining)>> \in Seq(Swaths)
  BY <1>3, <1>4, <1>6, IdsOfTail, IdsOfFew, LoopTypes
<1> HIDE DEF ids, R, C
<1>7. /\ NoRepeat(remaining') /\ NoRepeat(current')
      /\ Ids(remaining') \cap Ids(current') = {}
      /\ Ids(remaining') \cup Ids(current') \subseteq ids
      /\ SharesOut(Loop', ids \ (Ids(remaining') \cup Ids(current')))
  <2>1. CASE TakeSwath
    <3>1. /\ current' = Append(current, Head(remaining))
          /\ remaining' = Tail(remaining) /\ remaining # <<>> /\ Loop' = Loop
      BY <2>1 DEF TakeSwath, Fits, Loop
    <3>2. Head(remaining).id \notin Ids(current)
      BY <1>3, <1>6, <3>1 DEF C
    <3>3. Ids(current') = C \cup {Head(remaining).id} /\ NoRepeat(current')
      BY <1>3, <1>4, <1>6, <3>1, <3>2, IdsOfAppend DEF C
    <3>4. Ids(remaining') \cup Ids(current') = R \cup C
      BY <1>6, <3>1, <3>3
    <3>5. Ids(remaining') \cap Ids(current') = {}
      BY <1>3, <1>6, <3>1, <3>3
    <3>6. QED BY <1>3, <1>6, <3>1, <3>3, <3>4, <3>5
  <2>2. CASE CloseSortie
    <3> DEFINE s == Closed(board, currentTakeoff, current)
    <3>1. /\ current # <<>> /\ current' = <<>> /\ remaining' = remaining
          /\ Loop' = With(Loop, s)
      BY <2>2, LoopGrows DEF CloseSortie
    <3>2. s \in Sorties /\ s.swaths = current
      BY <3>1, LoopTypes DEF Closed
    <3> HIDE DEF s
    <3>3. SharesOut(Loop', (ids \ (R \cup C)) \cup C)
      BY <1>3, <3>1, <3>2, OneMoreShared DEF C
    <3>4. (ids \ (R \cup C)) \cup C = ids \ R
      BY <1>3
    <3>5. Ids(remaining') = R /\ Ids(current') = {}
      BY <1>5, <3>1 DEF R
    <3>6. QED BY <1>3, <1>5, <3>1, <3>3, <3>4, <3>5
  <2>3. CASE GiveUp
    <3>1. /\ remaining' = <<>> /\ current' = current
          /\ Loop' = [sorties |-> Loop.sorties, uncovered |-> Loop.uncovered \o remaining]
      BY <2>3 DEF GiveUp, Loop
    <3>2. SharesOut(Loop', (ids \ (R \cup C)) \cup R)
      BY <1>3, <1>4, <3>1, MoreLeftOut DEF R
    <3>3. (ids \ (R \cup C)) \cup R = ids \ C
      BY <1>3
    <3>4. Ids(remaining') = {} /\ Ids(current') = C
      BY <1>5, <3>1 DEF C
    <3>5. QED BY <1>3, <1>5, <3>1, <3>2, <3>3, <3>4
  <2>4. CASE Recover \/ LeaveOut
    <3>1. /\ remaining # <<>> /\ remaining' = Tail(remaining)
          /\ current = <<>> /\ current' = <<>>
      BY <2>4 DEF Recover, LeaveOut, Exceeds
    <3>2. C = {} /\ Ids(current') = {}
      BY <1>5, <3>1 DEF C
    <3>3. {Head(remaining).id} \cap (ids \ (R \cup C)) = {}
      BY <1>6, <3>1
    <3>4. SharesOut(Loop', (ids \ (R \cup C)) \cup {Head(remaining).id})
      <4>1. CASE Recover
        <5>1. PICK s \in Recoveries(board, Head(remaining)) : Loop' = With(Loop, s)
          BY <4>1, LoopGrows
        <5>2. s \in Sorties /\ s.swaths = <<Head(remaining)>>
          BY <3>1, Recovered
        <5>3. QED BY <1>3, <1>6, <3>1, <3>3, <5>1, <5>2, OneMoreShared
      <4>2. CASE LeaveOut
        <5>1. uncovered' = uncovered \o <<Head(remaining)>>
          BY <1>6, <3>1, <4>2, AppendIsConcat DEF LeaveOut, TypeOK
        <5>2. Loop' = [sorties |-> Loop.sorties,
                       uncovered |-> Loop.uncovered \o <<Head(remaining)>>]
          BY <4>2, <5>1 DEF LeaveOut, Loop
        <5>3. QED BY <1>3, <1>6, <3>1, <3>3, <5>2, MoreLeftOut
      <4>3. QED BY <2>4, <4>1, <4>2
    <3>5. (ids \ (R \cup C)) \cup {Head(remaining).id} = ids \ Ids(remaining')
      BY <1>3, <1>6, <3>1, <3>2
    <3>6. QED BY <1>3, <1>5, <1>6, <3>1, <3>2, <3>4, <3>5
  <2>5. CASE StartBackward
    <3>1. /\ remaining' = ReversedBlock(board.swaths) /\ current' = <<>>
          /\ Loop' = [sorties |-> <<>>, uncovered |-> <<>>]
      BY <2>5 DEF StartBackward, Loop
    <3>2. Ids(remaining') = ids /\ NoRepeat(remaining')
      BY <1>4, <3>1, IdsOfCall DEF ids
    <3>3. SharesOut(Loop', {})
      BY <1>5, <3>1 DEF SharesOut
    <3>4. Ids(current') = {} /\ ids \ (Ids(remaining') \cup Ids(current')) = {}
      BY <1>5, <3>1, <3>2
    <3>5. QED BY <1>5, <3>1, <3>2, <3>3, <3>4
  <2>6. CASE UNCHANGED loop
    BY <1>3, <2>6 DEF loop, Loop, R, C
  <2>7. QED
    BY <2>1, <2>2, <2>3, <2>4, <2>5, <2>6 DEF Next, vars, KeepBetter, PlaceSorties
<1>8. QED BY <1>1, <1>2, <1>7 DEF Shared, ids

-----------------------------------------------------------------------------
(* Takeoff pads *)

(* Only the sorties of a result matter to where a board takes off. *)
LEMMA SameSorties ==
  ASSUME NEW b, NEW r, NEW q, r.sorties = q.sorties
  PROVE  \A k : /\ Departures(b, r, k) = Departures(b, q, k)
                /\ IsRecovery(b, r, k) <=> IsRecovery(b, q, k)
BY DEF Departures, IsRecovery

(* One more sortie leaves the pads of those before it as they were. *)
LEMMA SamePads ==
  ASSUME NEW b, NEW r, r.sorties \in Seq(Sorties), NEW s \in Sorties,
         NEW k \in 1 .. Len(r.sorties) + 1
  PROVE  Departures(b, With(r, s), k) = Departures(b, r, k)
<1> DEFINE n == Len(r.sorties)
           more == With(r, s)
<1>1. n \in Nat /\ \A l \in 1 .. n : more.sorties[l] = r.sorties[l]
  BY OneMore
<1> HIDE DEF n, more
<1>2. CASE k > 1
  <2>1. k - 1 \in 1 .. n
    BY <1>1, <1>2 DEF n
  <2>2. more.sorties[k - 1] = r.sorties[k - 1]
    BY <1>1, <2>1
  <2>3. Departures(b, more, k) = Departures(b, r, k)
    BY <1>2, <2>2 DEF Departures
  <2>4. QED BY <2>3 DEF more
<1>3. CASE ~(k > 1)
  BY <1>3 DEF Departures
<1>4. QED BY <1>2, <1>3

LEMMA SameRecoveries ==
  ASSUME NEW b, NEW r, r.sorties \in Seq(Sorties), NEW s \in Sorties,
         NEW k \in 1 .. Len(r.sorties)
  PROVE  IsRecovery(b, With(r, s), k) <=> IsRecovery(b, r, k)
<1> DEFINE more == With(r, s)
<1>1. k \in 1 .. Len(r.sorties) + 1 /\ more.sorties[k] = r.sorties[k]
  BY OneMore
<1>2. Departures(b, more, k) = Departures(b, r, k)
  BY <1>1, SamePads
<1> HIDE DEF more
<1>3. IsRecovery(b, more, k) <=> IsRecovery(b, r, k)
  BY <1>1, <1>2 DEF IsRecovery
<1>4. QED BY <1>3 DEF more

(* The sortie after it may take off where it landed. *)
LEMMA NextPads ==
  ASSUME NEW b, NEW r, r.sorties \in Seq(Sorties), NEW s \in Sorties
  PROVE  Departures(b, With(r, s), Len(r.sorties) + 2) = {s.landing}
<1> DEFINE n == Len(r.sorties)
           more == With(r, s)
<1>1. n \in Nat /\ more.sorties[n + 1] = s
  BY OneMore
<1> HIDE DEF n, more
<1>2. n + 2 > 1 /\ (n + 2) - 1 = n + 1
  BY <1>1
<1>3. Departures(b, more, n + 2) = {s.landing}
  BY <1>1, <1>2 DEF Departures
<1>4. QED BY <1>3 DEF n, more

LEMMA OneMoreConnected ==
  ASSUME NEW b, NEW r, r.sorties \in Seq(Sorties), NEW s \in Sorties,
         Connected(b, r),
         \/ s.takeoff \in Departures(b, r, Len(r.sorties) + 1)
         \/ IsRecovery(b, With(r, s), Len(r.sorties) + 1)
  PROVE  Connected(b, With(r, s))
<1> DEFINE n == Len(r.sorties)
           more == With(r, s)
<1>1. /\ n \in Nat /\ DOMAIN r.sorties = 1 .. n /\ DOMAIN more.sorties = 1 .. n + 1
      /\ \A k \in 1 .. n : more.sorties[k] = r.sorties[k]
      /\ more.sorties[n + 1] = s
  BY OneMore
<1>2. /\ \A k \in 1 .. n + 1 : Departures(b, more, k) = Departures(b, r, k)
      /\ \A k \in 1 .. n : IsRecovery(b, more, k) <=> IsRecovery(b, r, k)
  BY SamePads, SameRecoveries
<1>3. s.takeoff \in Departures(b, r, n + 1) \/ IsRecovery(b, more, n + 1)
  OBVIOUS
<1> HIDE DEF n, more
<1>4. \A k \in 1 .. n + 1 : k \in 1 .. n \/ k = n + 1
  BY <1>1
<1>5. ASSUME NEW k \in 1 .. n + 1
      PROVE  more.sorties[k].takeoff \in Departures(b, more, k) \/ IsRecovery(b, more, k)
  <2>1. CASE k \in 1 .. n
    <3>1. r.sorties[k].takeoff \in Departures(b, r, k) \/ IsRecovery(b, r, k)
      BY <1>1, <2>1 DEF Connected
    <3>2. QED BY <1>1, <1>2, <2>1, <3>1
  <2>2. CASE k = n + 1
    BY <1>1, <1>2, <1>3, <2>2
  <2>3. QED BY <1>4, <2>1, <2>2
<1>6. Connected(b, more)
  BY <1>1, <1>5 DEF Connected
<1>7. QED BY <1>6 DEF more

(* A sortie over one swath that did not fit from where the board is. *)
LEMMA RecoveredIsRecovery ==
  ASSUME TypeOK, Chained, Exceeds, current = <<>>,
         NEW s \in Recoveries(board, Head(remaining))
  PROVE  IsRecovery(board, With(Loop, s), Len(sorties) + 1)
<1> DEFINE more == With(Loop, s)
           n == Len(sorties)
<1>1. remaining # <<>> /\ Loop.sorties = sorties /\ sorties \in Seq(Sorties)
  BY DEF Exceeds, Loop, TypeOK
<1>2. s \in Sorties /\ s.swaths = <<Head(remaining)>>
  BY <1>1, Recovered
<1>3. more.sorties[n + 1] = s /\ n \in Nat
  BY <1>1, <1>2, OneMore
<1>4. currentTakeoff \in Departures(board, more, n + 1)
  <2>1. n + 1 \in 1 .. n + 1
    BY <1>3
  <2>2. Departures(board, more, n + 1) = Departures(board, Loop, n + 1)
    BY <1>1, <1>2, <2>1, SamePads
  <2>3. currentTakeoff \in Departures(board, Loop, n + 1)
    BY DEF Chained
  <2> HIDE DEF more, n
  <2>4. QED BY <2>1, <2>2, <2>3
<1>5. Trial = <<Head(remaining)>>
  BY DEF Trial
<1>6. TooLong(board, currentTakeoff, s.swaths, LandingOf(board, s.swaths))
  BY <1>2, <1>5 DEF Exceeds
<1>7. Len(s.swaths) = 1
  BY <1>2
<1> HIDE DEF more, n
<1>8. IsRecovery(board, more, n + 1)
  BY <1>3, <1>4, <1>6, <1>7 DEF IsRecovery
<1>9. QED BY <1>8 DEF more, n

LEMMA ClosedConnected ==
  ASSUME TypeOK, Chained, current # <<>>
  PROVE  Connected(board, With(Loop, Closed(board, currentTakeoff, current)))
<1> DEFINE s == Closed(board, currentTakeoff, current)
<1>1. s \in Sorties /\ s.takeoff = currentTakeoff
  BY LoopTypes DEF Closed
<1>2. Loop.sorties \in Seq(Sorties) /\ Len(Loop.sorties) = Len(sorties)
  BY DEF Loop, TypeOK
<1> HIDE DEF s
<1>3. Connected(board, With(Loop, s))
  BY <1>1, <1>2, OneMoreConnected DEF Chained
<1>4. QED BY <1>3 DEF s

LEMMA ChainedStep ==
  ASSUME TypeOK, Chained, [Next]_vars
  PROVE  Chained'
<1>1. board' = board
  BY BoardStays
<1>2. Connected(board, Result)
  BY ResultIs, ClosedConnected DEF Chained
<1>3. \A r \in Range(packs') : Connected(board', r)
  BY <1>1, <1>2, NewResults DEF Chained
<1>4. /\ Loop.sorties = sorties /\ Loop'.sorties = sorties'
      /\ sorties \in Seq(Sorties) /\ Len(sorties) \in Nat
  BY LenProperties DEF Loop, TypeOK
<1>5. /\ Connected(board, Loop')
      /\ currentTakeoff' \in Departures(board, Loop', Len(sorties') + 1)
  <2>1. CASE CloseSortie
    <3> DEFINE s == Closed(board, currentTakeoff, current)
    <3>1. /\ current # <<>> /\ Loop' = With(Loop, s)
          /\ currentTakeoff' = s.landing
      BY <2>1, LoopGrows DEF CloseSortie, Closed
    <3>2. s \in Sorties
      BY <3>1, LoopTypes
    <3>3. Connected(board, Loop')
      BY <3>1, ClosedConnected
    <3> HIDE DEF s
    <3>4. Len(sorties') + 1 = Len(sorties) + 2
      BY <1>4, <3>1, <3>2, OneMore
    <3>5. Departures(board, With(Loop, s), Len(sorties) + 2) = {s.landing}
      BY <1>4, <3>2, NextPads
    <3>6. QED BY <3>1, <3>3, <3>4, <3>5
  <2>2. CASE Recover
    <3>1. PICK s \in Recoveries(board, Head(remaining)) :
            Loop' = With(Loop, s) /\ currentTakeoff' = s.landing
      BY <2>2, LoopGrows
    <3>2. s \in Sorties
      BY <2>2, Recovered DEF Recover, Exceeds
    <3>3. IsRecovery(board, With(Loop, s), Len(sorties) + 1)
      BY <2>2, RecoveredIsRecovery DEF Recover
    <3>4. Connected(board, Loop')
      BY <1>4, <3>1, <3>2, <3>3, OneMoreConnected DEF Chained
    <3>5. Len(sorties') + 1 = Len(sorties) + 2
      BY <1>4, <3>1, <3>2, OneMore
    <3>6. Departures(board, With(Loop, s), Len(sorties) + 2) = {s.landing}
      BY <1>4, <3>2, NextPads
    <3>7. QED BY <3>1, <3>4, <3>5, <3>6
  <2>3. CASE StartBackward
    <3>1. /\ sorties' = <<>>
          /\ currentTakeoff' = FirstTakeoff(board, ReversedBlock(board.swaths))
      BY <2>3 DEF StartBackward
    <3>2. Len(sorties') + 1 = 1 /\ ~(1 > 1)
      BY <3>1
    <3>3. currentTakeoff' \in Departures(board, Loop', Len(sorties') + 1)
      BY <3>1, <3>2 DEF Departures
    <3>4. QED BY <1>4, <3>1, <3>3 DEF Connected
  <2>4. CASE sorties' = sorties /\ currentTakeoff' = currentTakeoff
    <3>1. \A k : /\ Departures(board, Loop', k) = Departures(board, Loop, k)
                 /\ IsRecovery(board, Loop', k) <=> IsRecovery(board, Loop, k)
      BY <1>4, <2>4, SameSorties
    <3>2. QED BY <1>4, <2>4, <3>1 DEF Chained, Connected
  <2>5. QED
    BY <2>1, <2>2, <2>3, <2>4 DEF Next, vars, loop, TakeSwath, GiveUp, LeaveOut,
       KeepBetter, PlaceSorties
<1>6. QED BY <1>1, <1>3, <1>5 DEF Chained

(* Closing the last sortie leaves the ones before it recoveries. *)
LEMMA SingleResult ==
  ASSUME TypeOK, Single, ~board.allowRecharge
  PROVE  \A k \in DOMAIN Result.sorties :
           k < Len(Result.sorties) => IsRecovery(board, Result, k)
<1>1. /\ Loop.sorties = sorties /\ sorties \in Seq(Sorties) /\ Len(sorties) \in Nat
      /\ DOMAIN sorties = 1 .. Len(sorties)
  BY LenProperties DEF Loop, TypeOK
<1>2. CASE current = <<>>
  BY <1>1, <1>2, ResultIs DEF Single
<1>3. CASE current # <<>>
  <2> DEFINE s == Closed(board, currentTakeoff, current)
  <2>1. Result = With(Loop, s) /\ s \in Sorties
    BY <1>3, ResultIs, LoopTypes
  <2> HIDE DEF s
  <2>2. Len(Result.sorties) = Len(sorties) + 1
        /\ DOMAIN Result.sorties = 1 .. Len(sorties) + 1
    BY <1>1, <2>1, OneMore
  <2>3. \A k \in 1 .. Len(sorties) : IsRecovery(board, Result, k)
    BY <1>1, <2>1, SameRecoveries DEF Single
  <2>4. QED BY <1>1, <2>2, <2>3
<1>4. QED BY <1>2, <1>3

LEMMA SingleStep ==
  ASSUME TypeOK, Chained, Single, [Next]_vars
  PROVE  Single'
<1>1. board' = board
  BY BoardStays
<1>2. SUFFICES ASSUME ~board.allowRecharge
      PROVE  /\ \A k \in DOMAIN sorties' : IsRecovery(board, Loop', k)
             /\ \A r \in Range(packs') : \A k \in DOMAIN r.sorties :
                  k < Len(r.sorties) => IsRecovery(board, r, k)
  BY <1>1 DEF Single
<1>3. /\ Loop.sorties = sorties /\ Loop'.sorties = sorties'
      /\ sorties \in Seq(Sorties) /\ Len(sorties) \in Nat
      /\ DOMAIN sorties = 1 .. Len(sorties)
  BY LenProperties DEF Loop, TypeOK
<1>4. \A k \in DOMAIN Result.sorties : k < Len(Result.sorties) => IsRecovery(board, Result, k)
  BY <1>2, SingleResult
<1>5. \A k \in DOMAIN sorties' : IsRecovery(board, Loop', k)
  <2>1. CASE Recover
    <3>1. PICK s \in Recoveries(board, Head(remaining)) : Loop' = With(Loop, s)
      BY <2>1, LoopGrows
    <3>2. s \in Sorties
      BY <2>1, Recovered DEF Recover, Exceeds
    <3>3. IsRecovery(board, Loop', Len(sorties) + 1)
      BY <2>1, <3>1, RecoveredIsRecovery DEF Recover
    <3>4. \A k \in 1 .. Len(sorties) : IsRecovery(board, Loop', k)
      BY <1>2, <1>3, <3>1, <3>2, SameRecoveries DEF Single
    <3>5. DOMAIN sorties' = 1 .. Len(sorties) + 1
      BY <1>3, <3>1, <3>2, OneMore
    <3>6. \A k \in DOMAIN sorties' : k \in 1 .. Len(sorties) \/ k = Len(sorties) + 1
      BY <1>3, <3>5
    <3>7. QED BY <3>3, <3>4, <3>6
  <2>2. CASE sorties' = <<>>
    BY <2>2
  <2>3. CASE sorties' = sorties
    <3>1. \A k : IsRecovery(board, Loop', k) <=> IsRecovery(board, Loop, k)
      BY <1>3, <2>3, SameSorties
    <3>2. QED BY <1>2, <2>3, <3>1 DEF Single
  <2>4. QED
    BY <1>2, <2>1, <2>2, <2>3 DEF Next, vars, loop, TakeSwath, CloseSortie, GiveUp,
       LeaveOut, StartBackward, KeepBetter, PlaceSorties
<1>6. QED BY <1>2, <1>4, <1>5, NewResults DEF Single

-----------------------------------------------------------------------------
(* Refusals *)

LEMMA RangeOfTail ==
  ASSUME NEW block \in Seq(Swaths), block # <<>>
  PROVE  Head(block) \in Range(block) /\ Range(Tail(block)) \subseteq Range(block)
<1> DEFINE rest == Tail(block)
<1>1. /\ Len(block) \in Nat \ {0}
      /\ DOMAIN block = 1 .. Len(block)
      /\ DOMAIN rest = 1 .. Len(block) - 1
      /\ \A n \in 1 .. Len(block) - 1 : rest[n] = block[n + 1]
      /\ Head(block) = block[1]
  BY HeadTailProperties, LenProperties, EmptySeq
<1>2. 1 \in DOMAIN block /\ \A n \in DOMAIN rest : n + 1 \in DOMAIN block
  BY <1>1
<1> HIDE DEF rest
<1>3. QED BY <1>1, <1>2 DEF Range, rest

(* The result that is kept leaves nothing out if one of the two does not. *)
LEMMA BetterCovers ==
  ASSUME NEW a \in Packs, NEW b \in Packs, Better(a, b).uncovered # <<>>
  PROVE  a.uncovered # <<>> /\ b.uncovered # <<>>
<1>1. /\ a.uncovered \in Seq(Swaths) /\ b.uncovered \in Seq(Swaths)
      /\ Len(a.uncovered) \in Nat /\ Len(b.uncovered) \in Nat
  BY LenProperties DEF Packs
<1>2. /\ Len(a.uncovered) = 0 <=> a.uncovered = <<>>
      /\ Len(b.uncovered) = 0 <=> b.uncovered = <<>>
  BY <1>1
<1>3. CASE AtLeastAsGood(a, b)
  <2>1. Len(a.uncovered) <= Len(b.uncovered)
    BY <1>1, <1>3 DEF AtLeastAsGood
  <2>2. a.uncovered # <<>>
    BY <1>3 DEF Better
  <2>3. QED BY <1>1, <1>2, <2>1, <2>2
<1>4. CASE ~AtLeastAsGood(a, b)
  <2>1. ~(Len(a.uncovered) < Len(b.uncovered))
    BY <1>4 DEF AtLeastAsGood
  <2>2. b.uncovered # <<>>
    BY <1>4 DEF Better
  <2>3. QED BY <1>1, <1>2, <2>1, <2>2
<1>5. QED BY <1>3, <1>4

LEMMA JustifiedStep ==
  ASSUME TypeOK, Justified, [Next]_vars
  PROVE  Justified'
<1>1. board' = board
  BY BoardStays
<1>2. CASE TakeSwath \/ Recover \/ LeaveOut
  <2>1. /\ remaining # <<>> /\ remaining' = Tail(remaining)
        /\ pass' = pass /\ packs' = packs /\ Order' = Order
    BY <1>1, <1>2 DEF TakeSwath, Recover, LeaveOut, Fits, Exceeds, Order
  <2>2. Head(remaining) \in Range(Order) /\ Range(remaining') \subseteq Range(Order)
    BY <2>1, RangeOfTail DEF TypeOK, Justified
  <2>3. board.allowRecharge /\ uncovered' # <<>> => Impossible(board, Order)
    <3>1. CASE LeaveOut
      <4>1. PICK n \in DOMAIN Order : Order[n] = Head(remaining)
        BY <2>2 DEF Range
      <4>2. Recoveries(board, Order[n]) = {}
        BY <3>1, <4>1 DEF LeaveOut
      <4>3. QED BY <4>2 DEF Impossible
    <3>2. CASE TakeSwath \/ Recover
      BY <3>2 DEF TakeSwath, Recover, Justified
    <3>3. QED BY <1>2, <3>1, <3>2
  <2>4. QED BY <1>1, <2>1, <2>2, <2>3 DEF Justified, RefusalIsJustified
<1>3. CASE GiveUp
  <2>1. remaining' = <<>> /\ pass' = pass /\ packs' = packs /\ ~board.allowRecharge
    BY <1>3 DEF GiveUp
  <2>2. Range(remaining') = {}
    BY <2>1 DEF Range
  <2>3. QED BY <1>1, <2>1, <2>2 DEF Justified, RefusalIsJustified
<1>4. CASE CloseSortie
  BY <1>1, <1>4 DEF CloseSortie, Justified, RefusalIsJustified, Order
<1>5. CASE StartBackward
  <2>1. /\ pass = "forward" /\ pass' = "backward" /\ uncovered' = <<>>
        /\ remaining' = ReversedBlock(board.swaths) /\ packs' = <<Result>>
    BY <1>5 DEF StartBackward
  <2>2. Order = board.swaths /\ Order' = remaining'
    BY <1>1, <2>1 DEF Order
  <2>3. packs'[1].uncovered = uncovered
    BY <2>1 DEF Result
  <2>4. board.allowRecharge /\ packs'[1].uncovered # <<>> => Impossible(board, board.swaths)
    BY <2>2, <2>3 DEF Justified
  <2>5. QED BY <1>1, <2>1, <2>2, <2>4 DEF Justified, RefusalIsJustified
<1>6. CASE KeepBetter
  <2>1. /\ pass = "backward" /\ pass' = "packed" /\ remaining' = remaining
        /\ uncovered' = uncovered /\ packs' = <<Better(packs[1], Result)>>
    BY <1>6 DEF KeepBetter, loop
  <2>2. Order' = Order /\ Order = ReversedBlock(board.swaths)
    BY <1>1, <2>1 DEF Order
  <2>3. packs[1] \in Packs /\ Result \in Packs /\ Result.uncovered = uncovered
    BY <2>1, ResultsKept, LoopTypes DEF Result
  <2>4. packs'[1].uncovered # <<>> => packs[1].uncovered # <<>> /\ uncovered # <<>>
    <3>1. packs'[1] = Better(packs[1], Result)
      BY <2>1
    <3>2. QED BY <2>3, <3>1, BetterCovers
  <2>5. RefusalIsJustified'
    BY <1>1, <2>1, <2>2, <2>4 DEF Justified, RefusalIsJustified
  <2>6. QED BY <1>1, <2>1, <2>2, <2>5 DEF Justified
<1>7. CASE PlaceSorties
  BY <1>1, <1>7 DEF PlaceSorties, loop, Justified, RefusalIsJustified, Order
<1>8. CASE UNCHANGED vars
  BY <1>1, <1>8 DEF vars, loop, Justified, RefusalIsJustified, Order
<1>9. QED
  BY <1>2, <1>3, <1>4, <1>5, <1>6, <1>7, <1>8 DEF Next

-----------------------------------------------------------------------------
(* The theorems *)

LEMMA InitInv ==
  ASSUME Init
  PROVE  IInv
<1>1. /\ pass = "forward" /\ packs = <<>> /\ sorties = <<>> /\ uncovered = <<>>
      /\ current = <<>> /\ remaining = board.swaths /\ board \in Boards
      /\ currentTakeoff = FirstTakeoff(board, board.swaths)
  BY DEF Init
<1>2. board.swaths \in Seq(Swaths)
  BY <1>1, PackAssumption DEF BoardCalls
<1>3. currentTakeoff \in Pads
  BY <1>1, <1>2, TakeoffChosen
<1>4. TypeOK
  BY <1>1, <1>2, <1>3 DEF TypeOK
<1>5. Range(packs) = {}
  BY <1>1, <1>4, ResultsKept
<1>6. Fitted
  BY <1>1, <1>5 DEF Fitted, InTime, Loop
<1>7. Shared
  <2>1. Ids(current) = {} /\ NoRepeat(current) /\ Ids(uncovered) = {} /\ NoRepeat(uncovered)
    BY <1>1, IdsOfFew
  <2>2. Ids(remaining) = 1 .. Len(board.swaths) /\ NoRepeat(remaining)
    BY <1>1, IdsOfCall
  <2>3. SharesOut(Loop, {})
    BY <1>1, <2>1 DEF SharesOut, Loop
  <2>4. (1 .. Len(board.swaths)) \ (Ids(remaining) \cup Ids(current)) = {}
    BY <2>1, <2>2
  <2>5. QED BY <1>5, <2>1, <2>2, <2>3, <2>4 DEF Shared, EverySwathOnce
<1>8. Chained
  <2>1. Len(sorties) + 1 = 1 /\ ~(1 > 1)
    BY <1>1
  <2>2. currentTakeoff \in Departures(board, Loop, Len(sorties) + 1)
    BY <1>1, <2>1 DEF Departures
  <2>3. Connected(board, Loop)
    BY <1>1 DEF Connected, Loop
  <2>4. QED BY <1>5, <2>2, <2>3 DEF Chained
<1>9. Single
  BY <1>1, <1>5 DEF Single
<1>10. Justified
  BY <1>1 DEF Justified, RefusalIsJustified, Order
<1>11. QED BY <1>4, <1>6, <1>7, <1>8, <1>9, <1>10 DEF IInv

LEMMA Invariance == Spec => []IInv
<1>1. Init => IInv
  BY InitInv
<1>2. IInv /\ [Next]_vars => IInv'
  BY TypesStep, FittedStep, SharedStep, ChainedStep, SingleStep, JustifiedStep DEF IInv
<1>3. QED BY <1>1, <1>2, PTL DEF Spec

(* The loop and the results of the passes have their types (TypeOK). *)
THEOREM WellTyped == Spec => []TypeOK
<1>1. IInv => TypeOK
  BY DEF IInv
<1>2. QED BY <1>1, Invariance, PTL

(* No sortie of a pass or of the result exceeds the endurance of its board, for
   any block, pads and distances (EnduranceHolds). *)
THEOREM SortiesFit == Spec => []EnduranceHolds
<1>1. ASSUME IInv
      PROVE  EnduranceHolds
  <2>1. InTime(board, Result) /\ \A r \in Range(packs) : InTime(board, r)
    BY <1>1, ResultIs, ClosedInTime DEF IInv, Fitted
  <2>2. QED BY <2>1 DEF EnduranceHolds, Results, InTime, TooLong, FlightTime
<1>2. QED BY <1>1, Invariance, PTL

(* Every swath of a block is in exactly one sortie of a result or left out by it
   (EverySwathOnce). *)
THEOREM NoSwathLost == Spec => []EverySwathOnce
<1>1. IInv => EverySwathOnce
  BY DEF IInv, Shared
<1>2. QED BY <1>1, Invariance, PTL

(* With recharge a block is refused only when either order has a swath that no
   flight between permitted pads covers (RefusalIsJustified). *)
THEOREM RefusalsAreJustified == Spec => []RefusalIsJustified
<1>1. IInv => RefusalIsJustified
  BY DEF IInv, Justified
<1>2. QED BY <1>1, Invariance, PTL

(* A board takes off where it landed, but for recoveries (OnlyRecoveryJumps). *)
THEOREM BoardsStayWhereTheyLand == Spec => []OnlyRecoveryJumps
<1>1. ASSUME IInv
      PROVE  OnlyRecoveryJumps
  <2>1. Connected(board, Result) /\ \A r \in Range(packs) : Connected(board, r)
    BY <1>1, ResultIs, ClosedConnected DEF IInv, Chained
  <2>2. QED BY <2>1 DEF OnlyRecoveryJumps, Results, Connected
<1>2. QED BY <1>1, Invariance, PTL

(* Without recharge, all sorties of a result but the last are recoveries
   (OnePackedSortie). *)
THEOREM OneSortieWithoutRecharge == Spec => []OnePackedSortie
<1>1. ASSUME IInv
      PROVE  OnePackedSortie
  <2>1. ~board.allowRecharge =>
          \A k \in DOMAIN Result.sorties :
            k < Len(Result.sorties) => IsRecovery(board, Result, k)
    BY <1>1, SingleResult DEF IInv
  <2>2. QED BY <1>1, <2>1 DEF IInv, Single, OnePackedSortie, Results
<1>2. QED BY <1>1, Invariance, PTL

=============================================================================
