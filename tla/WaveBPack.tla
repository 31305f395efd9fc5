----------------------------- MODULE WaveBPack -----------------------------
(***************************************************************************)
(* pack_board of wave_b.py: the block of swaths given to one board is      *)
(* packed greedily into sorties under the board's endurance.  The order    *)
(* given and the reversed one are packed in turn and the better result is  *)
(* kept; apply_recharge_timeline then places its sorties in time.          *)
(*                                                                         *)
(* Positions are points, and Distance is the time the board needs from one *)
(* to the other, the same both ways.  A swath is flown from its start to   *)
(* its end and knows its number in the block, so that a flipped swath is   *)
(* still the same one.                                                     *)
(***************************************************************************)
EXTENDS Naturals, Sequences, SequencesExt, Functions

CONSTANTS
  Points,    \* positions in the local plane
  Distance,  \* seconds of flight between two points at the board's speed
  Pads,      \* the pads; a smaller number stands for a smaller identifier
  PadAt,     \* where each pad is
  Boards     \* the calls of pack_board: the inputs of this specification

(* A swath as pack_board gets it. *)
Swaths == [id : Nat, start : Points, end : Points]

(* allowRecharge, allowForeignLanding and allowForeignTakeoff are the flags of
   the scenario, rechargeTime the gap between two sorties. *)
BoardCalls ==
  [swaths : Seq(Swaths), home : Pads, endurance : Nat, rechargeTime : Nat,
   allowRecharge : BOOLEAN, allowForeignLanding : BOOLEAN,
   allowForeignTakeoff : BOOLEAN]

ASSUME PackAssumption ==
  /\ Distance \in [Points \X Points -> Nat]
  /\ \A p, q \in Points : Distance[p, q] = Distance[q, p]
  /\ Pads \subseteq Nat
  /\ PadAt \in [Pads -> Points]
  /\ Boards \subseteq BoardCalls
  /\ \A b \in Boards : \A n \in 1 .. Len(b.swaths) : b.swaths[n].id = n

VARIABLES
  board,           \* the call
  pass,            \* "forward", "backward", "packed", then "placed"
  remaining,       \* _pack_ordered: the swaths not looked at yet
  current,         \* _pack_ordered: the swaths of the sortie being filled
  currentTakeoff,  \* _pack_ordered: the pad it takes off from
  sorties,         \* _pack_ordered: the sorties closed so far
  uncovered,       \* _pack_ordered: the swaths left out
  packs,           \* the results of the passes that are over
  startTimes       \* start_time_s of the sorties kept

loop == <<remaining, current, currentTakeoff, sorties, uncovered>>
vars == <<board, pass, loop, packs, startTimes>>

Sorties == [takeoff : Pads, landing : Pads, swaths : Seq(Swaths)]
Packs == [sorties : Seq(Sorties), uncovered : Seq(Swaths)]

(* The types of the loop and of the results (PackedSortie, pack_board). *)
TypeOK ==
  /\ board \in Boards
  /\ pass \in {"forward", "backward", "packed", "placed"}
  /\ remaining \in Seq(Swaths)
  /\ current \in Seq(Swaths)
  /\ currentTakeoff \in Pads
  /\ sorties \in Seq(Sorties)
  /\ uncovered \in Seq(Swaths)
  /\ packs \in Seq(Packs)
  /\ Len(packs) = IF pass = "forward" THEN 0 ELSE 1

-----------------------------------------------------------------------------
(* Lengths and pads *)

(* sortie_duration_s: to the first swath, along and between the swaths, and
   back to a pad. *)
Duration(takeoff, block, landing) ==
  LET Cursor(n) == IF n = 1 THEN PadAt[takeoff] ELSE block[n - 1].end
      Leg(n) == Distance[Cursor(n), block[n].start]
                  + Distance[block[n].start, block[n].end]
  IN  SumFunction([n \in DOMAIN block |-> Leg(n)])
        + Distance[Cursor(Len(block) + 1), PadAt[landing]]

(* Mutant: the way back is forgotten. *)
TooLong_OneWay(b, takeoff, block, landing) ==
  ~(Duration(takeoff, block, landing) - Distance[Last(block).end, PadAt[landing]]
      <= b.endurance)

(* duration > endurance_s *)
TooLong(b, takeoff, block, landing) ==
  ~(Duration(takeoff, block, landing) <= b.endurance)

(* The key of choose_pad: the closer pad, then home, then the smaller id. *)
Before(point, home, p, q) ==
  LET d(pad) == Distance[point, PadAt[pad]]
      rank(pad) == IF pad = home THEN 0 ELSE 1
  IN  \/ d(p) < d(q)
      \/ d(p) = d(q) /\ rank(p) < rank(q)
      \/ d(p) = d(q) /\ rank(p) = rank(q) /\ p < q

ChoosePad(point, home, allowed) ==
  IF allowed THEN CHOOSE p \in Pads : \A q \in Pads \ {p} : Before(point, home, p, q)
  ELSE home

LandingOf(b, block) == ChoosePad(Last(block).end, b.home, b.allowForeignLanding)

Flipped(swath) == [swath EXCEPT !.start = swath.end, !.end = swath.start]

ReversedBlock(block) == [n \in DOMAIN block |-> Flipped(block[Len(block) + 1 - n])]

-----------------------------------------------------------------------------
(* _pack_ordered *)

FirstTakeoff(b, block) ==
  IF block = <<>> THEN b.home
  ELSE ChoosePad(Head(block).start, b.home, b.allowForeignTakeoff)

Init ==
  /\ board \in Boards
  /\ pass = "forward"
  /\ remaining = board.swaths
  /\ current = <<>>
  /\ currentTakeoff = FirstTakeoff(board, board.swaths)
  /\ sorties = <<>>
  /\ uncovered = <<>>
  /\ packs = <<>>
  /\ startTimes = <<>>

Trial == Append(current, Head(remaining))

(* The head of the loop: there is a swath to look at, and it does or does not
   fit into the sortie. *)
Fits ==
  /\ remaining # <<>>
  /\ ~TooLong(board, currentTakeoff, Trial, LandingOf(board, Trial))

Exceeds ==
  /\ remaining # <<>>
  /\ TooLong(board, currentTakeoff, Trial, LandingOf(board, Trial))

Packing == pass \in {"forward", "backward"}

TakeSwath ==
  /\ Packing /\ Fits
  /\ current' = Append(current, Head(remaining))
  /\ remaining' = Tail(remaining)
  /\ UNCHANGED <<board, pass, currentTakeoff, sorties, uncovered, packs, startTimes>>

(* close: the sortie from a pad over a block. *)
Closed(b, takeoff, block) ==
  [takeoff |-> takeoff, landing |-> LandingOf(b, block), swaths |-> block]

(* Mutants: the sortie is not emptied; the next one takes off from the first
   pad; the swath that did not fit is lost; recharge is not asked for. *)
CloseSortie_KeepsBlock ==
  /\ Packing /\ Exceeds /\ current # <<>> /\ board.allowRecharge
  /\ sorties' = sorties
  /\ currentTakeoff' = LandingOf(board, current)
  /\ UNCHANGED <<board, pass, current, remaining, uncovered, packs, startTimes>>

CloseSortie_SameTakeoff ==
  /\ Packing /\ Exceeds /\ current # <<>> /\ board.allowRecharge
  /\ sorties' = Append(sorties, Closed(board, currentTakeoff, current))
  /\ current' = <<>>
  /\ UNCHANGED <<board, pass, remaining, currentTakeoff, uncovered, packs, startTimes>>

CloseSortie_LosesSwath ==
  /\ Packing /\ Exceeds /\ current # <<>> /\ board.allowRecharge
  /\ sorties' = Append(sorties, Closed(board, currentTakeoff, current))
  /\ currentTakeoff' = LandingOf(board, current)
  /\ current' = <<>>
  /\ remaining' = Tail(remaining)
  /\ UNCHANGED <<board, pass, uncovered, packs, startTimes>>

(* The swath does not fit any more: close the sortie and look at the swath
   again, from the pad it landed on. *)
CloseSortie ==
  /\ Packing /\ Exceeds /\ current # <<>> /\ board.allowRecharge
  /\ sorties' = Append(sorties, Closed(board, currentTakeoff, current))
  /\ currentTakeoff' = LandingOf(board, current)
  /\ current' = <<>>
  /\ UNCHANGED <<board, pass, remaining, uncovered, packs, startTimes>>

(* Without recharge everything that does not fit is left out. *)
GiveUp ==
  /\ Packing /\ Exceeds /\ current # <<>> /\ ~board.allowRecharge
  /\ uncovered' = uncovered \o remaining
  /\ remaining' = <<>>
  /\ UNCHANGED <<board, pass, current, currentTakeoff, sorties, packs, startTimes>>

(* _try_all_pads is called with allow_foreign_takeoff=True: any pad. *)
RecoveryTakeoffs == Pads

RecoveryLandings(b) == IF b.allowForeignLanding THEN Pads ELSE {b.home}

(* The flights over one swath that the endurance allows. *)
Recoveries(b, swath) ==
  {s \in [takeoff : RecoveryTakeoffs, landing : RecoveryLandings(b), swaths : {<<swath>>}] :
     ~TooLong(b, s.takeoff, s.swaths, s.landing)}

(* A swath too long from where the board is: the shortest flight over it from
   any pad.  Of several that are equally short the code takes the first. *)
Recover ==
  /\ Packing /\ Exceeds /\ current = <<>>
  /\ LET found == Recoveries(board, Head(remaining))
         time(s) == Duration(s.takeoff, s.swaths, s.landing)
     IN  \E s \in found :
           /\ \A other \in found : time(s) <= time(other)
           /\ sorties' = Append(sorties, s)
           /\ currentTakeoff' = s.landing
  /\ remaining' = Tail(remaining)
  /\ UNCHANGED <<board, pass, current, uncovered, packs, startTimes>>

LeaveOut ==
  /\ Packing /\ Exceeds /\ current = <<>>
  /\ Recoveries(board, Head(remaining)) = {}
  /\ uncovered' = Append(uncovered, Head(remaining))
  /\ remaining' = Tail(remaining)
  /\ UNCHANGED <<board, pass, current, currentTakeoff, sorties, packs, startTimes>>

-----------------------------------------------------------------------------
(* pack_board *)

(* The result of a pass: the last sortie is closed. *)
Result ==
  [sorties |-> IF current = <<>> THEN sorties
               ELSE Append(sorties, Closed(board, currentTakeoff, current)),
   uncovered |-> uncovered]

(* The same loop over the reversed block, with every swath flipped. *)
StartBackward ==
  /\ pass = "forward" /\ remaining = <<>>
  /\ packs' = <<Result>>
  /\ pass' = "backward"
  /\ remaining' = ReversedBlock(board.swaths)
  /\ current' = <<>>
  /\ currentTakeoff' = FirstTakeoff(board, remaining')
  /\ sorties' = <<>>
  /\ uncovered' = <<>>
  /\ UNCHANGED <<board, startTimes>>

FlightTime(s) == Duration(s.takeoff, s.swaths, s.landing)

AirTime(flights) == SumFunction([k \in DOMAIN flights |-> FlightTime(flights[k])])

(* Mutant: the number of sorties is compared first. *)
AtLeastAsGood_FewerSorties(a, b) ==
  \/ Len(a.sorties) < Len(b.sorties)
  \/ /\ Len(a.sorties) = Len(b.sorties)
     /\ Len(a.uncovered) <= Len(b.uncovered)

(* key_a <= key_b of _better_pack *)
AtLeastAsGood(a, b) ==
  \/ Len(a.uncovered) < Len(b.uncovered)
  \/ /\ Len(a.uncovered) = Len(b.uncovered)
     /\ \/ Len(a.sorties) < Len(b.sorties)
        \/ /\ Len(a.sorties) = Len(b.sorties)
           /\ AirTime(a.sorties) <= AirTime(b.sorties)

Better(a, b) == IF AtLeastAsGood(a, b) THEN a ELSE b

(* Both passes are over: the better result is all that is kept. *)
KeepBetter ==
  /\ pass = "backward" /\ remaining = <<>>
  /\ packs' = <<Better(packs[1], Result)>>
  /\ pass' = "packed"
  /\ UNCHANGED <<board, loop, startTimes>>

(* The loop of apply_recharge_timeline over the sorties of one board. *)
StartTimeOf(flights, gap) ==
  LET start[k \in DOMAIN flights] ==
        IF k = 1 THEN 0
        ELSE start[k - 1] + FlightTime(flights[k - 1]) + gap
  IN  start

(* plan places the sorties of a board that covers its block. *)
PlaceSorties ==
  /\ pass = "packed"
  /\ pass' = "placed"
  /\ startTimes' = IF packs[1].uncovered = <<>> 
                     THEN StartTimeOf(packs[1].sorties, board.rechargeTime)
                     ELSE startTimes
  /\ UNCHANGED <<board, loop, packs>>

Next ==
  \/ TakeSwath \/ CloseSortie \/ GiveUp \/ Recover \/ LeaveOut
  \/ StartBackward \/ KeepBetter \/ PlaceSorties

Spec == Init /\ [][Next]_vars

(* It is a program: it takes its next step. *)
FairSpec == Spec /\ WF_vars(Next)

-----------------------------------------------------------------------------
(* What a pass may claim.  It could end at any time: the results looked at are
   those of the passes that are over and the one the loop has so far. *)

Results == Range(packs) \cup {Result}

Ids(block) == {block[n].id : n \in DOMAIN block}

NoRepeat(block) == \A m, n \in DOMAIN block : block[m].id = block[n].id => m = n

(* The swaths are shared out between the sorties and what is left out: each is
   in exactly one place, once. *)
SharesOut(r, ids) ==
  /\ ids = Ids(r.uncovered) \cup UNION {Ids(r.sorties[k].swaths) : k \in DOMAIN r.sorties}
  /\ NoRepeat(r.uncovered)
  /\ \A k \in DOMAIN r.sorties :
       /\ NoRepeat(r.sorties[k].swaths)
       /\ Ids(r.sorties[k].swaths) \cap Ids(r.uncovered) = {}
       /\ \A l \in DOMAIN r.sorties :
            Ids(r.sorties[k].swaths) \cap Ids(r.sorties[l].swaths) # {} => k = l

(* No sortie takes longer than the endurance of the board, the flights to its
   first swath and to its landing pad included: a trial is measured with its
   landing, and what is closed later is the last trial that fitted. *)
EnduranceHolds ==
  \A r \in Results : \A k \in DOMAIN r.sorties :
    FlightTime(r.sorties[k]) <= board.endurance

(* No swath is dropped or flown twice, in either order: every swath of the block
   is in exactly one sortie or among the uncovered ones, which make plan raise
   CoverageInfeasible. *)
EverySwathOnce ==
  \A r \in Range(packs) : SharesOut(r, 1 .. Len(board.swaths))

Impossible(b, block) == \E n \in DOMAIN block : Recoveries(b, block[n]) = {}

(* With recharge, a mission is refused only when in both orders some swath is
   too long for a flight between any permitted pads: "a swath exceeds endurance
   even with recharge and best pads" (plan).  One order that covers the block
   is enough, and a sortie that is merely full never costs a swath. *)
RefusalIsJustified ==
  /\ board.allowRecharge
  /\ pass \in {"packed", "placed"}
  /\ packs[1].uncovered # <<>>
  => Impossible(board, board.swaths) /\ Impossible(board, ReversedBlock(board.swaths))

(* The pads a sortie would take off from if the board did not move by itself:
   the one it landed on, and at the start the pad chosen for either order. *)
Departures(b, r, k) ==
  IF k > 1 THEN {r.sorties[k - 1].landing}
  ELSE {FirstTakeoff(b, b.swaths), FirstTakeoff(b, ReversedBlock(b.swaths))}

(* A sortie of _try_all_pads: one swath, too long from where the board was. *)
IsRecovery(b, r, k) ==
  LET s == r.sorties[k]
  IN  /\ Len(s.swaths) = 1
      /\ \E pad \in Departures(b, r, k) :
           TooLong(b, pad, s.swaths, LandingOf(b, s.swaths))

(* Only the recovery of a swath that is too long moves a board to another pad
   on the ground; every other sortie takes off where the one before it landed,
   the first at the pad chosen at the start. *)
OnlyRecoveryJumps ==
  \A r \in Results : \A k \in DOMAIN r.sorties :
    r.sorties[k].takeoff \in Departures(board, r, k) \/ IsRecovery(board, r, k)

(* Without recharge a board flies at most one sortie that was packed by the
   loop; any before it are recoveries, which do not look at allow_recharge (so
   more than one sortie can remain, against INT-F2C-003.md:41). *)
OnePackedSortie ==
  ~board.allowRecharge =>
    \A r \in Results : \A k \in DOMAIN r.sorties :
      k < Len(r.sorties) => IsRecovery(board, r, k)

-----------------------------------------------------------------------------
(* Time *)

(* The loop ends for every block and every flag: a swath that never fits is put
   aside and not looked at for ever (_pack_ordered continues without pop when it
   closes a sortie). *)
Terminates == <>(pass = "placed")

=============================================================================
