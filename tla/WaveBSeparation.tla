--------------------------- MODULE WaveBSeparation ---------------------------
(***************************************************************************)
(* The schedule of an isolated Wave B plan, tools/f2c_iso/iso_src/         *)
(* wave_b.py: packed sorties are placed one after the other with recharge  *)
(* gaps (apply_recharge_timeline), boards that come too close in the air   *)
(* are found by sampling their tracks (detect_conflicts), and every board  *)
(* after the first is reversed and delayed until it is clean               *)
(* (resolve_separation, _delay_until_clean).                               *)
(*                                                                         *)
(* Boards are numbered in the order of their uav_id.  Their tracks lie on  *)
(* a line, and a board flies one point per tick: what the search does      *)
(* depends on distances at instants only.  A position between two samples  *)
(* is a fraction, kept as numerator and denominator.                       *)
(***************************************************************************)
EXTENDS Integers, Sequences, FiniteSets, FiniteSetsExt

CONSTANTS
  Boards,         \* 1 .. n, in the order of uav_id
  MinSeparation,  \* min_separation_m
  TimeWindow,     \* time_window_s
  SampleDt,       \* sample_dt_s
  Margin,         \* the 2.0 s added to the last landing in the delay bound
  MinCap,         \* the delay bound is at least this (60 s)
  Packs           \* what the packer may return: board -> sequences of sorties

ASSUME SeparationAssumption ==
  /\ Boards = 1 .. Cardinality(Boards) /\ IsFiniteSet(Boards)
  /\ {MinSeparation, TimeWindow, Margin, MinCap} \subseteq Nat
  /\ SampleDt \in Nat \ {0} /\ SampleDt <= 4 * Margin

VARIABLES
  schedule,   \* sorties by board: path, start, flight, rest
  phase,      \* "detect", "search" or "done"
  board,      \* the board being separated
  reversing,  \* whether its reversed block is being tried
  delay,      \* the delay tried last
  asPacked,   \* the delay found for the block as it was packed
  given       \* history: the schedule before the search

vars == <<schedule, phase, board, reversing, delay, asPacked, given>>

-----------------------------------------------------------------------------
(* Tracks *)

Abs(n) == IF n < 0 THEN -n ELSE n

(* What has been flown when the k-th leg is done. *)
Walked(path) ==
  LET walked[k \in 0 .. Len(path) - 1] ==
        IF k = 0 THEN 0 ELSE walked[k - 1] + Abs(path[k + 1] - path[k])
  IN walked

LengthOf(path) == Walked(path)[Len(path) - 1]

PointOnPath(path, d) ==
  LET walked == Walked(path)
      k == CHOOSE k \in 1 .. Len(path) - 1 : walked[k - 1] <= d /\ d <= walked[k]
      flown == d - walked[k - 1]
  IN IF path[k + 1] < path[k] THEN path[k] - flown ELSE path[k] + flown

(* Mutant: only the regular samples. *)
SampleTimes_NoVertices(s) ==
  { s.start + t : t \in { SampleDt * i : i \in 1 .. s.flight } \cap 1 .. s.flight - 1 }

(* Regular samples and the interior vertices; the pads are left out. *)
SampleTimes(s) ==
  LET regular == { SampleDt * i : i \in 1 .. s.flight }
      vertices == { Walked(s.path)[k] : k \in 1 .. Len(s.path) - 2 }
  IN { s.start + t : t \in (regular \cup vertices) \cap 1 .. s.flight - 1 }

(* airborne_samples of all sorties of a board, by time. *)
Track(items) ==
  LET of(t) == CHOOSE i \in DOMAIN items : t \in SampleTimes(items[i])
  IN [t \in UNION { SampleTimes(items[i]) : i \in DOMAIN items } |->
        PointOnPath(items[of(t)].path, t - items[of(t)].start)]

Covers(track, t) ==
  \E t0, t1 \in DOMAIN track : t0 <= t /\ t <= t1

(* Linear between the samples around t, those of two sorties included. *)
PosAt(track, t) ==
  LET t0 == Max({ u \in DOMAIN track : u <= t })
      t1 == Min({ u \in DOMAIN track : u >= t })
  IN IF t0 = t1 THEN [num |-> track[t0], den |-> 1]
     ELSE [num |-> track[t0] * (t1 - t0) + (t - t0) * (track[t1] - track[t0]),
           den |-> t1 - t0]

TooClose(p, q) == Abs(p.num * q.den - q.num * p.den) < MinSeparation * p.den * q.den

Shifts == IF TimeWindow = 0 THEN {0} ELSE {-TimeWindow, 0, TimeWindow}

(* _first_conflict: both tracks are read at the same instant, shifted by the
   window or not. *)
Conflict(a, b) ==
  \E t \in DOMAIN a \cup DOMAIN b, shift \in Shifts :
    /\ Covers(a, t + shift) /\ Covers(b, t + shift)
    /\ TooClose(PosAt(a, t + shift), PosAt(b, t + shift))

(* detect_conflicts: the boards that come too close to board b. *)
ConflictsOf(sched, b) ==
  LET track == Track(sched[b])
  IN IF MinSeparation = 0 THEN {} ELSE { a \in Boards \ {b} : Conflict(Track(sched[a]), track) }

Clean(sched) == \A b \in Boards : ConflictsOf(sched, b) = {}

-----------------------------------------------------------------------------
(* Schedules *)

EndOf(s) == s.start + s.flight

(* apply_recharge_timeline: end to end, a recharge before all but the first. *)
Placed(paths, gap) ==
  LET rest(k) == IF k > 1 THEN gap ELSE 0
      end[k \in 0 .. Len(paths)] ==
        IF k = 0 THEN 0 ELSE end[k - 1] + (rest(k) + LengthOf(paths[k]))
  IN [k \in DOMAIN paths |->
        [path |-> paths[k], flight |-> LengthOf(paths[k]),
         start |-> end[k - 1] + rest(k), rest |-> rest(k)]]

(* What the packer may return for a board: sorties one after the other, each
   along a path from which _polyline has removed the repeated points. *)
IsPath(path) ==
  /\ path \in Seq(Int) /\ Len(path) >= 2
  /\ \A i \in 1 .. Len(path) - 1 : path[i] # path[i + 1]

IsBlock(items) ==
  /\ items \in Seq([path : Seq(Int), flight : Nat, start : Nat, rest : Nat]) /\ items # <<>>
  /\ \A k \in DOMAIN items :
       /\ IsPath(items[k].path) /\ items[k].flight = LengthOf(items[k].path)
       /\ k > 1 => EndOf(items[k - 1]) <= items[k].start

ASSUME PacksAssumption ==
  \A pack \in Packs : DOMAIN pack = Boards /\ \A b \in Boards : IsBlock(pack[b])

(* _reversed_uav_block: each sortie flown backwards, in the same order. *)
Reversed(items) ==
  [k \in DOMAIN items |->
     [items[k] EXCEPT !.path = [i \in DOMAIN items[k].path |->
                                  items[k].path[Len(items[k].path) + 1 - i]]]]

(* Mutant: only the first sortie is moved. *)
Delayed_FirstOnly(items, d) ==
  [k \in DOMAIN items |-> IF k = 1 THEN [items[k] EXCEPT !.start = @ + d] ELSE items[k]]

Delayed(items, d) == [k \in DOMAIN items |-> [items[k] EXCEPT !.start = @ + d]]

Starts(items) == { items[k].start : k \in DOMAIN items }
Ends(items) == { EndOf(items[k]) : k \in DOMAIN items }

Candidate == IF reversing THEN Reversed(schedule[board]) ELSE schedule[board]

(* The frozen boards and the trial, delayed so far. *)
Tried == [schedule EXCEPT ![board] = Delayed(Candidate, delay)]

(* The boards the trial is in conflict with. *)
Others == ConflictsOf(Tried, board)

(* Mutant: only the board that waits is measured. *)
DelayCap_OwnBlock == Max(Ends(schedule[board]))

DelayCap ==
  LET last == Max(UNION { Ends(schedule[b]) : b \in Boards })
  IN Max({ 4 * (last + Margin), MinCap })

(* To just after the last landing of the boards in the way. *)
NextDelay ==
  LET jump == Max(UNION { Ends(schedule[b]) : b \in Others }) - Min(Starts(Candidate)) + SampleDt
  IN IF jump <= delay THEN delay + SampleDt ELSE jump

-----------------------------------------------------------------------------
(* resolve_separation *)

Init ==
  /\ schedule \in Packs
  /\ phase = "detect"
  /\ board = 1 /\ reversing = FALSE /\ delay = 0 /\ asPacked = 0
  /\ given = schedule

(* Nothing to do without a buffer or a conflict; else the second board. *)
Detect ==
  /\ phase = "detect"
  /\ IF Clean(schedule)
       THEN phase' = "done" /\ UNCHANGED board
       ELSE phase' = "search" /\ board' = 2
  /\ UNCHANGED <<schedule, reversing, delay, asPacked, given>>

(* One more turn of the loop in _delay_until_clean. *)
Jump ==
  /\ phase = "search" /\ delay <= DelayCap /\ Others # {}
  /\ delay' = NextDelay
  /\ UNCHANGED <<schedule, phase, board, reversing, asPacked, given>>

(* _delay_until_clean returns: a clean delay, or its bound. *)
Returns == phase = "search" /\ (delay > DelayCap \/ Others = {})
Found == IF delay > DelayCap THEN DelayCap ELSE delay

(* The block as packed is done: the same search for the reversed one. *)
TryReversed ==
  /\ Returns /\ ~reversing
  /\ asPacked' = Found
  /\ reversing' = TRUE
  /\ delay' = 0
  /\ UNCHANGED <<schedule, phase, board, given>>

(* The reversed block must be strictly better; the delay moves every sortie. *)
Best ==
  IF Found < asPacked THEN Delayed(Candidate, Found)
  ELSE Delayed(schedule[board], asPacked)

(* _replace_uav, and on to the next board. *)
Adopt ==
  /\ Returns /\ reversing
  /\ schedule' = [schedule EXCEPT ![board] = Best]
  /\ reversing' = FALSE /\ delay' = 0 /\ asPacked' = 0
  /\ IF board = Cardinality(Boards)
       THEN phase' = "done" /\ UNCHANGED board
       ELSE board' = board + 1 /\ UNCHANGED phase
  /\ UNCHANGED given

Next == Detect \/ Jump \/ TryReversed \/ Adopt

Spec == Init /\ [][Next]_vars

-----------------------------------------------------------------------------
(* Properties *)

(* The bound of the delay search is never what it returns: a jump past the
   last landing of the boards in the way always ends it, so no schedule comes
   back with a conflict, and a board once separated stays separated from the
   boards handled after it. *)
NoConflictLeft == phase = "done" => Clean(schedule)

(* Half ticks, so that boards between two samples are seen: in the air is from
   the first sample or turn to the last. *)
InAir(s, h) ==
  LET first == Min({SampleDt, Walked(s.path)[1]})
      last == Max({(s.flight - 1) - ((s.flight - 1) % SampleDt), Walked(s.path)[Len(s.path) - 2]})
  IN 2 * (s.start + first) <= h /\ h <= 2 * (s.start + last)

TwicePos(s, h) ==
  PointOnPath(s.path, (h \div 2) - s.start) + PointOnPath(s.path, ((h + 1) \div 2) - s.start)

(* The samples stand for the whole tracks: with a buffer longer than what a
   board flies between two samples, two boards in the air are never closer than
   the buffer, between the samples and at the turns included. *)
SeparationHolds ==
  (phase = "done" /\ MinSeparation > SampleDt) =>
    \A a, b \in Boards : a # b =>
      \A i \in DOMAIN schedule[a], j \in DOMAIN schedule[b] :
        LET s == schedule[a][i]
            r == schedule[b][j]
        IN \A h \in 2 * s.start .. 2 * EndOf(s) :
             InAir(s, h) /\ InAir(r, h) =>
               Abs(TwicePos(s, h) - TwicePos(r, h)) >= 2 * MinSeparation

(* The search moves boards as a whole: the first one stays where it was, every
   other one flies the block it was given, or that block reversed, later by
   one delay for all its sorties, so no recharge between two sorties is cut
   short. *)
MovedAsAWhole ==
  /\ schedule[1] = given[1]
  /\ \A b \in Boards : LET d == schedule[b][1].start - given[b][1].start
       IN /\ d >= 0
          /\ DOMAIN schedule[b] = DOMAIN given[b]
          /\ \A k \in DOMAIN schedule[b] : schedule[b][k].start = given[b][k].start + d
          /\ \E block \in {given[b], Reversed(given[b])} :
               \A k \in DOMAIN schedule[b] : schedule[b][k].path = block[k].path

(* A board starts at its home pad and later where it landed before. *)
TakeoffsConnect ==
  \A b \in Boards :
    /\ schedule[b][1].path[1] = given[b][1].path[1]
    /\ \A k \in 2 .. Len(schedule[b]) :
         LET before == schedule[b][k - 1].path
         IN schedule[b][k].path[1] = before[Len(before)]

=============================================================================
