----------------------------- MODULE SwathSplit -----------------------------
(***************************************************************************)
(* generate_swaths_for_area (planner/geometry/generate.py) from the lines   *)
(* on: each line has points at equal distances with a height over the       *)
(* terrain, every second one is flown backward, and a line is split where   *)
(* the aircraft cannot climb or descend as steeply at survey speed.  A      *)
(* swath is what is left of a line: a run of its points, to which a single  *)
(* point behind the last break may have been joined.                        *)
(*                                                                          *)
(* Heights are whole metres and speeds whole metres a second.               *)
(***************************************************************************)
EXTENDS Integers, Sequences

CONSTANTS
  Heights,                  \* line -> height of each of its points
  Spacing,                  \* from one point to the next
  VSurvey, VMin, VClimb, VDescent

ASSUME SplitAssumption ==
  /\ \A l \in DOMAIN Heights : Heights[l] \in Seq(Int) /\ Len(Heights[l]) >= 2
  /\ {Spacing, VSurvey, VMin, VClimb, VDescent} \subseteq Nat \ {0}

-----------------------------------------------------------------------------
(* _reverse_swath *)
Backward(h) == [i \in 1 .. Len(h) |-> h[Len(h) + 1 - i]]

(* _apply_boustrophedon: the lines are in the order across their direction. *)
Profile(lines, k) ==
  IF k % 2 = 0 THEN Backward(Heights[lines[k]]) ELSE Heights[lines[k]]

(* A leg from one point of a line to a later one. *)
Rate(rise) == IF rise > 0 THEN VClimb ELSE VDescent

Size(rise) == IF rise < 0 THEN 0 - rise ELSE rise

(* Too steep at survey speed. *)
Steep(h, i, j) ==
  LET rise == h[j] - h[i] IN Size(rise) * VSurvey > Rate(rise) * Spacing * (j - i)

(* Too steep at any speed the aircraft can fly at. *)
Sheer(h, i, j) ==
  LET rise == h[j] - h[i] IN Rate(rise) * Spacing * (j - i) < VMin * Size(rise)

(* _find_break_indices *)
Breaks(h) == { i \in 1 .. Len(h) - 1 : Steep(h, i, i + 1) }

(* The runs of points between breaks, and those that are more than a point. *)
Chunks(h) ==
  { c \in (1 .. Len(h)) \X (1 .. Len(h)) :
      /\ c[1] <= c[2]
      /\ c[1] = 1 \/ c[1] - 1 \in Breaks(h)
      /\ c[2] = Len(h) \/ c[2] \in Breaks(h)
      /\ \A i \in c[1] .. c[2] - 1 : i \notin Breaks(h) }

LongChunks(h) == { c \in Chunks(h) : c[1] < c[2] }

(* Mutant: a chunk ends before the point at which it breaks. *)
Parts_ShortChunks(h) ==
  IF Breaks(h) = {} \/ LongChunks(h) = {} THEN {[first |-> 1, last |-> Len(h), joined |-> FALSE]}
  ELSE { [first |-> c[1], last |-> IF c[2] \in Breaks(h) THEN c[2] - 1 ELSE c[2], joined |-> FALSE] :
           c \in LongChunks(h) }

(* split_swath_if_needed: a point between two breaks is dropped, but for the last
   point of the line, which goes to the last part there is; a line with no two
   points together stays whole. *)
Parts(h) ==
  IF Breaks(h) = {} \/ LongChunks(h) = {} THEN {[first |-> 1, last |-> Len(h), joined |-> FALSE]}
  ELSE { [first |-> c[1], last |-> c[2],
          joined |-> /\ Len(h) - 1 \in Breaks(h)
                     /\ \A d \in LongChunks(h) : d[2] <= c[2]] : c \in LongChunks(h) }

(* The swaths of an area. *)
SwathsOf(lines) ==
  UNION { { [line |-> k, part |-> p] : p \in Parts(Profile(lines, k)) } : k \in DOMAIN lines }

(* From which point to which a part is flown, leg by leg. *)
LegsOf(h, p) ==
  { <<i, i + 1>> : i \in p.first .. p.last - 1 }
    \cup (IF p.joined THEN {<<p.last, Len(h)>>} ELSE {})

(* _compute_survey_time_energy *)
Feasible(lines, s) ==
  LET h == Profile(lines, s.line)
  IN \A leg \in LegsOf(h, s.part) : ~Sheer(h, leg[1], leg[2])

-----------------------------------------------------------------------------
GentleLegs(h) == { i \in 1 .. Len(h) - 1 : ~Steep(h, i, i + 1) }

(* A swath is straight: a leg to the joined point passes all between. *)
Photographs(s, k, i) ==
  /\ s.line = k
  /\ \/ s.part.first <= i /\ i < s.part.last
     \/ s.part.joined /\ s.part.last <= i

=============================================================================
