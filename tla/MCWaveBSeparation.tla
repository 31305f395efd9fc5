------------------------- MODULE MCWaveBSeparation -------------------------
(***************************************************************************)
(* Three boards on the line 0 .. 14.  The first flies from pad 0, the third *)
(* from pad 14 and back.  The second has its home at 6, may land at 10, and *)
(* flies one or two sorties between the two.                               *)
(***************************************************************************)
EXTENDS WaveBSeparation

CONSTANTS Gap

MCBoards == 1 .. 3

(* _polyline: takeoff, the ends of the swath, landing. *)
Paths(from, to, ends) ==
  { path \in { <<from, a, b, to>> : a, b \in ends } : path[2] # path[3] }

Flights(paths) == { Placed(p, Gap) : p \in paths }
Single(paths) == Flights({ <<x>> : x \in paths })

MCPacks ==
  { <<p, q, r>> :
      p \in Single(Paths(0, 0, {1, 3, 5})),
      q \in Single(Paths(6, 6, {2, 5, 8}) \cup Paths(6, 10, {2, 5, 8, 9}))
             \cup Flights({ <<x, y>> : x \in Paths(6, 10, {2, 8}), y \in Paths(10, 10, {4, 8, 9}) }),
      r \in Single(Paths(14, 14, {13, 12}) \cup Paths(14, 14, {8, 11})) }

=============================================================================
