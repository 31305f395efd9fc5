----------------------------- MODULE AngleSearch -----------------------------
(***************************************************************************)
(* The loop of the MVP planner (planner/solver/pipeline.py): for one swath  *)
(* angle after the other, take the swaths SwathSplit makes of its lines,    *)
(* cluster them, give every aircraft a                                      *)
(* cluster, route it, measure the route again along its waypoints, validate *)
(* all of it, keep what is valid, and stop when the angles bring nothing    *)
(* more.  geo_mission.run_angle_pipeline is the same loop with no patience. *)
(***************************************************************************)
EXTENDS SwathSplit, Integers, FiniteSets, Sequences

CONSTANTS
  Uavs,          \* a sequence
  LinesAt,       \* per angle tried, in order, the lines generated, in order
  FlightTimes,   \* what a flight may take, never nothing
  RisksFound,    \* what may be wrong along the waypoints of a flight
  FlightLimit,   \* endurance without the reserve
  AttemptsMax, Patiences

ASSUME AngleAssumption ==
  /\ LinesAt \in Seq(Seq(DOMAIN Heights))
  /\ FlightTimes \subseteq Nat \ {0} /\ FlightLimit \in Nat
  /\ RisksFound \subseteq SUBSET {"low", "close", "crossing"}
  /\ AttemptsMax \in Nat \ {0} /\ Patiences \subseteq Nat

VARIABLES
  criterion,    \* min_time or min_flight_hours
  patience,     \* angles_early_stop_patience, 0 to try all
  step,         \* where run_mission is
  angle,        \* index of the angle tried
  attempt,      \* of attempts_max
  cluster,      \* swath -> aircraft
  uav,          \* index of the aircraft routed next
  flights,      \* aircraft -> [swaths, planned, time, risks], when it flies
  candidates,   \* what was valid, in order
  patienceLeft,
  bestMetric,   \* 0 before there is one
  chosen        \* index of the candidate reported, 0 for none

roundVars == <<cluster, uav, flights>>
angleVars == <<criterion, patience, step, angle, attempt, roundVars, candidates,
               patienceLeft, bestMetric, chosen>>

-----------------------------------------------------------------------------
(* _generate_all_swaths, for one area *)
SwathsAt == [i \in DOMAIN LinesAt |-> SwathsOf(LinesAt[i])]

Mine(u) == { s \in DOMAIN cluster : cluster[s] = u }

NoFlights == [ u \in {} |-> 0 ]

AngleInit ==
  /\ criterion \in {"min_time", "min_flight_hours"}
  /\ patience \in Patiences /\ patienceLeft = patience
  /\ step = "angle" /\ angle = 1 /\ attempt = 1
  /\ cluster = <<>> /\ uav = 1 /\ flights = NoFlights
  /\ candidates = <<>> /\ bestMetric = 0 /\ chosen = 0

(* cluster_swaths: a label for every swath, at most as many as aircraft. *)
Labellings == [SwathsAt[angle] -> DOMAIN Uavs]

(* assign_clusters_to_uavs: no two clusters go to one aircraft.  Every aircraft
   has a pad that is known; the cluster of one that had none would be dropped,
   and the candidate refused for its swaths. *)
Assignments ==
  { a \in [DOMAIN Uavs -> DOMAIN Uavs] : \A i, j \in DOMAIN Uavs : a[i] = a[j] => i = j }

(* _generate_all_swaths and the head of run_one_angle; both choices are the same
   at every attempt. *)
StartAngle ==
  /\ step = "angle" /\ angle \in DOMAIN SwathsAt
  /\ IF SwathsAt[angle] = {}
       THEN step' = "failed" /\ UNCHANGED cluster
       ELSE step' = "route"
            /\ \E label \in Labellings, a \in Assignments :
                 cluster' = [ s \in SwathsAt[angle] |-> Uavs[a[label[s]]] ]
  /\ attempt' = 1 /\ uav' = 1 /\ flights' = NoFlights
  /\ UNCHANGED <<criterion, patience, angle, candidates, patienceLeft, bestMetric, chosen>>

(* solve_routing_for_uav: a round over all it is given, within the endurance, or
   nothing in its time. *)
Rounds(u) ==
  { [swaths |-> Mine(u), planned |-> t, time |-> t, risks |-> {}] :
      t \in { x \in FlightTimes : Mine(u) # {} /\ x <= FlightLimit } }

(* solve_multi_flight: the first round leaves nothing for another of the R_max. *)
RouteUav ==
  /\ step = "route" /\ uav \in DOMAIN Uavs
  /\ uav' = uav + 1
  /\ LET u == Uavs[uav]
     IN \/ UNCHANGED flights
        \/ \E f \in Rounds(u) :
             flights' = [ v \in DOMAIN flights \cup {u} |-> IF v = u THEN f ELSE flights[v] ]
  /\ UNCHANGED <<criterion, patience, step, angle, attempt, cluster, candidates,
                 patienceLeft, bestMetric, chosen>>

(* recalc_route_metrics: times along the waypoints, which the detours, the terrain
   corridor and the smoothing moved; and where that has brought them. *)
Measurements == [DOMAIN flights -> [time : FlightTimes, risks : RisksFound]]

(* The tail of run_one_angle and recalc_all_routes. *)
Recalculate ==
  /\ step = "route" /\ uav \notin DOMAIN Uavs
  /\ IF flights = NoFlights THEN step' = "failed" /\ UNCHANGED flights
     ELSE /\ step' = "validate"
          /\ \E measured \in Measurements :
               flights' = [ u \in DOMAIN flights |->
                              [flights[u] EXCEPT !.time = measured[u].time, !.risks = measured[u].risks] ]
  /\ UNCHANGED <<criterion, patience, angle, attempt, cluster, uav, candidates,
                 patienceLeft, bestMetric, chosen>>

(* check_coverage. *)
Uncovered == SwathsAt[angle] \ UNION { flights[u].swaths : u \in DOMAIN flights }

(* Mutant: the times the router planned with. *)
Overdue_Planned == { u \in DOMAIN flights : flights[u].planned > FlightLimit }

(* check_time_energy. *)
Overdue == { u \in DOMAIN flights : flights[u].time > FlightLimit }

(* check_terrain_feasibility. *)
Infeasible ==
  { u \in DOMAIN flights : \E s \in flights[u].swaths : ~Feasible(LinesAt[angle], s) }

(* check_terrain_safety and check_route_terrain_safety: a swath or a waypoint less than
   the margin above the ground. *)
TooLow == { u \in DOMAIN flights : "low" \in flights[u].risks }

(* check_obstacle_clearance: a point less than the margin above the first of the
   obstacles it is over. *)
TooClose == { u \in DOMAIN flights : "close" \in flights[u].risks }

(* check_obstacles: a swath that meets an obstacle. *)
Crossing == { u \in DOMAIN flights : "crossing" \in flights[u].risks }

(* _build_candidate, with one flight for each aircraft; its time stands for the
   total and for the time in the air, a constant of the aircraft apart. *)
Metric(f) ==
  LET total[S \in SUBSET DOMAIN f] ==
        IF S = {} THEN 0
        ELSE LET u == CHOOSE x \in S : TRUE IN f[u].time + total[S \ {u}]
  IN IF criterion = "min_time"
       THEN CHOOSE t \in { f[u].time : u \in DOMAIN f } : \A u \in DOMAIN f : f[u].time <= t
       ELSE total[DOMAIN f]

(* A check the checker skips, for a margin of zero or without heights, is one
   that finds nothing. *)
IsValid ==
  /\ Uncovered = {} /\ Overdue = {} /\ Infeasible = {}
  /\ TooLow = {} /\ TooClose = {} /\ Crossing = {}

(* validate.  Energy may refuse as well; mass does not, as run_one_angle names no
   greatest one. *)
Validate ==
  /\ step = "validate"
  /\ \/ step' = "failed" /\ UNCHANGED candidates
     \/ /\ IsValid
        /\ step' = "kept"
        /\ candidates' = Append(candidates,
             [angle |-> angle, flights |-> flights, metric |-> Metric(flights)])
  /\ UNCHANGED <<criterion, patience, angle, attempt, roundVars, patienceLeft, bestMetric, chosen>>

(* The router is bounded by wall time: an attempt may end otherwise. *)
Retry ==
  /\ step = "failed" /\ attempt < AttemptsMax
  /\ attempt' = attempt + 1
  /\ step' = (IF SwathsAt[angle] = {} THEN "failed" ELSE "route")
  /\ uav' = 1 /\ flights' = NoFlights
  /\ UNCHANGED <<criterion, patience, angle, cluster, candidates, patienceLeft, bestMetric, chosen>>

Improves ==
  /\ step = "kept"
  /\ bestMetric = 0 \/ candidates[Len(candidates)].metric < bestMetric

(* An angle that failed before there was a candidate costs no patience. *)
Disappoints == ~Improves /\ bestMetric # 0

(* Mutant: patience is not given back. *)
Refilled_Never == patienceLeft

Refilled == patience

(* The end of an angle. *)
EndAngle ==
  /\ step = "kept" \/ (step = "failed" /\ attempt = AttemptsMax)
  /\ bestMetric' = IF Improves /\ patience > 0 THEN candidates[Len(candidates)].metric ELSE bestMetric
  /\ patienceLeft' = IF patience = 0 THEN patienceLeft
                     ELSE IF Improves THEN Refilled
                     ELSE IF Disappoints THEN patienceLeft - 1
                     ELSE patienceLeft
  /\ IF patience > 0 /\ Disappoints /\ patienceLeft' <= 0
       THEN step' = "choose" /\ UNCHANGED angle
       ELSE /\ angle' = angle + 1
            /\ step' = IF angle' \in DOMAIN SwathsAt THEN "angle" ELSE "choose"
  /\ UNCHANGED <<criterion, patience, attempt, roundVars, candidates, chosen>>

(* select_best: min keeps the first; without a candidate the run raises. *)
Choose ==
  /\ step = "choose"
  /\ step' = IF candidates = <<>> THEN "raised" ELSE "reported"
  /\ chosen' = IF candidates = <<>> THEN 0
               ELSE CHOOSE k \in DOMAIN candidates : \A j \in DOMAIN candidates :
                      \/ candidates[k].metric < candidates[j].metric
                      \/ candidates[k].metric = candidates[j].metric /\ k <= j
  /\ UNCHANGED <<criterion, patience, angle, attempt, roundVars, candidates, patienceLeft, bestMetric>>

AngleNext ==
  StartAngle \/ RouteUav \/ Recalculate \/ Validate \/ Retry \/ EndAngle \/ Choose

AngleSpec == AngleInit /\ [][AngleNext]_angleVars

-----------------------------------------------------------------------------
(* Whatever was split off, joined and clustered, a kept candidate photographs every
   leg of every line of its angle that survey speed allows in exactly one flight
   (a steeper one it may leave out); it flies none that no speed allows; and as
   measured along its waypoints, after their last change, each flight ends within
   the endurance and clear of ground and obstacles. *)
CandidateIsValid ==
  \A n \in DOMAIN candidates :
    LET c == candidates[n]
        lines == LinesAt[c.angle]
    IN /\ \A k \in DOMAIN lines : \A i \in GentleLegs(Profile(lines, k)) :
            Cardinality({ u \in DOMAIN c.flights :
                            \E s \in c.flights[u].swaths : Photographs(s, k, i) }) = 1
       /\ \A u \in DOMAIN c.flights :
            /\ \A s \in c.flights[u].swaths : Feasible(lines, s)
            /\ c.flights[u].time <= FlightLimit /\ c.flights[u].risks = {}

(* What is reported is the best of what was kept; and angles are left untried
   only after as many in a row as the patience that did no better than the best
   one before them. *)
BestIsReported ==
  step = "reported" =>
    /\ \A k \in DOMAIN candidates : candidates[chosen].metric <= candidates[k].metric
    /\ angle \in DOMAIN SwathsAt => angle - candidates[chosen].angle >= patience /\ patience > 0

=============================================================================
