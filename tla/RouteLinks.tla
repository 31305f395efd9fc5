----------------------------- MODULE RouteLinks -----------------------------
(***************************************************************************)
(* _route of the two Fields2Cover engines (fields2cover_engine_iso.py and   *)
(* runtime/fields2cover_engine.py): a packed sortie becomes waypoints.  The *)
(* swaths lie outside the constraints, because those were cut from the      *)
(* survey; the links between them are led around by _avoid, at most four    *)
(* passes over a link, each around the first constraint that is in the way. *)
(*                                                                          *)
(* A constraint is the set of the parts that make_valid finds in its ring:  *)
(* one, or several when the ring crosses itself.  Spots less than 0.05 m    *)
(* apart are one spot.  The legacy engine lands where it took off.          *)
(***************************************************************************)
EXTENDS Integers, Sequences, FiniteSets

CONSTANTS
  Sorties,    \* constraints in order, takeoff and landing pad, ends of the swaths in order
  Area,       \* part -> its area
  MinCell,    \* _MIN_CELL_AREA_M2
  Crosses,    \* part -> the pairs of spots whose link runs through it
  Outline,    \* part -> the corners of its outline two metres outside, in order
  Metres,     \* pair of spots -> length of the link
  Terrain,    \* spot -> height of the ground, or NoHeight
  NoHeight,
  Agl         \* h_agl_m of the board

Passes == 4

ASSUME LinksAssumption ==
  /\ \A s \in Sorties : /\ s.constraints \in Seq(SUBSET DOMAIN Area)
                        /\ s.swaths \in Seq([start : DOMAIN Terrain, end : DOMAIN Terrain])
                        /\ {s.takeoff, s.landing} \subseteq DOMAIN Terrain
  /\ \A p \in DOMAIN Terrain : Terrain[p] \in Int \cup {NoHeight}
  /\ \A z \in DOMAIN Area : /\ Area[z] \in Nat
                             /\ Outline[z] \in Seq(DOMAIN Terrain)
  /\ IsFiniteSet(DOMAIN Area) /\ NoHeight \notin Int /\ Agl \in Nat

VARIABLES
  sortie,     \* what is flown
  holes,      \* index of a constraint -> the part its links go around
  building,   \* "link", "heights", "done" or "raised"
  link,       \* the link being led, 1 .. number of swaths + 1
  pass,       \* of range(4)
  path,       \* the link so far
  target,     \* index of the point of the path looked at next
  expanded,   \* what this pass makes of it
  changed,    \* whether this pass went around something
  samples,    \* the route so far: pads, swath ends, and points of a bypass
  waypoints,  \* samples with their heights
  stubborn,   \* history: links that the last pass still changed
  entangled   \* history: links with a bypass that runs through a hole

linkVars == <<sortie, holes, building, link, pass, path, target, expanded, changed,
              samples, waypoints, stubborn, entangled>>

-----------------------------------------------------------------------------
(* _polygon_parts: the parts that are not too small. *)
PolygonParts(constraint) == { z \in constraint : Area[z] >= MinCell }

(* _clean_polygon: only the largest part of a ring that crosses itself. *)
Cleaned(constraint) ==
  CHOOSE z \in PolygonParts(constraint) : \A y \in PolygonParts(constraint) : Area[y] <= Area[z]

(* _obstacle_polygons *)
HolesOf(constraints) ==
  [i \in { j \in DOMAIN constraints : PolygonParts(constraints[j]) # {} } |-> Cleaned(constraints[i])]

(* _hits: more than half a metre of the link is inside. *)
Hits(p, q, z) == {p, q} \in Crosses[z]

Clear(p, q) == \A i \in DOMAIN holes : ~Hits(p, q, holes[i])

ClearPath(points) == \A i \in 1 .. Len(points) - 1 : Clear(points[i], points[i + 1])

(* Mutant: only the first hole is looked at. *)
InTheWay_First(p, q) == { i \in DOMAIN holes : i = 1 /\ Hits(p, q, holes[i]) }

InTheWay(p, q) == { i \in DOMAIN holes : Hits(p, q, holes[i]) }

FirstInTheWay(p, q) ==
  holes[CHOOSE i \in InTheWay(p, q) : \A j \in InTheWay(p, q) : i <= j]

(* Runs of corners of the outline, in its direction only, never all of them. *)
Chains(z) ==
  LET count == Len(Outline[z])
  IN { [i \in 1 .. n |-> Outline[z][((origin + i - 1) % count) + 1]] :
         origin \in 0 .. count - 1, n \in 1 .. count - 1 }

Joined(p, chain, q) == <<p>> \o Append(chain, q)

LengthOf(points) ==
  LET upTo[i \in 1 .. Len(points)] ==
        IF i = 1 THEN 0 ELSE upTo[i - 1] + Metres[{points[i - 1], points[i]}]
  IN upTo[Len(points)]

(* The ways around one hole that do not run through it. *)
WaysAround(p, q, z) ==
  { c \in Chains(z) : LET way == Joined(p, c, q)
                      IN \A i \in 1 .. Len(way) - 1 : ~Hits(way[i], way[i + 1], z) }

(* _detour: a shortest one, or no corner at all when there is none. *)
Detours(p, q, z) ==
  LET ways == WaysAround(p, q, z)
      Long(c) == LengthOf(Joined(p, c, q))
  IN IF ways = {} THEN {<<>>} ELSE { c \in ways : \A d \in ways : Long(c) <= Long(d) }

-----------------------------------------------------------------------------
Swaths == sortie.swaths

IsHome == link > Len(Swaths)

LinksInit ==
  /\ sortie \in Sorties /\ holes = HolesOf(sortie.constraints)
  /\ building = "link" /\ link = 1 /\ pass = 1 /\ target = 2
  /\ path = <<sortie.takeoff, IF Swaths = <<>> THEN sortie.landing ELSE Swaths[1].start>>
  /\ expanded = <<sortie.takeoff>> /\ changed = FALSE
  /\ samples = <<[kind |-> "pad", at |-> sortie.takeoff, link |-> 0]>>
  /\ waypoints = <<>> /\ stubborn = {} /\ entangled = {}

(* The leg the pass looks at. *)
Here == expanded[Len(expanded)]
There == path[target]

InPass == building = "link" /\ target \in DOMAIN path

GoStraight ==
  /\ InPass /\ InTheWay(Here, There) = {}
  /\ expanded' = Append(expanded, There)
  /\ target' = target + 1
  /\ UNCHANGED <<sortie, holes, building, link, pass, path, changed, samples, waypoints, stubborn, entangled>>

GoAround ==
  /\ InPass /\ InTheWay(Here, There) # {}
  /\ \E chain \in Detours(Here, There, FirstInTheWay(Here, There)) :
       /\ expanded' = expanded \o Append(chain, There)
       /\ entangled' = IF ClearPath(Joined(Here, chain, There)) THEN entangled
                       ELSE entangled \cup {link}
  /\ changed' = TRUE
  /\ target' = target + 1
  /\ UNCHANGED <<sortie, holes, building, link, pass, path, samples, waypoints, stubborn>>

PassDone == building = "link" /\ target \notin DOMAIN path

NextPass ==
  /\ PassDone /\ changed /\ pass < Passes
  /\ path' = expanded /\ expanded' = <<path[1]>> /\ target' = 2
  /\ pass' = pass + 1 /\ changed' = FALSE
  /\ UNCHANGED <<sortie, holes, building, link, samples, waypoints, stubborn, entangled>>

(* The link as it is now, ends included but for the first. *)
Led ==
  [i \in 1 .. Len(expanded) - 1 |->
     [kind |-> IF i < Len(expanded) - 1 THEN "link" ELSE IF IsHome THEN "pad" ELSE "start",
      at |-> expanded[i + 1], link |-> link]]

Flown == [kind |-> "end", at |-> Swaths[link].end, link |-> link]

(* _avoid returns, and the next link begins where the swath ends. *)
TakeLink ==
  /\ PassDone /\ (~changed \/ pass = Passes)
  /\ stubborn' = IF changed THEN stubborn \cup {link} ELSE stubborn
  /\ IF IsHome
       THEN /\ samples' = samples \o Led /\ building' = "heights"
            /\ UNCHANGED <<link, pass, path, target, expanded, changed>>
       ELSE /\ samples' = Append(samples \o Led, Flown)
            /\ link' = link + 1 /\ pass' = 1 /\ target' = 2 /\ changed' = FALSE
            /\ path' = <<Swaths[link].end,
                         IF link = Len(Swaths) THEN sortie.landing ELSE Swaths[link + 1].start>>
            /\ expanded' = <<Swaths[link].end>>
            /\ UNCHANGED building
  /\ UNCHANGED <<sortie, holes, waypoints, entangled>>

(* The terrain is read at pads and swath ends only; a point of a bypass has the
   height of the next of them. *)
Sampled(i) ==
  CHOOSE j \in i .. Len(samples) :
    samples[j].kind # "link" /\ \A m \in i .. j - 1 : samples[m].kind = "link"

HeightOf(s) == IF s.kind = "pad" THEN Terrain[s.at] ELSE Terrain[s.at] + Agl

(* _ground raises where the terrain has no height. *)
SetHeights ==
  /\ building = "heights"
  /\ IF \E i \in DOMAIN samples : samples[i].kind # "link" /\ Terrain[samples[i].at] = NoHeight
       THEN building' = "raised" /\ UNCHANGED waypoints
       ELSE /\ building' = "done"
            /\ waypoints' = [i \in DOMAIN samples |->
                 [at |-> samples[i].at, alt |-> HeightOf(samples[Sampled(i)])]]
  /\ UNCHANGED <<sortie, holes, link, pass, path, target, expanded, changed, samples, stubborn, entangled>>

LinksNext == GoStraight \/ GoAround \/ NextPass \/ TakeLink \/ SetHeights

LinksSpec == LinksInit /\ [][LinksNext]_linkVars

-----------------------------------------------------------------------------
(* Properties *)

(* A leg of a route that is not a swath runs through a constraint, as far as
   _clean_polygon has left it, only in a link that all four passes have changed,
   and that happens only where a shortest way around one constraint runs through
   another, or there is none; and the only waypoints that may lie below the
   ground are those of a bypass. *)
RouteGoesAround ==
  building = "done" =>
    /\ \A i \in 1 .. Len(samples) - 1 :
         samples[i].kind = "start" \/ samples[i + 1].link \in stubborn
           \/ Clear(waypoints[i].at, waypoints[i + 1].at)
    /\ stubborn \subseteq entangled
    /\ \A i \in DOMAIN waypoints :
         samples[i].kind = "link" \/ Terrain[waypoints[i].at] <= waypoints[i].alt

=============================================================================
