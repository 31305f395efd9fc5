------------------------------- MODULE MCLanes -------------------------------
(***************************************************************************)
(* Four components that never meet, in one run: a behaviour is one of the   *)
(* form, of OuterEnumeration, AngleSearch or RouteLinks, and the variables  *)
(* of the others stay as they are.  The form has three lanes, each with one *)
(* part of it free: the files with two short surveys, the boards with one   *)
(* survey, and every text of the survey with one pick.                      *)
(***************************************************************************)
EXTENDS OuterEnumeration, AngleSearch, ScenarioForm, RouteLinks

VARIABLE lane

MCModels == {"gemini", "m201", "new"}
MCCameras == {"rgb", "thermal", "blank"}
MCEdges == MCModels \X MCCameras \ {<<"m201", "thermal">>}
MCLens == [ c \in MCCameras |-> [spacing |-> 1, agl |-> 1] ]
MCSpectra == [ c \in MCCameras |-> IF c = "thermal" THEN {"IR"} ELSE {"RGB"} ]
MCModelMarks ==
  [ m \in MCModels |->
      CASE m = "gemini" -> [speed |-> "passport", coeffs |-> "estimate", const |-> "blank", turn |-> "estimate"]
        [] m = "m201"   -> [speed |-> "estimate", coeffs |-> "blank", const |-> "passport", turn |-> "blank"]
        [] m = "new"    -> [speed |-> "passport", coeffs |-> "passport", const |-> "blank", turn |-> "untagged"] ]
MCCameraMarks ==
  [ c \in MCCameras |->
      [optics |-> IF c = "blank" THEN "blank" ELSE "passport", pitch |-> "estimate"] ]
MCResults == {[ok |-> TRUE, time |-> 0], [ok |-> TRUE, time |-> 1], [ok |-> TRUE, time |-> 2], [ok |-> FALSE, time |-> 0]}

Job(cards, limit, end) ==
  [whole |-> TRUE, pads |-> <<"p">>, spectrum |-> "RGB", limit |-> limit, deadline |-> end,
   cards |-> [ i \in DOMAIN cards |->
     [id |-> i, model |-> cards[i][1], camera |-> cards[i][2], pad |-> "p", count |-> 1, valid |-> TRUE] ]]

Three == <<<<"gemini", "rgb">>, <<"m201", "rgb">>, <<"gemini", "rgb">>>>
Mixed == <<<<"m201", "rgb">>, <<"gemini", "blank">>, <<"gemini", "thermal">>, <<"gemini", "rgb">>>>

MCScenarios ==
  { Job(Three, l, e) : l \in 0 .. 2, e \in {1, 5, 9} }
  \cup { Job(Mixed, 2, 6), Job(<<>>, 1, 4), Job(<<<<"new", "rgb">>, <<"gemini", "rgb">>>>, 1, 4),
         Job(<<<<"gemini", "thermal">>>>, 1, 4), Job(<<<<"gemini", "blank">>, <<"gemini", "thermal">>>>, 1, 4),
         Job(<<<<"m201", "thermal">>>>, 1, 4), Job(<<<<"other", "rgb">>>>, 1, 4),
         [Job(Mixed, 1, 6) EXCEPT !.whole = FALSE], [Job(Mixed, 1, 6) EXCEPT !.pads = <<>>],
         [Job(Mixed, 1, 6) EXCEPT !.cards[1].valid = FALSE], [Job(Mixed, 1, 6) EXCEPT !.cards[2].id = 1],
         Job(Three \o Three, 1, 9) }

MCUavs == <<"u1", "u2">>
(* A climb that survey speed allows is 1, one that the aircraft can fly is 2; it
   descends twice as fast. *)
MCHeights ==
  [ l \in {"step", "peak", "cliff", "end"} |->
      CASE l = "step" -> <<0, 1, 1, 3, 3>> [] l = "peak" -> <<0, 0, 2, 4, 2>>
        [] l = "cliff" -> <<0, 4>> [] l = "end" -> <<3, 1, 1, 3>> ]
MCLinesAt == <<<<"peak">>, <<>>, <<"end", "step">>, <<"cliff">>>>

-----------------------------------------------------------------------------
Plain(tag, in) ==
  [tag |-> tag, in |-> in, text |-> <<>>, key |-> NoText, lead |-> NoText, whole |-> NoText]
Text(in, text) == [Plain("coordinates", in) EXCEPT !.text = text]
Datum(tag, in, key, lead, whole) ==
  [Plain(tag, in) EXCEPT !.key = key, !.lead = lead, !.whole = whole]

Token(number, float, at) == [number |-> number, float |-> float, at |-> at]
Pair(at) == Token(TRUE, "within", at)
Square == <<Pair("a"), Pair("b"), Pair("b"), Pair("a")>>

(* Two pairs, and one token of each other kind: "0x1,2", "200,2", "1_0,2",
   "nan,2" and a word. *)
MCTokens ==
  {Pair("a"), Pair("b"), Token(TRUE, "none", "a"), Token(TRUE, "outside", "a"),
   Token(FALSE, "within", "a"), Token(FALSE, "outside", "a"), Token(FALSE, "none", "a")}

(* The shapes of a document, all with one free text. *)
Shaped(shape, text) ==
  CASE shape = "plain" ->
         <<Plain("Placemark", 0), Plain("Polygon", 1), Plain("outer", 2), Text(3, text)>>
    [] shape = "inner first" ->
         <<Plain("Placemark", 0), Plain("Polygon", 1), Plain("inner", 2), Text(3, Square),
           Plain("outer", 2), Text(5, text), Plain("outer", 2), Text(7, Square),
           Datum("Data", 1, "TYPE", NoText, "x"), Datum("SimpleData", 1, "type", "y", "y")>>
    [] shape = "group" ->
         <<Plain("Placemark", 0), Datum("SimpleData", 1, "Type", "x", "x"),
           Datum("Data", 1, "Type", "y", "y"), Datum("Data", 1, "Type", "z", "z z"),
           Plain("group", 1), Plain("Polygon", 5), Plain("outer", 6), Text(7, text),
           Plain("Polygon", 5), Plain("outer", 9), Text(10, Square)>>
    [] shape = "nested" ->
         <<Plain("Placemark", 0), Datum("Data", 1, "type", "x", "x"), Plain("group", 1), Plain("Placemark", 3),
           Datum("SimpleData", 4, "Type", "y", "y"), Datum("Data", 4, "TYPE", "z", "z"),
           Plain("Polygon", 4), Plain("outer", 7), Text(8, text),
           Plain("Polygon", 1), Plain("outer", 10), Text(11, Square)>>
    [] shape = "stray" ->
         <<Plain("Polygon", 0), Plain("outer", 1), Text(2, text), Plain("Placemark", 0),
           Plain("Polygon", 4), Text(5, Square), Plain("Polygon", 4), Plain("outer", 7)>>

Texts(lengths) == UNION { [1 .. n -> MCTokens] : n \in lengths }
Longer == { <<Pair("a")>> \o text : text \in Texts({3}) }
MCFiles ==
  [ f \in ({"plain"} \X (Texts({0, 2, 3}) \cup Longer)) \cup {<<"broken", <<>>>>}
          \cup ({"inner first", "group", "nested", "stray"} \X Texts({0, 3})) |->
      IF f[1] = "broken" THEN Broken ELSE Shaped(f[1], f[2]) ]
FewFiles == {<<"plain", Square>>, <<"stray", <<>>>>, <<"broken", <<>>>>}
Fleet1 == <<[model |-> "gemini", camera |-> "rgb", pad |-> 1, count |-> 1]>>
Survey == [n |-> 1, category |-> "survey_task", file |-> <<"plain", Square>>]

-----------------------------------------------------------------------------
(* Parts of constraints as rectangles <<left, right, bottom, top>> on a grid: A
   and B overlap, so that the way around the one leads through the other, D has
   a pad in it, and S is too small for a hole. *)
MCSpots == (0 .. 10) \X (0 .. 7)
Sides == [ z \in {"A", "B", "D", "S"} |-> CASE z = "A" -> <<2, 4, 1, 4>> [] z = "B" -> <<4, 7, 2, 6>>
                                         [] z = "D" -> <<7, 9, 1, 3>> [] z = "S" -> <<8, 9, 5, 6>> ]
MCArea == [ z \in DOMAIN Sides |-> CASE z = "A" -> 6 [] z = "B" -> 12 [] z = "D" -> 4 [] z = "S" -> 1 ]

(* On which side of the line from p to q the point <<x, y>> is. *)
SideOf(p, q, x, y) == (q[1] - p[1]) * (y - p[2]) - (q[2] - p[2]) * (x - p[1])

RunsThrough(p, q, r) ==
  LET sides == { SideOf(p, q, x, y) : x \in {r[1], r[2]}, y \in {r[3], r[4]} }
  IN /\ ~(p[1] <= r[1] /\ q[1] <= r[1]) /\ ~(p[1] >= r[2] /\ q[1] >= r[2])
     /\ ~(p[2] <= r[3] /\ q[2] <= r[3]) /\ ~(p[2] >= r[4] /\ q[2] >= r[4])
     /\ (\E s \in sides : s > 0) /\ (\E s \in sides : s < 0)

MCCrosses == [ z \in DOMAIN Sides |-> { {x[1], x[2]} : x \in { y \in MCSpots \X MCSpots : RunsThrough(y[1], y[2], Sides[z]) } } ]
MCOutline ==
  [ z \in DOMAIN Sides |-> LET r == Sides[z] IN
      <<<<r[1] - 1, r[3] - 1>>, <<r[2] + 1, r[3] - 1>>, <<r[2] + 1, r[4] + 1>>, <<r[1] - 1, r[4] + 1>>>> ]
Gap(m, n) == IF m < n THEN n - m ELSE m - n
MCMetres ==
  [ s \in { {p, q} : p, q \in MCSpots } |->
      LET p == CHOOSE p \in s : TRUE
          q == IF s = {p} THEN p ELSE CHOOSE q \in s : q # p
      IN Gap(p[1], q[1]) + Gap(p[2], q[2]) ]

(* Higher towards the right, unknown in one corner. *)
MCTerrain == [ p \in MCSpots |-> IF p = <<9, 7>> THEN NoHeight ELSE 2 * p[1] ]

MCSorties ==
  [constraints : {<<>>, <<{"D"}, {"S"}>>, <<{"A", "D"}>>, <<{"A"}, {"B"}>>, <<{"B"}, {"S"}, {"A"}>>,
                  <<{"A"}, {"B", "S"}, {"D"}>>},
   takeoff : {<<0, 3>>, <<8, 2>>}, landing : {<<0, 3>>, <<9, 4>>},
   swaths : {<<>>, <<[start |-> <<1, 0>>, end |-> <<1, 6>>], [start |-> <<8, 6>>, end |-> <<8, 5>>]>>,
             <<[start |-> <<5, 1>>, end |-> <<9, 7>>]>>}]

-----------------------------------------------------------------------------
LinksOff ==
  /\ sortie = [constraints |-> <<>>, takeoff |-> <<0, 0>>, landing |-> <<0, 0>>, swaths |-> <<>>]
  /\ holes = <<>> /\ building = "off" /\ link = 0 /\ pass = 0 /\ path = <<>> /\ target = 0
  /\ expanded = <<>> /\ changed = FALSE /\ samples = <<>> /\ waypoints = <<>>
  /\ stubborn = {} /\ entangled = {}

FormOff == FormInit(NoFile, <<EmptyBoard>>)

AngleOff ==
  /\ criterion = "none" /\ patience = 0 /\ step = "off" /\ angle = 0 /\ attempt = 0
  /\ cluster = <<>> /\ uav = 0 /\ flights = NoFlights /\ candidates = <<>>
  /\ patienceLeft = 0 /\ bestMetric = 0 /\ chosen = 0

OuterOff ==
  /\ scenario = Job(<<>>, 1, 1) /\ phase = "off" /\ card = 0 /\ runnable = <<>> /\ skips = {}
  /\ mismatches = {} /\ notes = {} /\ clock = 0 /\ attempts = <<>> /\ stopped = FALSE
  /\ reason = "none" /\ compared = 0 /\ best = 0

Init ==
  \/ lane = "outer" /\ OuterInit /\ AngleOff /\ FormOff /\ LinksOff
  \/ lane = "angles" /\ AngleInit /\ OuterOff /\ FormOff /\ LinksOff
  \/ lane = "links" /\ LinksInit /\ OuterOff /\ AngleOff /\ FormOff
  \/ lane \in {"files", "texts"} /\ FormInit(NoFile, Fleet1) /\ OuterOff /\ AngleOff /\ LinksOff
  \/ lane = "boards" /\ FormInit(Survey, <<EmptyBoard>>) /\ OuterOff /\ AngleOff /\ LinksOff

(* Once sent, a scenario is what is looked at. *)
LaneNext ==
  /\ sent = <<>>
  /\ \/ lane = "files" /\ FileStep(FewFiles)
     \/ lane = "texts" /\ FileStep(DOMAIN Files) /\ picks' <= 1
     \/ lane = "boards" /\ FleetStep
     \/ Submit

Next ==
  \/ lane = "outer" /\ OuterNext /\ UNCHANGED <<lane, angleVars, formVars, linkVars>>
  \/ lane = "angles" /\ AngleNext /\ UNCHANGED <<lane, outerVars, formVars, linkVars>>
  \/ lane = "links" /\ LinksNext /\ UNCHANGED <<lane, outerVars, angleVars, formVars>>
  \/ LaneNext /\ UNCHANGED <<lane, outerVars, angleVars, linkVars>>

Spec == Init /\ [][Next]_<<lane, outerVars, angleVars, formVars, linkVars>>

=============================================================================
