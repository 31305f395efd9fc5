---------------------------- MODULE MCSolvePath ----------------------------
(***************************************************************************)
(* Three models, one that flies, one without endurance and one without      *)
(* figures, and four cameras: a narrow lens over three swaths, a wide       *)
(* one over two, and one so wide that the generator finds none.  The        *)
(* requests are one good job of three cards and four aircraft, and jobs     *)
(* that differ from it in one thing.                                        *)
(***************************************************************************)
EXTENDS SolvePath

MCModels == {"gemini", "m201", "new"}
MCCameras == {"narrow", "wide", "widest", "blank"}
MCEdges == {<<"gemini", "narrow">>, <<"gemini", "wide">>, <<"m201", "widest">>,
            <<"gemini", "blank">>, <<"gemini", "widest">>, <<"m201", "narrow">>, <<"new", "narrow">>}
MCStated == {"gemini", "m201"}
MCFlies == {"gemini"}
MCLens == [c \in MCCameras |->
  CASE c = "narrow" -> [spacing |-> 1, agl |-> 2]
    [] c = "wide"   -> [spacing |-> 2, agl |-> 1]
    [] c = "widest" -> [spacing |-> 3, agl |-> 2]
    [] c = "blank"  -> [spacing |-> 0, agl |-> 0]]
MCSpectra == [c \in MCCameras |-> IF c = "wide" THEN {"RGB", "thermal"} ELSE {"RGB"}]
MCTranslated == {"gemini", "m201", "new", "narrow", "wide", "blank"}
MCSwathCount == <<3, 2, 0>>
MCStepTimes == {0, 1}

Card(m, c, n) == [model |-> m, camera |-> c, pad |-> "p", count |-> n]
Narrow == Card("gemini", "narrow", 2)
Wide == Card("gemini", "wide", 0)

Good == [parses |-> TRUE, keys |-> {"aerodromes", "boards"}, limit |-> 1,
         cards |-> <<Narrow, Wide>>, pads |-> <<"p", "q">>, spectrum |-> "RGB",
         survey |-> "kml", points |-> {<<0, 0>>, <<1, 1>>}, area |-> TRUE,
         params |-> TRUE, margin |-> 1, strict |-> FALSE, recharge |-> FALSE]

Legacy == [Good EXCEPT !.cards = <<Narrow, Card("gemini", "wide", 1)>>]

Fleets == { <<c>> : c \in {Card("gemini", "widest", 1), Card("gemini", "blank", 1),
                           Card("m201", "narrow", 1), Card("m201", "widest", 1),
                           Card("other", "narrow", 1), Card("new", "narrow", 1), [Narrow EXCEPT !.pad = "r"]} }

MCRequests ==
  { [r EXCEPT !.limit = n] : r \in {Good, Legacy}, n \in -1 .. 2 }
  \cup { [Legacy EXCEPT !.spectrum = s] : s \in {"thermal", "IR", "any"} }
  \cup { [Good EXCEPT !.cards = c] : c \in Fleets \cup {<<>>, <<Card("gemini", "widest", 1), Wide>>} }
  \cup { [Legacy EXCEPT !.parses = FALSE], [Legacy EXCEPT !.keys = @ \cup {"pads"}],
         [Legacy EXCEPT !.survey = "areas"], [Legacy EXCEPT !.survey = "none"],
         [Legacy EXCEPT !.points = {<<0, 0>>, <<0, 1>>}], [Legacy EXCEPT !.params = FALSE],
         [Legacy EXCEPT !.pads = <<"p", "p">>], [Legacy EXCEPT !.pads = <<>>],
         [Legacy EXCEPT !.area = FALSE], [Legacy EXCEPT !.strict = TRUE],
         [Legacy EXCEPT !.recharge = TRUE],
         [Legacy EXCEPT !.limit = 2, !.cards = <<Card("gemini", "wide", 1), Card("gemini", "narrow", 1)>>] }

=============================================================================
