------------------------------ MODULE KmlReading ------------------------------
(***************************************************************************)
(* The same KML text is read four times: by the form (kml.ts), before the   *)
(* terrain is fetched and by the envelope's mission (kml/constraints.py),   *)
(* by the worker, which has a copy of that file, and by kml_rings.py.  The  *)
(* text is a tree in document order; a coordinate token is known by what    *)
(* the readers make of it.                                                  *)
(***************************************************************************)
EXTENDS Integers, FiniteSets, Sequences

CONSTANTS
  Points,    \* longitude and latitude
  Spellings, \* the keys that are "Type" but for the case of their letters
  NoText     \* of a field that is not there

ASSUME SpellingsAssumption == "Type" \in Spellings

(* What is between two spaces of a coordinate text (of XML: space, tab, end of
   line), by what becomes of it: whether Number finds two finite numbers, as in
   "1,2" but also "1," and "0x1,2"; and what float finds, which are the same two
   if Number does: none, as in "1,"; a point within the degrees, also in "1_0,2";
   or numbers outside them, as in "200,2", and as "nan,2" and "1e999,2" are. *)
Tokens == [number : BOOLEAN, float : {"none", "within", "outside"}, at : Points]

(* A node: its tag, the node it is in (0 at the top), the text of coordinates,
   and of a field its key and its value: the whole of it, and what leads it up to
   the first element in it, which is all that Element.text is.  Without a <value>
   the two are one. *)
Elements == {"Placemark", "Polygon", "outer", "inner", "coordinates", "Data", "SimpleData", "group"}

Nodes(doc) == DOMAIN doc

(* As a parser leaves it: a node comes after the one it is in. *)
IsDocument(doc) ==
  /\ doc \in Seq({ doc[n] : n \in Nodes(doc) })
  /\ \A n \in Nodes(doc) : doc[n].in \in 0 .. n - 1 /\ doc[n].text \in Seq(Tokens)

Tagged(doc, tag) == { n \in Nodes(doc) : doc[n].tag = tag }

(* nearestAncestor: of a tag, 0 when there is none. *)
Nearest(doc, n, tag) ==
  LET above[k \in 0 .. Len(doc)] ==
        IF k = 0 THEN 0 ELSE IF doc[k].tag = tag THEN k ELSE above[doc[k].in]
  IN above[doc[n].in]

Within(doc, n, m) ==
  LET under[k \in 0 .. Len(doc)] == k = m \/ (k # 0 /\ under[doc[k].in])
  IN under[doc[n].in]

Earliest(S) == CHOOSE n \in S : \A k \in S : n <= k
Latest(S) == CHOOSE n \in S : \A k \in S : k <= n

-----------------------------------------------------------------------------
(* Mutant: any placemark a polygon is in, not the nearest. *)
Belongs_Anywhere(doc, p, m) == Within(doc, p, m)

(* A polygon is of the nearest placemark only. *)
Belongs(doc, p, m) == Nearest(doc, p, "Placemark") = m

(* The text of the first outer boundary, <<>> when there is none. *)
OuterText(doc, p) ==
  LET outers == { n \in Tagged(doc, "outer") : Nearest(doc, n, "Polygon") = p }
      texts == { n \in Tagged(doc, "coordinates") :
                   Nearest(doc, n, "Polygon") = p /\ Within(doc, n, Earliest(outers)) }
  IN IF outers = {} \/ texts = {} THEN <<>> ELSE doc[Earliest(texts)].text

(* The nodes of a placemark that give a key a value; only of Data with a <value>
   is it not the whole for all. *)
Carriers(doc, m, tag, part) ==
  { n \in Tagged(doc, tag) :
      Nearest(doc, n, "Placemark") = m /\ doc[n].key # NoText /\ doc[n][part] # NoText }

(* readExtendedData, _extended_data: of a key the last Data, else the first
   SimpleData. *)
Fields(doc, m, part) ==
  LET data == Carriers(doc, m, "Data", part)
      simple == Carriers(doc, m, "SimpleData", "whole")
      Of(S, key) == { n \in S : doc[n].key = key }
  IN [ key \in { doc[n].key : n \in data \cup simple } |->
         IF Of(data, key) # {} THEN doc[Latest(Of(data, key))][part]
         ELSE doc[Earliest(Of(simple, key))].whole ]

(* _extended_value of "Type": that key, else the first that differs in case only;
   the keys are in the order they came in, those of Data before the others. *)
TypeOf(doc, m) ==
  LET fields == Fields(doc, m, "lead")
      Spelled(nodes) == { n \in nodes : doc[n].key \in Spellings }
      data == Spelled(Carriers(doc, m, "Data", "lead"))
      simple == Spelled(Carriers(doc, m, "SimpleData", "whole"))
  IN IF "Type" \in DOMAIN fields THEN fields["Type"]
     ELSE IF data # {} THEN fields[doc[Earliest(data)].key]
     ELSE IF simple # {} THEN fields[doc[Earliest(simple)].key]
     ELSE NoText

(* The points of the tokens that a reader takes, in order. *)
Kept(text, taken) ==
  LET kept[k \in 0 .. Len(text)] ==
        IF k = 0 THEN <<>>
        ELSE IF text[k] \in taken THEN Append(kept[k - 1], text[k].at) ELSE kept[k - 1]
  IN kept[Len(text)]

(* Every polygon of every placemark with at least three points. *)
Rings(doc, taken, part) ==
  LET owned == { x \in Tagged(doc, "Polygon") \X Tagged(doc, "Placemark") : Belongs(doc, x[1], x[2]) }
      rings == { [polygon |-> x[1], placemark |-> x[2], data |-> Fields(doc, x[2], part),
                  points |-> Kept(OuterText(doc, x[1]), taken)] : x \in owned }
  IN { r \in rings : Len(r.points) >= 3 }

-----------------------------------------------------------------------------
(* Number of "", of a hexadecimal and of numbers outside the degrees is finite. *)
BrowserTokens == { t \in Tokens : t.number }

(* extractKmlPolygons. *)
BrowserReads(doc) == Rings(doc, BrowserTokens, "whole")

(* float raises for no number, and only for that. *)
RuntimeTokens == { t \in Tokens : t.float # "none" }

(* kml_rings.extract_polygons. *)
RuntimeReads(doc) == Rings(doc, RuntimeTokens, "lead")

(* A ring ends where it began. *)
Closed(points) ==
  IF points[1] = points[Len(points)] THEN points ELSE Append(points, points[1])

(* What the server plans over: rings, closed, with their type. *)
Areas(doc, rings) ==
  { [polygon |-> r.polygon, placemark |-> r.placemark, type |-> TypeOf(doc, r.placemark),
     points |-> Closed(r.points)] : r \in rings }

(* _coordinates raises at a pair outside the degrees, in any ring it looks at. *)
OutOfDegrees(doc) ==
  \E p \in Tagged(doc, "Polygon") :
    /\ Nearest(doc, p, "Placemark") # 0
    /\ \E k \in DOMAIN OuterText(doc, p) : OuterText(doc, p)[k].float = "outside"

(* The call raises: there is no area. *)
Refused == {}

IntegrationTokens == { t \in Tokens : t.float = "within" }

(* parse_survey_polygon; <<>> is the text of a file nobody gave. *)
IntegrationReads(doc) ==
  LET rings == Rings(doc, IntegrationTokens, "lead")
  IN IF OutOfDegrees(doc) \/ rings = {} THEN Refused ELSE Areas(doc, rings)

WorkerTokens == { t \in Tokens : t.float = "within" }

(* The worker's copy. *)
WorkerReads(doc) ==
  LET rings == Rings(doc, WorkerTokens, "lead")
  IN IF OutOfDegrees(doc) \/ rings = {} THEN Refused ELSE Areas(doc, rings)

=============================================================================
