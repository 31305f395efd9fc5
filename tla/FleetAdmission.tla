--------------------------- MODULE FleetAdmission ---------------------------
(***************************************************************************)
(* Which board cards of a scenario become aircraft.  The catalog is read by *)
(* loops that do not agree: the bridge looks at the spectrum only           *)
(* (grisha_f2c_bridge.py), the isolated worker at everything else           *)
(* (_expand_boards), and the legacy envelope (geo_mission._mission) and the *)
(* outer enumeration (_prepare) at both.                                    *)
(***************************************************************************)
EXTENDS Integers, FiniteSets

CONSTANTS
  Models, Cameras,  \* ids of the catalog
  Edges,            \* its compatible pairs
  Stated,           \* models with a number for each figure, the reserve in range
  Flies,            \* of these, the models whose speed and endurance are positive
  Lens,             \* camera -> [spacing, agl], 0 where its optics are unusable
  Spectra,          \* camera -> the spectra it covers
  SurveyTypes,      \* spectra the legacy core has a survey type for
  Translated,       \* models and cameras the legacy core has a twin of
  AnySpectrum       \* what a scenario without a required spectrum has

ASSUME CatalogAssumption ==
  /\ Flies \subseteq Stated /\ Stated \subseteq Models
  /\ Lens \in [Cameras -> [spacing : Nat, agl : Nat]]
  /\ DOMAIN Spectra = Cameras

(* A card asks for count aircraft of one model, with one camera, at one pad. *)
CardIds(s) == DOMAIN s.cards

PadIds(s) == { s.pads[i] : i \in DOMAIN s.pads }

Known(card) == card.model \in Models /\ card.camera \in Cameras

Compatible(card) == <<card.model, card.camera>> \in Edges

(* optics: image sharpness and overlap give spacing and height, or nothing. *)
OpticsUsable(camera) == Lens[camera].spacing > 0 /\ Lens[camera].agl > 0

Fits(s, card) == card.camera \in Cameras /\ s.spectrum \in Spectra[card.camera]

(* Aircraft of the admitted cards, each with the lens of its camera. *)
Fleet(s, ids) ==
  LET boards == UNION { {i} \X (1 .. (IF s.cards[i].count > 0 THEN s.cards[i].count ELSE 1))
                        : i \in ids }
  IN [ b \in boards |-> Lens[s.cards[b[1]].camera] ]

-----------------------------------------------------------------------------
(* Mutant: the bridge minds only a job in which no camera fits. *)
Mismatched_All(s) ==
  IF s.spectrum = AnySpectrum \/ \E i \in CardIds(s) : Fits(s, s.cards[i])
    THEN {} ELSE CardIds(s)

(* spectrum_mismatch_limitations: a camera that is not in the catalog covers
   nothing, and without a required spectrum there is nothing to miss. *)
Mismatched(s) ==
  IF s.spectrum = AnySpectrum THEN {}
  ELSE { i \in CardIds(s) : ~Fits(s, s.cards[i]) }

-----------------------------------------------------------------------------
(* _compat_edges: a catalog without edges forbids nothing. *)
WorkerPairs(card) == Edges = {} \/ Compatible(card)

(* _board_speed_m_s, _board_endurance_s: a figure that is missing, or a reserve
   that is none, is complained of in other words than one that is not positive. *)
ModelFault(model) ==
  IF model \notin Stated THEN "figures"
  ELSE IF model \notin Flies THEN "endurance"
  ELSE "none"

(* What _expand_boards raises for a card, if anything; the spectrum is not
   looked at, and a count of 0 is one aircraft. *)
WorkerFault(s, card) ==
  IF card.model \notin Models THEN "uav"
  ELSE IF card.camera \notin Cameras THEN "camera"
  ELSE IF ~WorkerPairs(card) THEN "incompatible"
  ELSE IF card.pad \notin PadIds(s) THEN "aerodrome"
  ELSE IF ModelFault(card.model) # "none" THEN ModelFault(card.model)
  ELSE IF ~OpticsUsable(card.camera) THEN "optics"
  ELSE "none"

(* Of the faults of the cards, the one met first. *)
FirstFault(faults) ==
  LET wrong == { i \in DOMAIN faults : faults[i] # "none" }
  IN IF wrong = {} THEN "none" ELSE faults[CHOOSE i \in wrong : \A j \in wrong : i <= j]

(* ... and for the scenario. *)
WorkerComplaint(s) ==
  IF DOMAIN s.pads = {} THEN "noAerodromes"
  ELSE IF CardIds(s) = {} THEN "boards"
  ELSE FirstFault([ i \in CardIds(s) |-> WorkerFault(s, s.cards[i]) ])

-----------------------------------------------------------------------------
(* Cards that pass the spectrum; the others are noted and left out. *)
Admitted(s) == { i \in CardIds(s) : Fits(s, s.cards[i]) }

(* _boards, before any card is looked up. *)
EnvelopeCard(s, card) ==
  IF card.pad \notin PadIds(s) THEN "aerodrome"
  ELSE IF card.count < 1 THEN "count"
  ELSE "none"

(* The lookups of a card; only an admitted one needs a twin in the core. *)
EnvelopeFault(s, card) ==
  IF card.model \notin Models THEN "uav"
  ELSE IF card.camera \notin Cameras THEN "camera"
  ELSE IF ~Compatible(card) THEN "incompatible"
  ELSE IF Fits(s, card) /\ card.model \notin Translated THEN "uav"
  ELSE IF Fits(s, card) /\ card.camera \notin Translated THEN "camera"
  ELSE "none"

(* _mission before it builds anything: the first thing that makes it raise. *)
EnvelopeComplaint(s) ==
  LET forms == [ i \in CardIds(s) |-> EnvelopeCard(s, s.cards[i]) ]
  IN IF \E e \in Edges : e[1] \notin Models \/ e[2] \notin Cameras THEN "edge"
     ELSE IF s.spectrum \notin SurveyTypes THEN "spectrum"
     ELSE IF DOMAIN s.pads = {} \/ Cardinality(DOMAIN s.pads) > 4 THEN "noAerodromes"
     ELSE IF \E i, j \in DOMAIN s.pads : i # j /\ s.pads[i] = s.pads[j] THEN "twins"
     ELSE IF FirstFault(forms) # "none" THEN FirstFault(forms)
     ELSE FirstFault([ i \in CardIds(s) |-> EnvelopeFault(s, s.cards[i]) ])

(* _mission on the endurance and speed of the admitted; blank optics are let
   through and raise in plan(). *)
EnvelopeFigures(s) == FirstFault([ i \in Admitted(s) |-> ModelFault(s.cards[i].model) ])
EnvelopeFlies(s) == \A i \in Admitted(s) : s.cards[i].model \in Flies

=============================================================================
