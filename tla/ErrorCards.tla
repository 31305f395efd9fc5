----------------------------- MODULE ErrorCards -----------------------------
(***************************************************************************)
(* Which error code the API attaches to a stored answer, and which card the *)
(* browser shows for it.  backend/error_codes.py looks for signs in the     *)
(* texts of the answer, in an order of its own; errorCards.ts does the same *)
(* once more for an answer that came without a code.  A sign is one kind of *)
(* text the patterns of both files recognise.                               *)
(***************************************************************************)
EXTENDS Naturals, Sequences

(* The kinds of text, as the patterns name them; "energy" is a field of the
   payload and "error" and "timeout" are the outcome itself. *)
Texts == {"incompatible", "camera", "uav", "noAerodromes", "aerodrome", "boards",
          "endurance", "wind", "uncovered", "noRecharge", "noSwaths", "clearance",
          "budget", "energy"}

(* What is asked first, and the code it gives. *)
Precedence == <<
  <<"incompatible", "ERROR_CAMERA_UAV_INCOMPATIBLE">>,
  <<"camera",       "ERROR_CAMERA_NOT_IN_CATALOG">>,
  <<"uav",          "ERROR_UAV_NOT_IN_CATALOG">>,
  <<"noAerodromes", "ERROR_MISSING_AERODROMES">>,
  <<"aerodrome",    "ERROR_UNKNOWN_AERODROME">>,
  <<"boards",       "ERROR_NO_BOARDS">>,
  <<"endurance",    "ERROR_MODEL_NO_ENDURANCE_OR_SPEED">>,
  <<"wind",         "INFEASIBLE_WIND_EXCEEDS_FLEET">>,
  <<"oneSortie",    "INFEASIBLE_ENDURANCE_NO_RECHARGE">>,
  <<"noSwaths",     "INFEASIBLE_NO_SWATHS">>,
  <<"clearance",    "INFEASIBLE_TERRAIN_CLEARANCE">>,
  <<"budget",       "TIMED_OUT_BUDGET">>,
  <<"energy",       "OFFLINE_ENERGY_UNCOVERED">>,
  <<"error",        "ERROR_WORKER_EXCEPTION">> >>

FirstCode(holds) ==
  LET hits == { k \in DOMAIN Precedence : Precedence[k][1] \in holds }
  IN IF hits = {} THEN "none"
     ELSE Precedence[CHOOSE k \in hits : \A j \in hits : k <= j][2]

Refusals == {"none", "infeasible"}

(* What the outcome adds to the texts, on either side. *)
OfOutcome(outcome, texts) ==
  { s \in {"oneSortie"} : outcome \in Refusals /\ {"uncovered", "noRecharge"} \subseteq texts }
  \cup { s \in {"budget"} : outcome = "timed_out" }
  \cup { s \in {"error"} : outcome = "error" }

(* _match_code: only the wind and the single sortie ask for a refusal. *)
ApiCode(outcome, texts) ==
  FirstCode(OfOutcome(outcome, texts)
            \cup { s \in texts : s = "wind" => outcome \in Refusals })

(* inferErrorCode: a code that came with the answer is taken; otherwise the
   texts are read again, without the energy field and whatever the outcome of
   a wind text. *)
CardCode(outcome, texts, code) ==
  IF code # "none" THEN code
  ELSE FirstCode(OfOutcome(outcome, texts) \cup (texts \ {"energy"}))

=============================================================================
