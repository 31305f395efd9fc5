------------------------------ MODULE WindFilter ------------------------------
(***************************************************************************)
(* wind_filter.py: whether a job is refused before the engine, because its  *)
(* wind is above the limit of every aircraft whose limit is known.          *)
(***************************************************************************)
EXTENDS Integers

CONSTANTS
  WindLimits,  \* model of the catalog -> max_wind_m_s
  Blank        \* of a number that is missing, no number, or not one to be used

ASSUME WindLimitsAssumption ==
  \A m \in DOMAIN WindLimits : WindLimits[m] # Blank => WindLimits[m] \in Int

(* marked_positive_number: a limit of 0 or less is unknown. *)
LimitKnown(model) ==
  /\ model \in DOMAIN WindLimits
  /\ WindLimits[model] # Blank /\ WindLimits[model] > 0

(* scenario_wind_mps: the first of the three keys that has a usable number. *)
WindOf(scenario) ==
  LET Usable(k) == scenario.wind[k] # Blank /\ scenario.wind[k] >= 0
  IN IF \A k \in DOMAIN scenario.wind : ~Usable(k) THEN Blank
     ELSE scenario.wind[CHOOSE k \in DOMAIN scenario.wind :
                          Usable(k) /\ \A l \in DOMAIN scenario.wind : Usable(l) => k <= l]

(* evaluate_wind_against_fleet; fleet_max is the largest known limit. *)
WindRefused(scenario) ==
  LET known == { m \in scenario.models : LimitKnown(m) }
  IN /\ WindOf(scenario) # Blank /\ known # {}
     /\ \A m \in known : WindOf(scenario) > WindLimits[m]

=============================================================================
