----------------------------- MODULE SolvePath -----------------------------
(***************************************************************************)
(* One request inside the solver process: the pipeline stages of            *)
(* runtime/pipeline.py, solver.solve, the two backends it chooses from      *)
(* (grisha_f2c_bridge.py with the isolated client and worker, or            *)
(* geo_mission.solve_envelope), the admission of the boards on the way      *)
(* (FleetAdmission), the engine they run (PlanEngine), and how every ending *)
(* is mapped to an outcome on the way back.                                 *)
(***************************************************************************)
EXTENDS FleetAdmission, PlanEngine, ErrorCards

CONSTANTS
  Requests,      \* what may come in
  ClientBuffer,  \* the 5 s the client waits longer than the worker plans
  DefaultLimit   \* the worker's own limit when it is given none (120 s)

ASSUME PathAssumption ==
  /\ \A r \in Requests :
       /\ {r.parses, r.area, r.params, r.strict, r.recharge} \subseteq BOOLEAN
       /\ r.limit \in Int /\ r.margin \in Nat
       /\ r.keys \subseteq {"aerodromes", "boards", "pads", "uav_types"}
       /\ r.survey \in {"kml", "areas", "none"}
       /\ DOMAIN r.cards \subseteq Nat /\ IsFiniteSet(DOMAIN r.cards)
       /\ \A i \in DOMAIN r.cards : r.cards[i].count \in Int
  /\ \A c \in Cameras : Lens[c].spacing > 0 => Lens[c].spacing \in DOMAIN SwathCount
  /\ {ClientBuffer, DefaultLimit} \subseteq Nat

VARIABLES
  request,
  stage,      \* of the solver process
  due,        \* the deadline pipeline.run computes
  remaining,  \* the seconds the bridge hands down
  killAt,     \* when the client stops the worker
  relief,     \* what the worker takes heights from
  answer      \* [outcome, why]

pathVars == <<request, stage, due, remaining, killAt, relief, answer>>
vars == <<now, engineVars, pathVars>>

None == [outcome |-> "none", why |-> "none"]

-----------------------------------------------------------------------------
(* parse_request: version, ids, the scenario an object, a whole seed. *)
Parses(r) == r.parses

(* _parse_optimization: a finite limit, 0 included. *)
LimitParses(r) == r.limit >= 0

(* is_outer_scenario, and what solve refuses before it looks. *)
IsEnvelope(r) == r.keys = {"aerodromes", "boards"}

(* interest_rectangle over the survey rings and all aerodromes: no padding, so
   points on one meridian or parallel have none. *)
HasRectangle(points) ==
  /\ \E p, q \in points : p[1] # q[1]
  /\ \E p, q \in points : p[2] # q[2]

(* _canonical_terrain_geometry. *)
TerrainGeometry(r) == r.survey # "none" /\ PadIds(r) # {} /\ HasRectangle(r.points)

(* The worker takes either form of the survey, solve_envelope the KML only. *)
WorkerSurvey(r) == r.survey # "none"
EnvelopeSurvey(r) == r.survey = "kml"

-----------------------------------------------------------------------------
Init ==
  /\ request \in Requests
  /\ now = 0 /\ deadline = 0 /\ fleet = Fleet(request, {}) /\ isolated \in BOOLEAN
  /\ EngineIdle
  /\ stage = "ingest" /\ due = 0 /\ remaining = 0 /\ killAt = 0
  /\ relief = "none" /\ answer = None

Answer(outcome, why) ==
  /\ stage' = "answered" /\ answer' = [outcome |-> outcome, why |-> why]

Planning == UNCHANGED <<isolated, group, board, cursor, sorties, uncovered, routed, verdict>>

(* ingest, bind, compile: an input error answers before the clock starts. *)
Ingest ==
  /\ stage = "ingest"
  /\ IF Parses(request) /\ LimitParses(request)
       THEN stage' = "solve" /\ due' = now + request.limit /\ UNCHANGED answer
       ELSE Answer("error", "input") /\ UNCHANGED due
  /\ UNCHANGED <<now, engineVars, request, remaining, killAt, relief>>

(* solver.solve: only the envelope is accepted; the backend is chosen by an
   environment variable. *)
Dispatch ==
  /\ stage = "solve"
  /\ IF IsEnvelope(request)
       THEN stage' = (IF isolated THEN "bridge" ELSE "envelope") /\ UNCHANGED answer
       ELSE Answer("error", "envelope")
  /\ UNCHANGED <<now, engineVars, request, due, remaining, killAt, relief>>

(* Mutant: what is left, even when nothing is. *)
Remaining_NoFloor == due - now

Remaining == IF due - now < 1 THEN 1 ELSE due - now

(* The bridge: the budget is read, a camera without the spectrum refuses the
   whole job before any download. *)
EnterBridge ==
  /\ stage = "bridge"
  /\ IF Mismatched(request) = {}
       THEN stage' = "terrain" /\ remaining' = Remaining /\ UNCHANGED answer
       ELSE Answer("infeasible", "spectrum") /\ UNCHANGED remaining
  /\ UNCHANGED <<now, engineVars, request, due, killAt, relief>>

(* ensure_dem_for_iso_scenario takes its time and may raise.  A raster named by
   the scenario itself is only validated, with the same two endings. *)
AcquireTerrain ==
  /\ stage = "terrain"
  /\ \E d \in StepTimes : now' = now + d
  /\ \/ TerrainGeometry(request) /\ stage' = "launch" /\ UNCHANGED answer
     \/ Answer("error", "terrain")
  /\ UNCHANGED <<engineVars, request, due, remaining, killAt, relief>>

(* client.solve: the worker file or the embed python may be missing. *)
LaunchWorker ==
  /\ stage = "launch"
  /\ \/ /\ stage' = "worker"
        /\ killAt' = now + remaining + ClientBuffer
        /\ UNCHANGED answer
     \/ Answer("error", "launch") /\ UNCHANGED killAt
  /\ UNCHANGED <<now, engineVars, request, due, remaining, relief>>

InTime == now' <= killAt

(* _load_mission_dem: a raster the worker cannot read is flat ground to it. *)
Reliefs == {"raster", "flat"}

(* solve_request up to plan(): the imports, then its deadline starts, then
   catalog, boards, survey, terrain. *)
StartWorker ==
  /\ stage = "worker"
  /\ \E d, e \in StepTimes :
       /\ now' = now + d + e
       /\ deadline' = now + d + (IF remaining = 0 THEN DefaultLimit ELSE remaining)
  /\ InTime
  /\ IF WorkerComplaint(request) = "none" /\ WorkerSurvey(request)
       THEN /\ stage' = "plan" /\ engine' = "begin" /\ fleet' = Fleet(request, CardIds(request))
            /\ relief' \in Reliefs
            /\ UNCHANGED answer
       ELSE Answer("error", "cards") /\ UNCHANGED <<engine, fleet, relief>>
  /\ Planning /\ UNCHANGED <<request, due, remaining, killAt>>

(* What solve_envelope answers without a plan; the clock is read twice. *)
EnvelopeAnswer ==
  LET built == EnvelopeFlies(request) /\ request.params
  IN IF now >= due THEN <<"timed_out", "due">>
     ELSE IF ~EnvelopeSurvey(request) \/ EnvelopeComplaint(request) # "none" THEN <<"error", "cards">>
     ELSE IF CardIds(request) = {} THEN <<"infeasible", "empty">>
     ELSE IF Admitted(request) = {} THEN <<"infeasible", "spectrum">>
     ELSE IF ~built THEN <<"error", "cards">>
     ELSE IF now' >= due THEN <<"timed_out", "due">>
     ELSE <<"none", "none">>

(* solve_envelope up to plan(): boards without the spectrum are left out. *)
EnterEnvelope ==
  /\ stage = "envelope"
  /\ \E d \in StepTimes : now' = now + d
  /\ IF EnvelopeAnswer = <<"none", "none">>
       THEN /\ stage' = "plan" /\ engine' = "begin" /\ deadline' = due
            /\ fleet' = Fleet(request, Admitted(request)) /\ relief' = "flat"
            /\ UNCHANGED answer
       ELSE /\ Answer(EnvelopeAnswer[1], EnvelopeAnswer[2])
            /\ UNCHANGED <<engine, fleet, deadline, relief>>
  /\ Planning /\ UNCHANGED <<request, due, remaining, killAt>>

(* One step of plan(), in the worker or in this process. *)
PlanStep ==
  /\ stage = "plan"
  /\ BeginPlan(request.area) \/ Plan
  /\ isolated => InTime
  /\ UNCHANGED pathVars

WorkerIsBusy == stage = "worker" \/ (stage = "plan" /\ isolated /\ Busy)

(* Mutant: subprocess.run without a timeout. *)
KillWorker_Never == FALSE /\ WorkerIsBusy /\ UNCHANGED vars

(* subprocess.run raises TimeoutExpired in the middle of a step; the pipeline
   maps the exception to an error. *)
KillWorker ==
  /\ WorkerIsBusy
  /\ engine = "hung" \/ \E d \in StepTimes : now + d > killAt
  /\ now' = killAt
  /\ Answer("error", "killed")
  /\ UNCHANGED <<engineVars, request, due, remaining, killAt, relief>>

(* The worker dies, or something else ends its stdout: no answer to parse. *)
WorkerDies ==
  /\ WorkerIsBusy
  /\ Answer("error", "died")
  /\ UNCHANGED <<now, engineVars, request, due, remaining, killAt, relief>>

(* _route: pads are on the ground, swaths at the height of the camera. *)
Heights == UNION { {0, fleet[s.board].agl} : s \in routed }

(* _clearance_violations over the waypoints of all routes; flat ground is not
   looked at. *)
Violations ==
  /\ request.margin > 0 /\ relief = "raster"
  /\ \E h \in Heights : h < request.margin

(* solve_request: what the worker prints for an ended plan(). *)
WorkerOutcome ==
  CASE verdict = "candidate" ->
         IF request.strict /\ Violations THEN <<"infeasible", "clearance">>
         ELSE <<"feasible", "plan">>
    [] verdict \in {"uncovered", "nothing"} -> <<"infeasible", verdict>>
    [] verdict = "budget" -> <<"timed_out", "budget">>
    [] verdict = "raised" -> <<"error", "raised">>

(* solve_envelope has no second look at the terrain, and its engine leaves
   nothing out. *)
EnvelopeOutcome ==
  CASE verdict = "candidate" -> <<"feasible", "plan">>
    [] verdict = "nothing" -> <<"infeasible", "nothing">>
    [] verdict = "budget" -> <<"timed_out", "budget">>
    [] verdict = "raised" -> <<"error", "raised">>

(* The bridge passes the outcome on: what it does not know is raised, as an
   error is, and the pipeline makes an error of it again. *)
Conclude ==
  LET outcome == IF isolated THEN WorkerOutcome ELSE EnvelopeOutcome
  IN /\ stage = "plan" /\ engine = "stopped"
     /\ Answer(outcome[1], outcome[2])
     /\ UNCHANGED <<now, engineVars, request, due, remaining, killAt, relief>>

(* What a refused scenario raised first, in the words of ErrorCards. *)
Complaint ==
  IF isolated THEN WorkerComplaint(request)
  ELSE IF ~EnvelopeSurvey(request) THEN "survey"
  ELSE IF EnvelopeComplaint(request) # "none" THEN EnvelopeComplaint(request)
  ELSE IF request.params THEN EnvelopeFigures(request)
  ELSE "params"

(* The texts of the answer; only a ValueError is quoted in it. *)
Says ==
  Texts \cap
    CASE answer.why = "cards" -> {Complaint}
      [] answer.why = "nothing" /\ isolated -> {"noSwaths"}
      [] answer.why = "uncovered" ->
           {"uncovered"} \cup (IF request.recharge THEN {} ELSE {"noRecharge"})
      [] answer.why \in {"clearance", "budget"} -> {answer.why}
      [] answer.why = "plan" /\ Violations -> {"clearance"}
      [] OTHER -> {}

(* What get_result names it. *)
Named == ApiCode(answer.outcome, Says)

(* What goes on by itself; a worker may die but need not. *)
Progress ==
  \/ Ingest \/ Dispatch \/ EnterBridge \/ AcquireTerrain \/ LaunchWorker
  \/ StartWorker \/ EnterEnvelope \/ PlanStep \/ KillWorker \/ Conclude

Next == Progress \/ WorkerDies

Spec == Init /\ [][Next]_vars
FairSpec == Spec /\ WF_vars(Progress)

-----------------------------------------------------------------------------
(* A plan is feasible only if every swath of the survey is flown, once, by a
   board of each spacing that takes part: nothing is lost where the swaths of
   a group are split, packed and routed. *)
FeasibleMeansCovered == answer.outcome = "feasible" => Covered

(* The code of an unsuccessful answer names what is wrong with the request or
   how its solve ended; only a refusal may be left without one.  A feasible plan
   is left out: one with clearance notes is given the code of a refusal. *)
CodeIsTrue ==
  LET cards == { request.cards[i] : i \in CardIds(request) }
  IN CASE Named = "ERROR_CAMERA_UAV_INCOMPATIBLE" -> \E c \in cards : ~Compatible(c)
       [] Named = "ERROR_CAMERA_NOT_IN_CATALOG" ->
            \E c \in cards : c.camera \notin Cameras \cap Translated
       [] Named = "ERROR_UAV_NOT_IN_CATALOG" ->
            \E c \in cards : c.model \notin Models \cap Translated
       [] Named = "ERROR_MISSING_AERODROMES" -> Cardinality(DOMAIN request.pads) \notin 1 .. 4
       [] Named = "ERROR_UNKNOWN_AERODROME" -> \E c \in cards : c.pad \notin PadIds(request)
       [] Named = "ERROR_NO_BOARDS" -> cards = {}
       [] Named = "ERROR_MODEL_NO_ENDURANCE_OR_SPEED" -> \E c \in cards : c.model \in Stated \ Flies
       [] Named = "INFEASIBLE_ENDURANCE_NO_RECHARGE" -> ~Covered /\ ~request.recharge
       [] Named = "INFEASIBLE_NO_SWATHS" -> request.area => \A b \in Boards : Swaths(b) = {}
       [] Named = "INFEASIBLE_TERRAIN_CLEARANCE" -> request.strict
       [] Named = "TIMED_OUT_BUDGET" -> answer.outcome = "timed_out"
       [] Named = "ERROR_WORKER_EXCEPTION" -> answer.outcome = "error"
       [] Named = "none" -> answer.outcome \in {"none", "infeasible"}
       [] OTHER -> FALSE

(* A refusal has the reason it names, in its outcome and in the code the API
   attaches, and the browser shows the card of that code. *)
RefusalIsTrue ==
  /\ answer.outcome = "infeasible" =>
       \/ answer.why = "empty" /\ CardIds(request) = {}
       \/ answer.why = "spectrum" /\ Admitted(request) # CardIds(request)
       \/ answer.why = "uncovered" /\ ~Covered
       \/ answer.why = "nothing" /\ (request.area => \A b \in Boards : Swaths(b) = {})
       \/ answer.why = "clearance" /\ request.strict
  /\ answer.outcome = "timed_out" =>
       now >= (IF answer.why = "due" THEN due ELSE deadline) /\ ~HaveRoute
  /\ answer.outcome # "feasible" => CodeIsTrue
  /\ CardCode(answer.outcome, Says, Named) = Named

(* What flies has a camera with the required spectrum that goes with its model:
   the worker does not look at the spectrum and the bridge not at the rest. *)
OnlyFittingBoardsFly ==
  \A s \in routed :
    LET card == request.cards[s.board[1]]
    IN /\ request.spectrum # AnySpectrum => Fits(request, card)
       /\ WorkerPairs(card) /\ card.model \in Flies /\ card.pad \in PadIds(request)

(* The client waits long enough: as long as no route exists and two steps are
   no longer than the buffer, the worker gives up by itself and says so. *)
KilledOnlyWithARoute ==
  (answer.why = "killed" /\ engine # "hung" /\ \A d, e \in StepTimes : d + e <= ClientBuffer)
    => HaveRoute

(* Every request is answered, even when the library of the worker hangs.  In the
   legacy backend it hangs the solver process, which its CLI stops. *)
EveryRequestAnswered == <>(stage = "answered" \/ (engine = "hung" /\ ~isolated))

(* A board that flies its swaths above the margin is not refused for its
   clearance. *)
StrictRefusalIsTrue ==
  answer.why = "clearance" => \E s \in routed : fleet[s.board].agl < request.margin

=============================================================================
