-------------------------- MODULE OuterEnumeration --------------------------
(***************************************************************************)
(* enumeration/outer.py: the cards of a scenario are examined in their      *)
(* order, each runnable one becomes one call of the core, the calls are     *)
(* made one after the other against a deadline, and the best of them wins.  *)
(* The core (gibrid-optimizer) is known by what it may return.              *)
(***************************************************************************)
EXTENDS FleetAdmission, Sequences

CONSTANTS
  Scenarios,
  ModelMarks,   \* model -> [speed, coeffs, const, turn -> mark]
  CameraMarks,  \* camera -> [optics, pitch -> mark]
  MaxCalls,     \* 16
  Durations,    \* how many ticks a call may take
  Results       \* what a call may return

Second == 2     \* ticks: a remainder below a second is seen

Tags == {"passport", "estimate"}

(* A mark: a tagged number, one that has no tag, or nothing at all. *)
ASSUME MarkAssumption ==
  /\ ModelMarks \in [Models -> [{"speed", "coeffs", "const", "turn"} -> Tags \cup {"untagged", "blank"}]]
  /\ CameraMarks \in [Cameras -> [{"optics", "pitch"} -> Tags \cup {"untagged", "blank"}]]
  /\ Durations \subseteq Nat /\ MaxCalls \in Nat

ASSUME ScenarioAssumption ==
  \A s \in Scenarios :
    /\ s.limit \in Int /\ s.deadline \in Int
    /\ Len(s.cards) \in Nat /\ DOMAIN s.cards = 1 .. Len(s.cards)

VARIABLES
  scenario,
  phase,       \* where run_candidates and select_winner are
  card,        \* the card examined next
  runnable,    \* cards that become calls, in their order
  skips, mismatches,
  notes,       \* <<card, what>> disclosed
  clock,       \* time.monotonic(), in ticks
  attempts,    \* calls that returned
  stopped,     \* stopped_for_deadline
  reason,      \* of a result without a call
  compared,    \* attempts select_winner has looked at
  best         \* and the one it keeps, 0 before there is one

prepareVars == <<card, runnable, skips, mismatches, notes, reason>>
outerVars == <<scenario, phase, prepareVars, clock, attempts, stopped, compared, best>>

Card(i) == scenario.cards[i]
Model(i) == ModelMarks[Card(i).model]
Camera(i) == CameraMarks[Card(i).camera]

-----------------------------------------------------------------------------
(* _missing_fields: the optics, the flight numbers, and power in either form. *)
Runnable(i) ==
  /\ Camera(i).optics \in Tags /\ Model(i).speed \in Tags
  /\ Model(i).coeffs \in Tags \/ Model(i).const \in Tags

(* What goes into a call, with its mark; "fixed" is a default of the core. *)
CopiedOptics(i) == {<<"optics", Camera(i).optics>>, <<"speed", Model(i).speed>>}

CopiedPower(i) ==
  { IF Model(i).coeffs \in Tags THEN <<"coeffs", Model(i).coeffs>> ELSE <<"power", "fixed">> }

CopiedTurn(i) ==
  {<<"turn base", "fixed">>,
   IF Model(i).turn # "blank" THEN <<"turn", Model(i).turn>> ELSE <<"turn", "fixed">>}

(* InputData and _require_tagged refuse; one refusal ends the whole job. *)
Builds(i) == Model(i).turn # "untagged" /\ Card(i).valid

(* Mutant: a card whose constant power is replaced does not say so. *)
CatalogNotes_NoPower(i) ==
  {i} \X ({ q \in {"optics", "pitch"} : Camera(i)[q] = "estimate" }
          \cup { q \in {"speed", "coeffs", "turn"} : Model(i)[q] = "estimate" })

(* _catalog_notes: estimates, and constant power the core cannot take. *)
CatalogNotes(i) ==
  {i} \X ({ q \in {"optics", "pitch"} : Camera(i)[q] = "estimate" }
          \cup { q \in {"speed", "coeffs", "turn"} : Model(i)[q] = "estimate" }
          \cup { q \in {"power"} : Model(i).const \in Tags /\ Model(i).coeffs \notin Tags })

(* _fixed_default_notes. *)
FixedNotes(i) ==
  {i} \X ({"turn base"} \cup { q \in {"turn"} : Model(i).turn = "blank" })

(* _empty_reason: a total miss of the spectrum outranks missing numbers. *)
EmptyReason == IF mismatches # {} /\ skips = {} THEN "spectrum" ELSE "no board"

-----------------------------------------------------------------------------
OuterInit ==
  /\ scenario \in Scenarios
  /\ phase = "fields" /\ card = 1 /\ runnable = <<>> /\ skips = {} /\ mismatches = {}
  /\ notes = {} /\ clock = 0 /\ attempts = <<>> /\ stopped = FALSE /\ reason = "none"
  /\ compared = 0 /\ best = 0

(* _aerodromes: one to four, each named once. *)
AerodromesOk ==
  /\ Len(scenario.pads) \in 1 .. 4
  /\ \A i, j \in DOMAIN scenario.pads : scenario.pads[i] = scenario.pads[j] => i = j

(* _boards: each named once, at a known aerodrome, at least one aircraft. *)
BoardsOk ==
  /\ \A i, j \in CardIds(scenario) : Card(i).id = Card(j).id => i = j
  /\ \A i \in CardIds(scenario) : Card(i).pad \in PadIds(scenario) /\ Card(i).count >= 1

(* _compatibility: the pairs are of models and cameras of the catalog. *)
CompatibilityOk == \A e \in Edges : e[1] \in Models /\ e[2] \in Cameras

(* _prepare before the loop. *)
CheckScenario ==
  /\ phase = "fields"
  /\ phase' = IF scenario.whole /\ AerodromesOk /\ BoardsOk /\ CompatibilityOk
              THEN "card" ELSE "raised"
  /\ UNCHANGED <<scenario, prepareVars, clock, attempts, stopped, compared, best>>

(* One round of the loop of _prepare. *)
ExamineCard ==
  /\ phase = "card" /\ card \in CardIds(scenario)
  /\ IF ~Known(Card(card)) \/ ~Compatible(Card(card))
       THEN phase' = "raised" /\ UNCHANGED prepareVars
     ELSE
       /\ card' = card + 1 /\ UNCHANGED <<phase, reason>>
       /\ \/ /\ ~Fits(scenario, Card(card))
             /\ mismatches' = mismatches \cup {card}
             /\ notes' = notes \cup CatalogNotes(card)
             /\ UNCHANGED <<runnable, skips>>
          \/ /\ Fits(scenario, Card(card)) /\ ~Runnable(card)
             /\ skips' = skips \cup {card}
             /\ notes' = notes \cup CatalogNotes(card)
             /\ UNCHANGED <<runnable, mismatches>>
          \/ /\ Fits(scenario, Card(card)) /\ Runnable(card)
             /\ runnable' = Append(runnable, card)
             /\ notes' = notes \cup CatalogNotes(card) \cup FixedNotes(card)
             /\ UNCHANGED <<skips, mismatches>>
  /\ UNCHANGED <<scenario, clock, attempts, stopped, compared, best>>

(* The rest of _prepare: no card, too many, a wrong limit, a card the core's
   own types refuse. *)
BuildCalls ==
  /\ phase = "card" /\ card \notin CardIds(scenario)
  /\ IF runnable = <<>> THEN phase' = "judge" /\ reason' = EmptyReason
     ELSE /\ phase' = IF /\ Len(runnable) <= MaxCalls /\ scenario.limit >= 1
                         /\ \A k \in DOMAIN runnable : Builds(runnable[k])
                      THEN "call" ELSE "raised"
          /\ UNCHANGED reason
  /\ UNCHANGED <<scenario, card, runnable, skips, mismatches, notes, clock, attempts,
                 stopped, compared, best>>

Remainder == scenario.deadline - clock

(* Mutant: the limit of the task, whatever is left. *)
CallLimit_Task == scenario.limit

(* The limit a call is given: whole seconds. *)
CallLimit ==
  IF scenario.limit <= Remainder \div Second THEN scenario.limit ELSE Remainder \div Second

(* One call of the core, which may take longer than it was told, raise, or
   return no result: then the finished calls are lost too. *)
CallCore ==
  /\ phase = "call" /\ Len(attempts) < Len(runnable) /\ Remainder >= Second
  /\ \E d \in Durations :
       /\ clock' = clock + d
       /\ \/ phase' = "raised" /\ UNCHANGED attempts
          \/ \E r \in Results :
               /\ attempts' = Append(attempts,
                    [card |-> runnable[Len(attempts) + 1], began |-> clock,
                     limit |-> CallLimit, result |-> r])
               /\ UNCHANGED phase
  /\ UNCHANGED <<scenario, prepareVars, stopped, compared, best>>

(* All are done, or less than a second is left. *)
EndCalls ==
  /\ phase = "call"
  /\ Len(attempts) = Len(runnable) \/ Remainder < Second
  /\ stopped' = (Len(attempts) < Len(runnable))
  /\ phase' = "judge"
  /\ UNCHANGED <<scenario, prepareVars, clock, attempts, compared, best>>

(* A strict comparison: of two equal calls the earlier stays. *)
Better(a, b) == b = 0 \/ attempts[a].result.time < attempts[b].result.time

(* select_winner, one attempt; a success without its mission raises. *)
Compare ==
  /\ phase = "judge" /\ compared < Len(attempts)
  /\ compared' = compared + 1
  /\ LET r == attempts[compared'].result
     IN /\ phase' = IF r.ok /\ r.time = 0 THEN "raised" ELSE phase
        /\ best' = IF r.ok /\ r.time # 0 /\ Better(compared', best) THEN compared' ELSE best
  /\ UNCHANGED <<scenario, prepareVars, clock, attempts, stopped>>

EndJudge ==
  /\ phase = "judge" /\ compared = Len(attempts)
  /\ phase' = "done"
  /\ UNCHANGED <<scenario, prepareVars, clock, attempts, stopped, compared, best>>

OuterNext ==
  \/ CheckScenario \/ ExamineCard \/ BuildCalls \/ CallCore \/ EndCalls
  \/ Compare \/ EndJudge

OuterSpec == OuterInit /\ [][OuterNext]_outerVars

-----------------------------------------------------------------------------
(* A call is given at least a second, no more than the task allows, and no more
   than is left when it starts: a core that keeps to it ends before the
   deadline. *)
CallsFitTheDeadline ==
  \A k \in DOMAIN attempts :
    LET a == attempts[k]
    IN /\ a.limit \in 1 .. scenario.limit
       /\ a.began + a.limit * Second <= scenario.deadline

(* Every card of an answered job is a call, skipped, of another spectrum, or
   after the deadline; and of every number a call was made with that is not of
   a passport, the answer says so. *)
CardsDisclosed ==
  phase = "done" =>
    LET called == { attempts[k].card : k \in DOMAIN attempts }
    IN /\ CardIds(scenario) = called \cup skips \cup mismatches
             \cup (IF stopped THEN { runnable[k] : k \in DOMAIN runnable } ELSE {})
       /\ called \cap (skips \cup mismatches) = {} /\ skips \cap mismatches = {}
       /\ reason = "spectrum" => skips = {} /\ mismatches = CardIds(scenario)
       /\ \A i \in called : \A c \in CopiedOptics(i) \cup CopiedPower(i) \cup CopiedTurn(i) :
            c[2] # "passport" => <<i, c[1]>> \in notes

=============================================================================
