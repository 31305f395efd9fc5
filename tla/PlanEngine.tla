----------------------------- MODULE PlanEngine -----------------------------
(***************************************************************************)
(* plan(mission) of the two Fields2Cover engines: fields2cover_engine_iso.py*)
(* in the isolated worker, and runtime/fields2cover_engine.py, which the    *)
(* legacy backend calls in the solver process.  Both group the boards by    *)
(* the spacing of their cameras, cover the whole survey once per group,     *)
(* split the swaths of a group over its boards in consecutive blocks, pack  *)
(* every block into sorties and look at the clock in between.               *)
(*                                                                          *)
(* The swaths of a group are numbered in boustrophedon order; geometry is   *)
(* their number.  The packer is known by its promise (EverySwathOnce of     *)
(* WaveBPack): whatever it does, a swath of the block is in one sortie or   *)
(* left out.                                                                *)
(***************************************************************************)
EXTENDS Integers, FiniteSets

CONSTANTS
  SwathCount, \* spacing -> swaths the generator finds in the survey
  StepTimes   \* how many ticks a step may take

ASSUME EngineAssumption ==
  /\ SwathCount \in [DOMAIN SwathCount -> Nat]
  /\ StepTimes \subseteq Nat /\ StepTimes # {}

VARIABLES
  now,        \* time.monotonic(), in ticks
  deadline,   \* ctx.deadline
  fleet,      \* ctx.boards: <<card, aircraft of the card>> -> [spacing, agl]
  isolated,   \* which of the two engines
  engine,     \* where plan() is
  group,      \* the first board of the spacing group
  board,      \* the board whose block is packed next
  cursor,     \* swaths of the group handed out so far
  sorties,    \* [board, swaths] packed so far
  uncovered,  \* <<spacing, swath>> left out
  routed,     \* the sorties a route was built for
  verdict     \* how plan() ended

engineVars == <<deadline, fleet, isolated, engine, group, board, cursor,
                sorties, uncovered, routed, verdict>>

-----------------------------------------------------------------------------
Boards == DOMAIN fleet

Spacing(b) == fleet[b].spacing

(* The order of the cards, and of the aircraft of a card. *)
Before(a, b) == a[1] < b[1] \/ (a[1] = b[1] /\ a[2] < b[2])

First(boards) == CHOOSE b \in boards : \A a \in boards \ {b} : Before(b, a)

Later(boards, b) == { a \in boards : Before(b, a) }

(* _groups: a new spacing opens a group, at the board that has it first. *)
Heads == { b \in Boards : \A a \in Boards : Spacing(a) = Spacing(b) => ~Before(a, b) }

Members == { b \in Boards : Spacing(b) = Spacing(group) }

Swaths(b) == 1 .. SwathCount[Spacing(b)]

HaveRoute == sorties # {}

(* Mutant: the clock counts to the end. *)
OutOfBudget_Always == now >= deadline

(* _ensure_budget: the clock counts only until there is a route. *)
OutOfBudget == now >= deadline /\ ~HaveRoute

(* The clock after a step that added no route. *)
TooLate == now' >= deadline /\ ~HaveRoute

(* Mutant: every board takes the same, the rest is nobody's. *)
Take_NoExtra == SwathCount[Spacing(group)] \div Cardinality(Members)

(* _split: the first boards of a group take one swath more. *)
Take ==
  LET count == Cardinality(Members)
      index == Cardinality({ a \in Members : Before(a, board) })
      total == SwathCount[Spacing(group)]
  IN (total \div count) + (IF index < total % count THEN 1 ELSE 0)

Block == cursor + 1 .. cursor + Take

(* Sets of disjoint sorties over a block. *)
Packings(block) ==
  { P \in SUBSET (SUBSET block \ {{}}) : \A p, q \in P : p # q => p \cap q = {} }

(* pack_board may leave swaths out; _pack of the legacy engine never does: a
   swath that is too long becomes a sortie of its own. *)
PackResults(block) ==
  { P \in Packings(block) : isolated \/ UNION P = block }

-----------------------------------------------------------------------------
EngineIdle ==
  /\ engine = "idle" /\ group = <<0, 0>> /\ board = <<0, 0>> /\ cursor = 0
  /\ sorties = {} /\ uncovered = {} /\ routed = {} /\ verdict = "none"

Stop(v) ==
  /\ engine' = "stopped" /\ verdict' = v
  /\ UNCHANGED <<group, board, cursor, sorties, uncovered, routed>>

(* On to the next group, or to the end of the loop. *)
NextGroup ==
  LET rest == Later(Heads, group)
  IN IF rest = {} THEN engine' = "packed" /\ UNCHANGED <<group, board>>
     ELSE engine' = "group" /\ group' = First(rest) /\ board' = First(rest)

(* Checks before the loop: boards, optics, clock, and what the obstacles leave
   of the survey. *)
BeginPlan(area) ==
  /\ engine = "begin"
  /\ IF Boards = {} \/ \E b \in Boards : Spacing(b) = 0 THEN Stop("raised")
     ELSE IF OutOfBudget THEN Stop("budget")
     ELSE IF ~area THEN Stop("nothing")
     ELSE /\ engine' = "group"
          /\ group' = First(Boards) /\ board' = First(Boards)
          /\ UNCHANGED <<cursor, sorties, uncovered, routed, verdict>>
  /\ UNCHANGED <<now, deadline, fleet, isolated>>

(* _swaths of the next spacing; the library may take as long as it likes. *)
GenerateSwaths ==
  /\ engine = "group"
  /\ IF OutOfBudget THEN Stop("budget") /\ UNCHANGED now
     ELSE \E d \in StepTimes :
       /\ now' = now + d
       /\ IF Swaths(group) = {}
            THEN NextGroup /\ UNCHANGED <<cursor, sorties, uncovered, routed, verdict>>
          ELSE IF TooLate THEN Stop("budget")
          ELSE /\ engine' = "board" /\ cursor' = 0
               /\ UNCHANGED <<group, board, sorties, uncovered, routed, verdict>>
  /\ UNCHANGED <<deadline, fleet, isolated>>

(* The library may also never return. *)
Hang ==
  /\ engine = "group" /\ ~OutOfBudget
  /\ engine' = "hung"
  /\ UNCHANGED <<now, deadline, fleet, isolated, group, board, cursor, sorties, uncovered, routed, verdict>>

NextBoard ==
  LET rest == Later(Members, board)
  IN IF rest = {} THEN NextGroup
     ELSE engine' = "board" /\ board' = First(rest) /\ UNCHANGED group

(* The sorties of one board; the legacy engine builds their routes at once. *)
Keep(P) ==
  LET new == { [board |-> board, swaths |-> p] : p \in P }
  IN /\ sorties' = sorties \cup new
     /\ routed' = IF isolated THEN routed ELSE routed \cup new
     /\ uncovered' = uncovered \cup ({Spacing(board)} \X (Block \ UNION P))
     /\ cursor' = cursor + Take
     /\ NextBoard
     /\ UNCHANGED verdict

(* One board and its block; the legacy engine looks at the clock once more
   before its first route. *)
PackBoard ==
  /\ engine = "board"
  /\ IF OutOfBudget THEN Stop("budget") /\ UNCHANGED now
     ELSE \E d \in StepTimes, P \in PackResults(Block) :
       /\ now' = now + d
       /\ IF ~isolated /\ P # {} /\ TooLate THEN Stop("budget") ELSE Keep(P)
  /\ UNCHANGED <<deadline, fleet, isolated>>

(* One swath left out refuses the mission; no sortie at all is no mission. *)
AfterPacking ==
  /\ engine = "packed"
  /\ IF uncovered # {} THEN Stop("uncovered")
     ELSE IF sorties = {} THEN Stop("nothing")
     ELSE IF ~isolated THEN Stop("candidate")
     ELSE /\ engine' = "place"
          /\ UNCHANGED <<group, board, cursor, sorties, uncovered, routed, verdict>>
  /\ UNCHANGED <<now, deadline, fleet, isolated>>

(* apply_recharge_timeline and resolve_separation, without a look at the clock. *)
PlaceSorties ==
  /\ engine = "place"
  /\ \E d \in StepTimes : now' = now + d
  /\ engine' = "route"
  /\ UNCHANGED <<deadline, fleet, isolated, group, board, cursor, sorties, uncovered, routed, verdict>>

(* One route; the budget no longer stops it. *)
BuildRoute ==
  /\ engine = "route"
  /\ \E d \in StepTimes, s \in sorties \ routed :
       /\ now' = now + d
       /\ routed' = routed \cup {s}
       /\ IF routed' = sorties THEN engine' = "stopped" /\ verdict' = "candidate"
          ELSE UNCHANGED <<engine, verdict>>
  /\ UNCHANGED <<deadline, fleet, isolated, group, board, cursor, sorties, uncovered>>

(* The library is of another version or lacks an objective, or a terrain sample
   of a route is not finite. *)
EngineRaises ==
  /\ \/ engine = "route"
     \/ engine = "group" /\ ~OutOfBudget
     \/ engine = "board" /\ ~isolated /\ ~OutOfBudget /\ Block # {}
  /\ Stop("raised")
  /\ UNCHANGED <<now, deadline, fleet, isolated>>

(* Where plan() spends time. *)
Busy ==
  \/ engine \in {"place", "route", "hung"}
  \/ engine \in {"group", "board"} /\ ~OutOfBudget

Plan == GenerateSwaths \/ Hang \/ PackBoard \/ AfterPacking \/ PlaceSorties \/ BuildRoute \/ EngineRaises

-----------------------------------------------------------------------------
(* Every swath of every spacing is flown by exactly one route, of a board with
   that spacing. *)
Covered ==
  \A b \in Boards : \A i \in Swaths(b) :
    Cardinality({ s \in routed : Spacing(s.board) = Spacing(b) /\ i \in s.swaths }) = 1

=============================================================================
