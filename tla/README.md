# Formal models of planes

TLA+ modules, TLC configurations and TLAPS proofs for *planes*, a service that
plans survey missions for groups of unmanned aircraft. Paths below are relative
to the repository root.

## The system

A browser form sends a scenario to an API, which stores it as a job. A worker
claims the job and calls an engine: an HTTP adapter, a listener on another host,
a CLI process and a solver process. The solver parses KML, fetches terrain,
runs an isolated Fields2Cover worker, packs the swaths into sorties and returns a
mission plan. The worker stores the answer and the browser, which has been
polling, shows it.

    browser --POST/GET--> API --INSERT/SELECT--> SQLite <--claim/UPDATE-- worker
                                                                            |
                                  listener <--HTTP, client timeout--  adapter
                                     | spawn, deadline
                                    CLI --spawn, timeout--> solver --> bridge
                                                                 |-> terrain cache
                                                                 `-> isolated F2C
                                                                     worker: Wave B

| Component | State it keeps | Operations | Interacts by |
|---|---|---|---|
| Job store (`src/planes/backend/store.py`) | one row per job: state, result, error, created_at | create, get, claim, finish, mark failed | SQLite transactions, write lock |
| API (`api.py`, `service.py`) | none besides the request in progress; single-threaded | submit, status, result | store |
| Worker (`worker.py`, `wind_filter.py`, `runtime_engine.py`) | the claimed job, its stop flag | poll, claim, refuse for wind, solve, finish, mark failed, stop | store, engine call |
| Adapter (`src/planes/runtime/adapter.py`) | a client timeout | POST, map the reply to an outcome | HTTP |
| Listener (`http_server.py`, `lock.py`) | a file lock, one thread per call, a deadline per CLI | admit or refuse, run the CLI, reply | subprocess, `flock` |
| CLI (`cli.py`, `runner.py`) | one child in a session of its own, a deadline, a grace period | spawn, wait, stop, accept or reject the output | pipes, signals |
| Solver (`core.py`, `pipeline.py`, `grisha_f2c_bridge.py`) | the remaining time budget | parse, refuse, solve, map outcomes | files, subprocess |
| Terrain (`src/planes/integration/terrain/`) | a cache directory of rasters, `.part` files | validate, download, publish | files, HTTP |
| Isolated F2C (`tools/f2c_iso/`) | none between calls | plan, pack (Wave B), separate | subprocess pipes |
| Browser (`apps/web/src/`) | request generation, displayed job and result, picked files | submit, poll, cancel, pick files | fetch, promises |
| Outer enumeration, MVP and gibrid optimizers, KML parsing, map | none between calls | pure algorithms | function calls |

What is hard in this system:

- several workers and the API interleave on one table, statement by statement;
- a worker may die, or be told to stop, at any of those statements;
- one engine call crosses four processes, each with a deadline of its own, and
  any of them may end without telling the others;
- a slot is held across a child process that may hang or be killed;
- files in the terrain cache are shared by processes that do not lock them;
- browser requests, file readers and polls finish in any order;
- the packing of sorties combines bounded searches, each of which may fail.

What makes each part correct:

- job store and workers: a job is claimed once, has one owner, is answered once,
  about itself, in the order of submission; a terminal row never changes; no job but
  a lost one waits for ever;
- call chain: one call at a time; the answer is what the solver said or a deadline
  that really passed; no solver is left behind; every call ends and every slot is
  given back;
- terrain: what is returned is a complete, valid raster and stays one;
- solver: a feasible plan flies the whole survey, with boards that fit it; between
  swaths it keeps out of the constraints wherever there is a way around; a refusal
  has the reason it names, in the outcome, in the code of the API and on the card of
  the browser; the budget handed down ends before the budget above;
- Wave B: every swath is flown once, no sortie exceeds its endurance, recharge gaps
  are kept, separated schedules really are separated;
- browser: what is on the screen belongs to the last submission, files to the last
  choice, what the form offers is what the server accepts, and the two read a survey
  alike wherever nothing in its text makes them differ;
- outer enumeration and MVP planner: calls fit what is left of the time, the
  substitutions are disclosed, what is reported is valid and the best.

`PROJECT.json` lists every component with what is modelled of it, and under
`hazards` each place where one of these can go wrong.

## Modules

### JobLifecycle

The promise, whoever keeps it: `queued -> running -> completed | failed |
timed_out`, a start at most once, the terminal state and its answer written
together, once.

### JobBackend

The control plane. The variables are the `jobs` table (`row`), SQLite's write
lock (`writer`), the API's request in progress (`api`), and for each worker its
place in `run_loop`/`run_once` (`pc`), its job (`cur`), the engine's response
(`resp`) and its stop flag. `clock` numbers the readings of `_now()`,
taken to grow: that is the wall clock in microseconds, and where it ties or is set
back the queue follows the stamps, then the `job_id`. `claims`
and `lost` are history variables; `faults` and `stops` count against bounds.

| Code | Actions |
|---|---|
| `submit_job`, `create_job` | `SubmitStamp` (validate, read the clock), `SubmitInsert`, `SubmitDuplicate`, `SubmitReload`, `SubmitFails` |
| `claim_next_queued_job` | `ClaimBegin` (BEGIN IMMEDIATE), `ClaimSelect`, `ClaimNothing`, `ClaimUpdate` (with COMMIT or ROLLBACK) |
| `run_once` | `WindRefuse`, `CallEngine`, `EngineAnswers`, `EngineRaises` |
| `finish_with_response` | `FinishWithResponse`, `FinishRefused`, `FinishFails` |
| `mark_failed` | `MarkFailed` |
| `run_loop`, signal handlers, process life | `CheckStop`, `RequestStop`, `Crash`, `Restart` |

A statement that is a transaction of its own is one step, enabled when nobody
holds the write lock. A claim is three steps with the lock held. The scenario is
reduced to whether its wind exceeds the fleet, a payload to its job and outcome.
`Lifecycle` instantiates JobLifecycle with the state column and the outcome of
the stored payload.

Which jobs have too much wind is computed by **WindFilter**, from the marked
limits of the catalog and the three keys the wind may be under: `MCJobBackend`
gives JobBackend's constant `Windy` the value `WindRefused` has on its scenarios.

### ComputeChain

One engine call through four processes. `call` and `answer` belong to the
workers; `handler`, `reply` and `lock` to the listener; `cli`; `solver` and
`said` to the solver. `clientLeft`, `listenerLeft` and `cliLeft` are the armed
timers. Time is discrete: `Tick` counts every armed timer down, and is enabled
only when no timer has reached zero and no step that takes no time is pending, so
a deadline fires when it is due and not later. A solver may end at any time or
never. The constants are the deadlines of the code: `Limit` (the request's
`time_limit_seconds`), `Slack` (`WRAPPER_SLACK_SECONDS`), `Buffer`
(`_CLI_BUFFER_SECONDS`), `Grace` (`TERM_GRACE_SECONDS`), `ClientTimeout`
of each worker (`COMPUTE_TIMEOUT_SECONDS`, read from its own environment);
`StartMax` bounds the time a CLI takes to start.

| Code | Actions |
|---|---|
| `RuntimeEngineAdapter.solve` | `Post`, `Unreachable`, `Deliver`, `ClientTimesOut` |
| `do_POST`, `JobLock` | `Acquire`, `Refuse`, `Conclude` (release, then send) |
| `_run_cli` | `ReadCli`, `ListenerDeadline` |
| `_send_bytes`, systemd, network | `ReplyToNobody`, `RestartListener`, `LoseReply` |
| `run_solver`, `_stop_process` | `SpawnSolver`, `CliFails`, `SolverSeen`, `CliTimesOut`, `StopSolver` |
| `core.main` | `SolverEnds` |

A connection that closes before the status line raises `RemoteDisconnected` in
`getresponse`, outside the `try` that urllib turns into `URLError`; `solve` does
not catch it, so the worker gets an exception (`"raised"`) and not an error
response. `CliFails` is a CLI that refuses the request or cannot spawn its solver.
A CLI that somebody else kills once its solver runs is left out: the solver would
be left behind as it is by the listener's deadline.

ComputeChain refines what JobBackend calls `CallEngine` .. `EngineAnswers` /
`EngineRaises`: JobBackend allows every outcome there, so its results hold
whatever the chain does, and the chain's `EveryCallAnswered` is what justifies
the fairness of those steps.

### FrontendPoll

The form of `apps/web` over the promise of JobLifecycle, which it instantiates
as `Backend`. A run is one press of the submit button, numbered by the
`RequestCoordinator`'s generation; `phase` says where its `handleSubmit` awaits,
`reply` what is on its way to it, `aborted` is its AbortSignal. `job`,
`observedStates`, `result`, `error`, `isSubmitting` and `isPolling` are the React
states, the first and third with the run that set them (a history the code does
not keep).

| Code | Actions |
|---|---|
| `handleSubmit` up to its first await, `begin` | `Submit`, `SubmitInvalid` |
| unmount, `cancel` | `Unmount` |
| the backend's side of a request | `ServePost`, `ServeStatus`, `ServeResult`, `Work` |
| `submitFromEditors`, `getJob`, `getJobResult` resolve | `TakePost`, `TakeStatus`, `TakeResult` |
| `abortableDelay` | `Wake` |
| rejections | `Fail` (network, HTTP error, refused JSON), `Cancelled` (AbortError) |

An abort may come too late: a response whose body was read before still resolves
its promise, so a replaced run goes on to its next `isCurrent` test or its next
request, which an aborted signal rejects. A job that was lost with its worker
stays `running` and is polled for ever; the code has no limit there.

### TerrainCache

One rectangle, so one final name (`destination`) and one `.part` name (`part`).
Names point to inodes and `content` belongs to inodes, because a process that has
a file open keeps writing to it after a rename. `body` is what the server sends,
possibly not the raster; a raster with holes stands for any file rasterio cannot
read. `Serial` says whether calls may overlap.

| Code | Actions |
|---|---|
| `ensure_dem_for_iso_scenario`, the lookup | `Call`, `UseCached`, `KeyMissing` |
| the request | `Respond`, `RequestFails` |
| `open("wb")`, the copy loop | `OpenPart`, `WriteChunk`, `EndOfBody`, `TransferFails` |
| `_validate_geotiff`, `os.replace` | `CheckPart`, `Replace` |
| the `finally` clause | `Unlink` |
| `_load_mission_dem` of the worker | `LoadDem`: terrain from a valid raster, or mono from any |
| `_stop_process` | `Kill`, at any point |

The worker takes mono terrain, without an error, when the raster cannot be read,
and with a good one too when `rasterio` or `numpy` cannot be imported or the read
fails (`f2c_isolated_worker.py:139-153`, `231-235`). No property can say that it does
not; `HandedIsWhole` says what the cache owes it: the file is there and whole from
the moment the call returns until the worker opens it.

Reading a file for validation is one step. Within one solver process the calls
of the bridge follow each other; between processes it is the listener's slot that
keeps them apart, but for an orphaned solver (run `compute_overlap`) or a CLI
started by hand.

### WaveBPack

`pack_board`: the block of swaths of one board is packed greedily under the
board's endurance, in the order given and reversed, the better result is kept and
`apply_recharge_timeline` places its sorties. The state is the local state of
`_pack_ordered`; each branch of its loop is an action. Positions are points and
`Distance` any symmetric matrix of flight times; a swath carries its number in the
block, which is how the properties recognize it after a flip. Swaths, pads, flags,
endurance and recharge time are the call, chosen in `Init`.

| Code | Actions |
|---|---|
| `current = trial` | `TakeSwath` |
| the sortie is full | `CloseSortie`, `GiveUp` (recharge forbidden) |
| an empty sortie that is too long, `_try_all_pads` | `Recover`, `LeaveOut` |
| `pack_board` | `StartBackward`, `KeepBetter` |
| `plan`, `apply_recharge_timeline` | `PlaceSorties` |

`_try_all_pads` takes the first of several equally short flights; the module takes
any.

### WaveBSeparation

`resolve_separation`, what happens to the packed sorties next. A state of the
search is a schedule (`schedule`, sorties by board), the board being separated,
whether its reversed block is tried, and the delay tried last.

| Code | Actions |
|---|---|
| nothing to do, or on to the second board | `Detect` |
| one turn of `_delay_until_clean` | `Jump` |
| the block as packed is done, the reversed one begins | `TryReversed` |
| `_replace_uav` | `Adopt` |

Boards fly along a line, one point per tick: the search asks for distances at
instants only, and on a line two boards meet more often than on a plane. What
`airborne_samples` and `_pos_at` compute is kept: samples every `SampleDt` ticks
and at the turns, and between two samples a fraction, as numerator and
denominator. `Packs` is what the packer may return: for each board a block, sorties
one after the other along paths without repeated points (`PacksAssumption`; that
`apply_recharge_timeline` makes such a block of any packed sorties is the theorem
`RechargeTimeline`). `SeparationAssumption` asks that the sampling step is at most
four times the margin in the bound of the delay search, so that a jump to one step
behind the last landing stays within that bound. In the code they are 1.0 s and
2.0 s.

### FleetAdmission, PlanEngine, ErrorCards and SolvePath

One request inside the solver process. **SolvePath** has the stages of
`pipeline.py`, `solver.solve` and the two backends; it extends **FleetAdmission**
(which cards become aircraft: the bridge, the worker and the envelope ask
different questions), **PlanEngine** (`plan()` of both engines) and **ErrorCards**
(which code the API finds in the texts of the answer, and which the browser finds
when there is none).

| Code | Actions |
|---|---|
| `ingest`, `bind`, `compile` | `Ingest` |
| `solver.solve` | `Dispatch` |
| `grisha_f2c_bridge.py` | `EnterBridge`, `AcquireTerrain`, `Conclude` |
| `f2c_isolated_client.py` | `LaunchWorker`, `KillWorker`, `WorkerDies` |
| `f2c_isolated_worker.solve_request` | `StartWorker`, `PlanStep`, `Conclude` |
| `geo_mission.solve_envelope` | `EnterEnvelope`, `PlanStep`, `Conclude` |
| `plan()` of either engine | `BeginPlan`, `GenerateSwaths`, `Hang`, `PackBoard`, `AfterPacking`, `PlaceSorties`, `BuildRoute`, `EngineRaises` |

A raster that the scenario names itself (`dem_file`) is validated against the
rectangle and not cached; `AcquireTerrain` has the same two endings for it. A model
of the catalog has no number for a figure or a reserve out of range (not in
`Stated`), a speed or endurance that is not positive (not in `Flies`), or flies: the
first is complained of in words that no pattern looks for, so it is answered as
`ERROR_WORKER_EXCEPTION`.

The clock (`now`) moves in the steps that take time; `due`, `remaining`, `killAt`
and `deadline` are the four budgets in the order they are computed, each from what
the one before it has left. Geometry is the number of swaths a spacing gives, and
the packer is what WaveBPack proves about it: whatever it does, a swath of a block
is in one sortie or left out. The legacy engine leaves nothing out. A text is the
sign the patterns look for, and `Says` the texts of an answer. What the models
call `hung` is a library call that does not return: the client kills the worker, a
hung legacy engine is the solver process itself, which its CLI stops
(ComputeChain).

SolvePath is what ComputeChain calls `SolverEnds`: there any outcome may come at
any time or never, so that the results about the chain do not depend on it.

### RouteLinks

`_route` of both Fields2Cover engines: how a packed sortie becomes waypoints. The
swaths lie outside the constraints because these were cut out of the survey, the
links between them need not, and `_avoid` leads them around: in each of four passes
every leg that runs through a constraint is replaced by a shortest way around the
first one it runs through (`_detour`).

| Code | Actions |
|---|---|
| a leg of `_avoid` that nothing blocks | `GoStraight` |
| a leg that something blocks, `_detour` | `GoAround` |
| the next of `range(4)` | `NextPass` |
| `_avoid` returns to `_route` | `TakeLink` |
| the heights, `_ground` | `SetHeights` |

A place is a spot. A constraint is the set of the parts that `make_valid` finds in
its ring, of which `_clean_polygon` keeps the largest (`Cleaned`). Which links run
through a part, the corners of its outline and the lengths of links are constants
(`Crosses`, `Outline`, `Metres`); `MCLanes` computes them for rectangles on a grid.
`stubborn` and `entangled` are history: the links that the last pass still changed,
and those with a bypass that runs through some constraint.

### OuterEnumeration

`enumeration/outer.py` beside the live path: `CheckScenario`, `ExamineCard` (one
round of the loop of `_prepare`), `BuildCalls`, `CallCore`, `EndCalls`, `Compare`
and `EndJudge`. It extends FleetAdmission. A catalog number is its mark
(`passport`, `estimate`, none), and what goes into a call is a set of numbers with
their marks; the core is external and returns any of `Results` after any of
`Durations`, longer than it was told included.

### SwathSplit and AngleSearch

**SwathSplit** is `generate.py` from the lines on: every second line is flown
backward (`Profile`), a line is split between two points when its terrain is too
steep for survey speed (`Breaks`), runs of at least two points become parts
(`Parts`), a last point left alone is joined to the last part, and a line with no
such run stays whole. `Feasible` is what `_compute_survey_time_energy` says of a
part. Heights are whole metres at equal distances.

**AngleSearch** is the loop of the MVP planner over swath angles: `StartAngle`,
`RouteUav`, `Recalculate`, `Validate`, `Retry`, `EndAngle`, `Choose`. The swaths of an
angle are those SwathSplit makes of its lines. Clustering is any labelling,
assignment any injection, routing any round within the endurance or none, and the
measurement along the waypoints any time above zero and any set of `RisksFound` (too
low, too close to an obstacle, across one); what is checked is what the loop does
with them. `IsValid` has the checks of `validator/checker.py`, in which coverage is
about parts: that it is about the lines as well is what `CandidateIsValid` adds. A
check that the checker skips, because the margin is zero or there are no heights, is
one that finds nothing. Every aircraft has a pad that is known: the cluster of one
that had none would be dropped and the candidate refused for its swaths.

### KmlReading and ScenarioForm

**ScenarioForm** is the editing half of `App.tsx`: `PickFile` and `FinishRead`
(the two halves of `handleKmlFiles` around its await), `RemoveFile`,
`ChangeAerodromeCount`, `AddBoard`, `RemoveBoard`, `ChangeModel`, `ChangeCamera`,
`ChangeAerodrome`, `ChangeCount`, `ChangeSurveyType` and `Submit`, which FrontendPoll
takes over. It extends FleetAdmission, so that what the form lets through is asked
the server's questions, and **KmlReading**, which says what the four readers of a
KML text make of it: the form, `kml_rings.py`, `kml/constraints.py` and the copy of
that file in the worker. A document is a tree of tags in document order.

A coordinate token is known by what the two languages make of it: whether `Number`
finds two finite numbers in it, and whether `float` finds none, two within the
degrees, or two that are not. All six combinations exist:

| Token | `Number` | `float` | kml.ts | kml_rings | constraints, worker |
|---|---|---|---|---|---|
| `1,2` | two | within | taken | taken | taken |
| `12,`, `0x1,2` | two | none | taken | passed over | passed over |
| `200,2` | two | outside | taken | taken | the file is refused |
| `1_0,2` | none | within | passed over | taken | taken |
| `nan,2`, `1e999,2` | none | outside | passed over | taken | the file is refused |
| a word | none | none | passed over | passed over | passed over |

Tokens are what XML white space separates; a character that only one language takes
for a space (U+0085, U+FEFF) makes tokens of one of these kinds in the other. A field
has a `whole` value and the part of it that `Element.text` gives, up to the first
element in it (`lead`); the browser reads the first, Python the second. `TypeOf` is
`_extended_value` with its fallback to a key that differs in case; the name and the
altitudes are looked up in the same way. `IsDocument`
says what a tree is: elements come after the element they are in, and a text is in
one of its own (`FilesAssumption`). The two properties of the form, `LastPickWins`
and `OnlyOfferedChosen`, are checked as one, `PicksKept`.

MCLanes runs OuterEnumeration, AngleSearch, ScenarioForm and RouteLinks side by
side: a behaviour is in one lane and leaves the variables of the others alone. The
form has three lanes: one picks files, one changes boards, one reads every text.

## Runs

| Run | Instance | Shows |
|---|---|---|
| `backend_all` | 2 workers, 2 jobs, 2 submissions, 2 faults, 1 stop | `Ownership`, `StartedAtMostOnce`, `AnswerFitsState`, `FirstComeFirstServed`, `StopIsGraceful`, the refinement `ImplementsLifecycle`, and `EveryJobDecided` under `FairSpec` |
| `compute_all` | 2 workers, one that waits as long as the listener and one that waits longer; 2 calls, all deadlines 1, a CLI that may start as late as the buffer, 1 break | `SlotExclusive`, `TruthfulAnswer`, `StoppedBeforeReported`, `PatientLeavesNothing`, and `EveryCallAnswered`, `SlotFreed` under `FairSpec` |
| `compute_overlap` | 1 worker, 2 calls, nothing breaks | a violation of `OneInFlight` |
| `frontend_all` | 2 jobs, 2 submissions | `ScreenIsCurrent`, `ResultFitsStatus`, `IndicatorsAreTrue`, and `DecidedIsShown`, `ReplacedRunStops` under `FairSpec` |
| `terrain_serial` | 2 processes, 3 files of 3 chunks, 4 calls, 3 faults, no overlap | `CacheIsWhole`, `HandedIsWhole` |
| `terrain_overlap` | 2 processes, calls overlap, no faults | a violation of `HandedIsWhole` |
| `waveb_all` | every block of up to 3 swaths on a line of 3 points, a pad at each end, endurance 3 or 4, all flags | `EnduranceHolds`, `EverySwathOnce`, `RefusalIsJustified`, `OnlyRecoveryJumps`, and `Terminates` under `FairSpec` |
| `separation` | 3 boards on the line 0 .. 14, buffer 3, window 1, samples every 2 ticks, the second board with one or two sorties | `NoConflictLeft`, `SeparationHolds`, `MovedAsAWhole` |
| `separation_takeoff` | the same | a violation of `TakeoffsConnect` |
| `mission` | some thirty requests, both backends, 3 models, 4 cameras over 3, 2 or no swaths, steps of 0 or 1 tick, the client waits 2 ticks longer | `FeasibleMeansCovered`, `RefusalIsTrue`, `OnlyFittingBoardsFly`, `KilledOnlyWithARoute`, and `EveryRequestAnswered` under `FairSpec` |
| `mission_strict` | the same | a violation of `StrictRefusalIsTrue` |
| `lanes` | outer: some twenty scenarios of up to 6 cards, limit 0 .. 2, deadlines around the calls; angles: 4 angles with 0 to 2 of 4 lines of up to 5 points, 2 aircraft, 2 attempts, patience 0 .. 2; form: 3 picks of 3 files, 2 boards, 2 survey types, texts of 0, 2 and 3 tokens of every kind, and of 4 that begin with a pair, in 5 shapes of a document (0 and 3 in all but the first); links: sorties of up to 2 swaths, 2 pads to start and 2 to land, up to 3 constraints of 4 rectangles on a grid of 11 by 8 | `CallsFitTheDeadline`, `CardsDisclosed`, `CandidateIsValid`, `BestIsReported`, `PicksKept`, `RouteGoesAround`, `SurveyReadAlike` |

Why the bounds are enough. Two workers and one lock show every race between two
claimers, and the second of two submissions is a duplicate, a rival or a successor
of the first; two faults let a terminal write fail and its worker die afterwards, or
both workers die. What holds for any number of jobs and faults is proved. One unit
of time per deadline makes the order of the deadlines, which is all the properties
depend on, come out as in the code: `Limit + Slack < Limit + Slack + Buffer`, and
`StartMax + Grace` above `Buffer`. Two calls let a call overlap the one before it,
and one break is a listener that is not there, a lost reply or a restart at any
point. A second submission replaces a run at any of its awaits. Three chunks make a
file that has its header and its end but not what is between; three files let two
`.part` files and a final one exist at once; three faults cover a kill, a broken
transfer and a bad body before a call that succeeds. With three swaths a sortie can
be filled, closed and followed by a recovery or another; endurances 3 and 4 on a
line of length 2 make some swaths impossible, some possible from one pad only and
some possible in pairs. The home pad is always the left one: mirroring the line
gives the other. Three boards are the fewest of which the third meets two frozen
ones, so that a delay that clears the one runs into the other; a second sortie makes
tracks with a gap. In `mission` one job is good and every other differs from it in
one thing, so that each refusal is met with everything before it in order; two
groups of boards, one of two aircraft over three swaths, make the split uneven, the
limits -1 .. 2 put the deadline before, inside and after the steps. In `lanes` four
tokens are one more than a ring needs, three picks put a second read of a category
and one of the other category in flight at once, and the deadlines end the calls
before, between and after the cards. The lines of the angles are one that breaks at
both sides of a lone point, one that ends in a lone point, one that stays whole
because no run is left, and one that no speed can fly. Of the rectangles two
overlap, so that the way around the one leads through the other and back, one has a
pad in it, so that no way leads around it, and one is too small to count: every way
to leave the four passes is met.

Symmetry is used in `terrain_serial` only, a safety run, over processes and files,
which the module treats alike. `CHECK_DEADLOCK FALSE` is set where the instance
really stops: all calls are answered, the plan is made, or all budgets are spent
and the workers are down.

### The violations

`compute_overlap` refutes `lock.py:3`, "One in-flight compute job on the
listener." When the CLI takes the two seconds of `_CLI_BUFFER_SECONDS` to start
its interpreter (or to stop the solver), the listener's `subprocess.run` times
out first, kills the CLI and releases the lock. The solver was started with
`start_new_session=True` and gets no signal; only `placeholder.py` asks for a
parent-death signal. The next call then runs beside it.

`terrain_overlap` refutes `docs/live-grisha-f2c-iso.md:70-72` (if "the raster is
invalid or incomplete, the live bridge raises an explicit terrain error before the
worker runs"). Two overlapping calls for one rectangle share the `.part` name: the
second truncates the file that the first has validated and is about to publish. The
first raises nothing and its worker, which cannot read the file, takes mono terrain.

`separation_takeoff` refutes `docs/workstreams/integration/INT-F2C-003.md:37-39`.
`_reversed_uav_block` swaps the pads of each sortie but keeps the order of the
sorties and never looks at `allow_foreign_takeoff`. A board that landed away from
home and is reversed to cut its delay takes off from that other pad, where it is
not.

`mission_strict` refutes the remedy of `src/planes/backend/error_codes.py:53`
("raise AGL"). `_clearance_violations` tests every waypoint, and the pads at the
ends of each route are waypoints on the ground: with any margin above zero and a
readable raster the strict check refuses every plan, however high it flies.

### Seen while reading

Not violations of a run, but of interest to who maintains the code:

- `docs/live-grisha-f2c-iso.md:72-73` goes on: "It never returns a feasible
  flat-terrain plan on this path." With a valid raster it does when `rasterio` or
  `numpy` is missing in the worker or the read fails; the mono fallback is silent
  (`LoadDem`, and `Reliefs` of SolvePath, have it);
- `time_window_s`: `_first_conflict` reads both tracks at the same shifted
  instant, so the window catches boards that are close at nearby instants only as
  far as it adds instants to look at, where `INT-F2C-003.md:43-45` has a
  separation inside a time window;
- a swath too long from where the board is goes to `_try_all_pads` with
  `allow_foreign_takeoff=True`, whatever the scenario says, and its sortie is
  appended without a look at `allow_recharge` (`wave_b.py:500-515`), against lines
  37-42 of the same document; `OnlyRecoveryJumps` and the theorem
  `OneSortieWithoutRecharge` are stated with this exception and show that it is
  the only one;
- the legacy engine flies a single swath longer than the endurance as a sortie of
  its own;
- the isolated backend refuses the whole job for one board without the spectrum,
  the legacy one leaves that board out; only the outer enumeration refuses two
  cards with one id;
- a feasible plan with clearance notes is given the code
  `INFEASIBLE_TERRAIN_CLEARANCE`, because `_match_code` looks for that text
  whatever the outcome; `CodeIsTrue` is about the other outcomes. A refusal for
  the spectrum, and one for swaths that were left out although recharging is
  allowed, get no code;
- the outer enumeration loses the calls that returned when a later one raises, and
  a turn time without a mark raises the whole job instead of skipping its card;
- the MVP planner counts photos with the swaths of the last angle it generated,
  which need not be the angle it reports, and a route is measured again without
  the energy of take-off and landing;
- the wind filter refuses only above the largest known limit, so a weaker board of
  a mixed fleet passes;
- `kml_rings.py:3` says that the browser extracts the same rings. It does not where
  a text has `12,` (the equator, to the form) or `0x1,2`, which only the form takes,
  or `1_0,2`, `nan,2` or `1e999,2`, which only kml_rings takes, nor the same data
  where a `<value>` has an element in it. Of what kml_rings takes, the other two
  server readers refuse the file for a pair outside the degrees or not finite.
  `SurveyReadAlike` says that there are no other differences;
- one `loadingCategory` serves both file pickers: a file picked for one category
  while one of the other is read re-opens the first picker early and lets a submit
  go while a file is still read. `LastPickWins` is stated for picks that do not
  cross;
- a job that is lost with its worker stays `running` and is polled for ever;
- `_avoid` gives up in silence after four passes, and where `_detour` finds no way
  (a pad inside a constraint) flies straight through, against
  `docs/architecture/STITCH_PICTURE.md:31`. `_detour` walks the outline in one
  direction only. The time and endurance of a flight are those of the straight
  links. Points of a bypass have the height of the next pad or swath end, on the way
  home that of the pad, and may lie below the ground;
- `_clean_polygon` keeps only the largest part of a ring that crosses itself: the
  rest of such a constraint is flown through;
- `split_swath_if_needed` drops steep legs and lone points between breaks from the
  survey, and `check_coverage` sees only the parts that are left; a lone last point
  is joined to the last part across what was dropped before it, which may be the leg
  that makes that part infeasible;
- `check_obstacle_clearance` looks only at the first obstacle over a point, where its
  docstring has all points over a footprint checked; `check_mass` never refuses,
  because `run_one_angle` passes no maximum;
- `annotate_result` is called by tests only, `clip_constraint_polygons` by nobody,
  against `docs/status/runtime.md:37`; the `PHYS-AIRSPACE`, `PHYS-VPP-INSIDE` and
  `PHYS-ENDURANCE` lines of line 35 there are written on the exception path alone,
  where there is no plan to check.

## Fairness

JobBackend: a worker that is up takes its next step (weak fairness of `Poll` and
`Work`): `run_loop` never waits without a timeout, and an engine call ends
because the adapter has one (`EveryCallAnswered`). Steps that need SQLite's lock
are strongly fair: the lock is held for the few statements of a claim, and
SQLite's busy handler retries for five seconds while an idle worker sleeps half a
second between claims. Nothing is assumed of `Restart`, because no unit in the
repository restarts a worker; `EveryJobDecided` therefore has the premise that
some worker stays up in the end.

ComputeChain: adapter, listener and CLI processes run when they can, and time
passes. The solver owes nothing, the network may lose replies.

SolvePath: the process takes its next step (`WF_vars(Progress)`), which `Hang` may
be: the library owes nothing. `WorkerDies` is not in `Progress`, a worker may die
but need not.

FrontendPoll: the backend answers the requests it gets, the event loop runs what
has resolved or rejected, timers fire (weak fairness of `Serve`, `Take`, `Wake`
and `Cancelled` for each run). Nothing is assumed of `Submit`, `Unmount`, `Fail`
and `Work`: nobody has to press a button, and a job may never be decided.

WaveBPack: it is a sequential program (`WF_vars(Next)`). TerrainCache,
WaveBSeparation and the lanes are checked for safety only.

## Proofs

`JobBackendProofs` proves, for any sets of jobs and workers and any number of
submissions, faults and stop signals, from `JobsAssumption` and
`NobodyIsNoPayload` only:

- `TypeCorrect`, `OwnershipHolds`, `NoSecondStart`, `SelectionStaysFresh`,
  `AnswersFit`, `QueueOrder`: the invariants;
- `TerminalStays` and `StopsGracefully`: the action properties `TerminalIsFinal` and
  `StopIsGraceful`;
- `Refinement`: `Spec => ImplementsLifecycle`.

The argument. None of the invariants is inductive alone. A claim is safe because
its worker holds the write lock from the SELECT to the UPDATE (`LockHolder`), so
the selected row is still the oldest queued one (`SelectionIsFresh`); hence the
UPDATE turns a queued row into a running one that had no owner. A terminal write
is safe because only an owner writes and its row is running (`Ownership`), which
in turn needs that an owner's job is never in `lost` and that lost jobs stay
running (`LostIsRunning`). `WorkerState` says what each worker holds at each
point of `run_once`; `Stamps` says that the stamp of the submission in progress
is above that of every row, which makes the order of INSERTs the order of
`created_at`. `IInv` is the conjunction; `InvStep` has one step per action. Three
lemmas carry most of it: `OwnerMoves` (a step from one owning state to another),
`IdleMoves` (a step of a worker that owns nothing) and `TerminalWrite` (both
terminal UPDATEs).

`ComputeChainProofs` proves `SlotIsExclusive`, `SolverIsStopped`,
`AnswersAreTruthful` and `PatienceFreesTheSlot` for any workers, calls and
deadlines, from `ChainAssumption` and `FreeIsNoAnswer`. `SlotExclusive` is inductive
with the types, because both ways to release the lock require that the CLI is gone;
the second needs `Stages`, how far CLI and solver can be at each stage of a handler.
An answer is true because the reply it came in was (`Told`): what stands behind it
(`Backed`) stays, since a solver speaks once (`Silent`) and a timer that reached zero
is not set again for a call that was taken. Patience is a matter of two timers that
run together: no time passes before the slot is taken, so a patient worker's timer
stays above the listener's while the handler runs (`Ahead`).

`FrontendPollProofs` proves `ScreenIsCurrent`, `ResultFitsStatus`,
`IndicatorsAreTrue` and `OnlyCurrentAsks` for any number of
submissions and jobs. The invariant says that only the latest run is not aborted
(`Turns`), that a row and its answer agree (`RowsAgree`), that a response under
way is about the run's own job and not ahead of its row (`RepliesHold`), and that
the status shown is one that job has had (`StatusHolds`). `NeverTooEarly`, that the
form never provokes the 409 `result_not_ready`, follows from it as well. The
invariant uses `TerminalIsFinal` of the lifecycle: without it a result could
belong to another status by the time it arrives.

`TerrainCacheProofs` proves `CacheIsWhole`, `PartIsApart`, `HandedIsWhole`
(`TerrainIsHanded`) and `EntryIsStable` for any processes, raster sizes, kills and
broken transfers, from the assumption `Serial`. `OneCall` carries the argument: only
one call is on its way, only that one has a file open, and what it is about to
publish has been validated and is still there. `terrain_overlap` shows that `Serial`
is needed.

`WaveBPackProofs` proves `EnduranceHolds`, `EverySwathOnce`,
`RefusalIsJustified`, `OnlyRecoveryJumps` and `OnePackedSortie` for any points,
distances, pads, blocks and flags, from `PackAssumption`. Each property has its
part of the invariant about the loop in progress: the sortie being filled fits
whenever the loop comes by (`Fitted`); each swath is in a sortie, left out, in the
sortie being filled or still to be looked at, once (`Shared`); the board is where
its last sortie ended (`Chained`); without recharge only recoveries were closed
(`Single`); something was left out only if it is impossible in this order
(`Justified`). The lemmas about `Ids` say what appending, taking the head, joining
and reversing blocks does to the set of swaths; `NewResults` reduces what a step
does to the results kept to what holds of `Result`. A flight time is never
computed: `Duration` stays a name, so no induction over swaths is needed. `Types`
leaves `startTimes` out for the same reason.

`SolvePathProofs` proves `FeasiblePlansCover`, `FittingBoardsFly`,
`KillsHaveARoute` and `RefusalsAreTrue` for any requests, catalog, numbers of swaths
and step times, from `CatalogAssumption`, `EngineAssumption` and `PathAssumption`.
`IInv` has five parts.

- `PlanInv` is about the engine and carries coverage. Aircraft are ordered by card
  and number (`Before`), so `group` and `board`, the heads of two nested loops, tell
  what is already done: a group before `group` is `Opened` and every swath of its
  spacing is `Placed`, flown or left out (`AtGroup`); within a group the boards
  before `board` have taken `Handed(total, c, n)` swaths, the first `extra` of them
  one more than the others (`AtBoard`, `HandedOut`). `SplitAddsUp` is the arithmetic
  that the last board ends at the last swath, `LeastNumber` that every spacing has a
  first board, which opens its group. No swath is in two sorties of a spacing
  (`Apart`), one left out is flown by nobody (`Missed`), and a candidate has a route
  for every sortie and nothing left out (`Ended`).
- `CardsFit`: every aircraft is of a card that fits. The worker does not look at the
  spectrum, so this needs `Places`, that nobody gets there whose cards the bridge
  found wanting; in the envelope it is `Admitted` that leaves the others out.
- `Budgets`: each of `due`, `remaining`, `killAt` and `deadline` in terms of the one
  it was computed from. The worker's deadline starts one step after the client's, so
  the client waits `ClientBuffer` minus that step longer; `KillsHaveARoute` needs a
  second step in between, the one that is killed.
- `Answers`: one disjunct for every ending (`Reasons`), with what it means.

From `Reasons` follows what each text in `Says` means (`SaysTheTruth`), among them
what a refused scenario raised first (`ComplaintIsTrue`, over the admission of both
backends); `SignOfCode` says that a code has its sign among the texts, so the code
is true (`TrueCodes`); and without a wind text and an energy field the browser looks
at the same signs as the API (`SameSigns`).

`LaneProofs` proves `CallsKeepTheDeadline` and `CardsAreDisclosed` of `OuterSpec`
and `CandidatesAreValid` of `AngleSpec`, from `CatalogAssumption`, `MarkAssumption`,
`ScenarioAssumption`, `SplitAssumption` and `AngleAssumption`. Each has its own
invariant: `CallInv` says of each call when it began and what it was given; `CardInv`
that the cards looked at so far are in one place each (`Sorted`) and that a card that
became a call left a note for each number that is not the manufacturer's (`Noted`);
`AngleInv` what the last check of a plan has established. Coverage of the lines needs
a fact about the split besides (`SwathOfLeg`): a leg that survey speed allows lies in
one run of points between breaks, from the least point without a break up to it to
the greatest without one after it, so in exactly one part; a joined point adds none,
since it is joined to the last run. The check puts every part in a flight, and a
part has one aircraft.

`BestOfTheSearch` is proved of `AngleSpec` as well, for any lines, routes, times and
patience. The argument is about records, the candidates better than all before:
every record gave the patience back, and each angle after it cost at most one
(`PatienceCounts`), so where the search stops early the best candidate is as many
angles back as the patience; and `min` takes the first of the best, which is a record
(`ChosenFirst`). That the metric is a number (`MetricIsNumber`) needs a sum over the
flights of a plan: a smallest set of flights without one would lack it for a flight
less (`TotalsExist`).

It proves `LastPickStays`, `ChoicesStayOffered` and with them `PicksStayKept` of
`FormSpec`, for any catalog, files, picks and boards, from `CatalogAssumption` and
`FormAssumption`. As long as no two reads cross there is one read, of the category
that is loading and the file picked last (`Uncrossed`); every edit of a board leaves
choices the form offers (`Offers`, by `OneBoard` and `AllBoards`).

`SurveysReadAlike`, from `FilesAssumption`, is mostly about documents, not about
steps, and says three things of any document: each ring is of one polygon and of one
placemark that it is in; the worker's copy agrees with `constraints.py`, and both
with kml_rings but for what they refuse; and the form and kml_rings differ only in a
polygon with a token that one of them takes and the other does not, or in the data
of a placemark with an element in a value. What a reader looks for on the way out of
an element exists and lies around it (`ClimbExists`, `NearestIsAround`: the first
element without one would be in an element that has one), so a ring belongs to one
polygon and a polygon to one placemark (`OncePerPolygon`). Where no number is
outside the degrees the loops of kml_rings and of `constraints.py` over the tokens
keep the same ones (`RingsAlike`); where the two languages agree on each token of a
polygon, the form and kml_rings do (`FoundByBoth`); and two readings of the data of
a placemark differ only in the values (`FieldsAlike`).

`RoutesGoAround` is proved of `LinksSpec` from `LinksAssumption`, for any sorties,
constraints, outlines and terrain. Its invariant follows one link through the passes
(`Leading`): a bypass that runs through no hole leaves no leg to change, so a link
without an entangled bypass is clear after one pass and is never changed again; what
the last pass changed is therefore entangled. `Flying` says it of the route so far,
`OwnHeight` that a pad or swath end has its own height and no later one's.

`WaveBSeparationProofs` proves `BoardsMoveAsAWhole`, `SearchEndsClean` and
`BufferHolds`, for any boards, packs, buffer, window and sampling step, from
`SeparationAssumption` and `PacksAssumption`, and `RechargeTimeline`, which justifies
the second.

- `Moving`: a board is as it was packed, or that block, flown forward or backward,
  delayed as one; the first board is never moved.
- `Separated`: boards before the one being separated are in conflict with nobody,
  later boards included, because each was moved until it was. Who is in the way
  lands after the trial starts (`OthersAreUp`), so a jump to behind its landing is
  forward, and the bound of the search lies behind the last landing of all
  (`CapIsLate`), so a jump is never past it (`JumpIsForward`, where the assumption on
  the sampling step is used): the search ends at a delay without a conflict and never
  at its bound.
- `SeparationHolds` speaks of every instant and the search of samples only. Between
  two samples an aircraft flies straight, because turns are samples
  (`StraightBetweenSamples`), so the interpolated position is the true one
  (`SampledIsExact`); and two instants that were looked at are too near in time for
  two aircraft a buffer apart to change sides between them, so they keep the buffer
  there as well (`BufferBetweenSamples`).

Positions are recursive functions over a path. They exist because a longest prefix
without one, or a first leg without one, would contradict its neighbour
(`SumsExist`, `WalkedGrows`, `OnSomeLeg`): a least number does the work of induction,
here and in `LaneProofs`.

Only model-checked: liveness (`EveryJobDecided`, `EveryCallAnswered`, `SlotFreed`,
`DecidedIsShown`, `ReplacedRunStops`, `Terminates`, `EveryRequestAnswered`), which is
out of the prover's reach. Every other property of a passing run is a theorem.

## Not modelled

- Geometry on floating-point coordinates: the generators of survey lines, the camera
  arithmetic behind their spacing, which links cross which polygon, clearance, the
  physical check, the interest box but for its empty case, the map. Its results
  enter the models as numbers, constants or choices.
- Texts and formatting: details of error cards, logs, redaction, HTTP parsing.
- The gibrid optimizer: a numerical prototype that only the outer enumeration
  calls; what it may return is in OuterEnumeration.
- Heuristics of the MVP planner (clustering, assignment cost, moves of the local
  search): AngleSearch allows every result they could have.
- The plans of the fake engine: data; it is one of the engines of JobBackend.
- Deployment scripts and systemd, but for the restart of the listener.

`PROJECT.json` gives the reason for each part.
