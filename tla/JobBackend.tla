----------------------------- MODULE JobBackend -----------------------------
(***************************************************************************)
(* The control plane of planes/backend: the API process (api.py,           *)
(* service.py), the SQLite job store they share (store.py) and the worker  *)
(* processes (worker.py).                                                  *)
(*                                                                         *)
(* The API is a single-threaded WSGI server, so its requests do not        *)
(* interleave with each other, but every statement of a request            *)
(* interleaves with the workers.  Each store operation uses a connection   *)
(* of its own; `writer' is SQLite's write lock, which BEGIN IMMEDIATE      *)
(* takes and COMMIT or ROLLBACK releases.  A one-statement write (INSERT,  *)
(* the terminal UPDATE) is one transaction and one step, enabled when      *)
(* nobody holds the lock.                                                  *)
(*                                                                         *)
(* Data that no property tells apart is left out: the scenario is only     *)
(* whether its wind exceeds the fleet, timestamps are the order in which   *)
(* they were read, and a payload is its job_id and outcome.  Requests that *)
(* the service rejects (400) or that only read change nothing and are the  *)
(* operator ResultView.                                                    *)
(***************************************************************************)
EXTENDS Naturals, FiniteSets

CONSTANTS
  Jobs,        \* job identifiers, chosen by the client or by uuid4
  Windy,       \* the jobs whose wind is above every known limit of the fleet
  Workers,     \* worker processes (backend.worker --loop)
  Nobody,      \* "no worker", "no job", "no payload"
  Unknown,     \* the job_id of a response that is not one of ours
  MaxSubmits,  \* bound: POST /jobs requests
  MaxFaults,   \* bound: process deaths and failing SQLite calls
  MaxStops     \* bound: SIGTERM/SIGINT sent to workers

ASSUME JobsAssumption ==
  /\ Windy \subseteq Jobs
  /\ Nobody \notin Jobs \cup Workers
  /\ Unknown \notin Jobs
  /\ MaxSubmits \in Nat /\ MaxFaults \in Nat /\ MaxStops \in Nat

VARIABLES
  row,      \* the jobs table: state, answer payload, created_at
  writer,   \* the holder of the SQLite write lock
  api,      \* the API's request in progress
  clock,    \* how many times created_at = _now() was evaluated
  pc,       \* where each worker is in run_loop / run_once
  cur,      \* the job each worker selected or claimed
  resp,     \* the engine response each worker holds
  stop,     \* each worker's stop flag
  claims,   \* history: how often each job was moved to running
  lost,     \* history: jobs whose worker died while it owned them
  faults,   \* faults so far
  stops     \* stop signals so far

tableVars  == <<row, writer>>
workerVars == <<pc, cur, resp, stop>>
history    == <<claims, lost>>
budgets    == <<faults, stops>>
vars == <<row, writer, api, clock, pc, cur, resp, stop,
          claims, lost, faults, stops>>

-----------------------------------------------------------------------------
(* Types *)

Outcomes == {"feasible", "infeasible", "timed_out", "error"}

(* What result_json or error_json holds: an engine response, or the worker's
   own error payload, which is about the job it is stored under. *)
Payloads == [job : Jobs \cup {Unknown}, outcome : Outcomes \cup {"exception"}]

ASSUME NobodyIsNoPayload == Nobody \notin Payloads

Terminal == {"completed", "failed", "timed_out"}

Rows == [state   : {"absent", "queued", "running"} \cup Terminal,
         result  : Payloads \cup {Nobody},
         error   : Payloads \cup {Nobody},
         created : 0 .. MaxSubmits]

Owning == {"claimed", "solving", "answered", "raised"}
Alive  == Owning \cup {"loop", "polling", "claiming", "selected"}

TypeOK ==
  /\ row \in [Jobs -> Rows]
  /\ writer \in Workers \cup {Nobody}
  /\ api \in [phase : {"idle", "stamped", "inserted"},
              job : Jobs \cup {Nobody}, stamp : 0 .. MaxSubmits]
  /\ clock \in 0 .. MaxSubmits
  /\ pc \in [Workers -> Alive \cup {"stopped", "dead"}]
  /\ cur \in [Workers -> Jobs \cup {Nobody}]
  /\ resp \in [Workers -> Payloads \cup {Nobody}]
  /\ stop \in [Workers -> BOOLEAN]
  /\ claims \in [Jobs -> Nat]
  /\ lost \in SUBSET Jobs
  /\ faults \in 0 .. MaxFaults
  /\ stops \in 0 .. MaxStops

-----------------------------------------------------------------------------
(* The jobs table *)

NoRow == [state |-> "absent", result |-> Nobody, error |-> Nobody, created |-> 0]

Absent(j) == row[j].state = "absent"

(* Mutant: a recovery that claims running jobs again. *)
Claimable_AlsoRunning(j) == row[j].state \in {"queued", "running"}

(* WHERE state = 'queued', in the SELECT and in the UPDATE of the claim. *)
Claimable(j) == row[j].state = "queued"

(* Mutant: the ORDER BY is gone. *)
Oldest_AnyQueued(j) == Claimable(j)

(* ORDER BY created_at, job_id.  One single-threaded process reads the clock, so
   the stamps are taken to grow: _now() is the wall clock in microseconds, and
   where it ties or is set back the order is that of the stamps, then of the
   job_id, and no longer that of the submissions. *)
Oldest(j) ==
  /\ Claimable(j)
  /\ \A k \in Jobs : Claimable(k) => row[j].created <= row[k].created

(* Mutant: infeasible is taken for a failure. *)
Finished_InfeasibleFails(r, payload) ==
  CASE payload.outcome = "feasible" ->
         [r EXCEPT !.state = "completed", !.result = payload]
    [] payload.outcome = "timed_out" ->
         [r EXCEPT !.state = "timed_out", !.result = payload]
    [] OTHER ->
         [r EXCEPT !.state = "failed", !.error = payload]

(* The row finish_with_response and mark_failed write over row r. *)
Finished(r, payload) ==
  CASE payload.outcome \in {"feasible", "infeasible"} ->
         [r EXCEPT !.state = "completed", !.result = payload]
    [] payload.outcome = "timed_out" ->
         [r EXCEPT !.state = "timed_out", !.result = payload]
    [] OTHER ->
         [r EXCEPT !.state = "failed", !.error = payload]

(* GET /jobs/{id}/result as the client sees it: BackendService.get_result and
   the HTTP status BackendAPI gives it. *)
ResultView(j) ==
  CASE Absent(j)                               -> "404 job_not_found"
    [] row[j].state \in {"queued", "running"}  -> "409 result_not_ready"
    [] row[j].state = "failed"                 -> "200 failed"
    [] OTHER -> IF row[j].result = Nobody THEN "500 no result" ELSE "200 result"

-----------------------------------------------------------------------------
(* Worker bookkeeping *)

Goto(w, from, to) ==
  /\ pc[w] = from
  /\ pc' = [pc EXCEPT ![w] = to]

Forget(w) ==
  /\ cur' = [cur EXCEPT ![w] = Nobody]
  /\ resp' = [resp EXCEPT ![w] = Nobody]

Fault ==
  /\ faults < MaxFaults
  /\ faults' = faults + 1
  /\ UNCHANGED stops

(* The process of w ends: SQLite rolls its transaction back and frees the lock,
   and the job it owned, if any, stays `running' in the table. *)
Dies(w) ==
  /\ pc' = [pc EXCEPT ![w] = "dead"]
  /\ Forget(w)
  /\ writer' = IF writer = w THEN Nobody ELSE writer
  /\ lost' = IF pc[w] \in Owning THEN lost \cup {cur[w]} ELSE lost
  /\ UNCHANGED <<row, api, clock, stop, claims>>

-----------------------------------------------------------------------------
(* The API process *)

(* POST /jobs: submit_job validated the request, create_job read the clock. *)
SubmitStamp(j) ==
  /\ api.phase = "idle"
  /\ clock < MaxSubmits
  /\ clock' = clock + 1
  /\ api' = [phase |-> "stamped", job |-> j, stamp |-> clock']
  /\ UNCHANGED <<tableVars, workerVars, history, budgets>>

(* The INSERT commits. *)
SubmitInsert ==
  /\ api.phase = "stamped"
  /\ writer = Nobody
  /\ Absent(api.job)
  /\ row' = [row EXCEPT ![api.job] = [NoRow EXCEPT !.state = "queued",
                                                  !.created = api.stamp]]
  /\ api' = [api EXCEPT !.phase = "inserted"]
  /\ UNCHANGED <<writer, clock, workerVars, history, budgets>>

(* The job_id is taken: IntegrityError, which nothing maps, so a 500. *)
SubmitDuplicate ==
  /\ api.phase = "stamped"
  /\ writer = Nobody
  /\ ~ Absent(api.job)
  /\ api' = [phase |-> "idle", job |-> Nobody, stamp |-> 0]
  /\ UNCHANGED <<tableVars, clock, workerVars, history, budgets>>

(* create_job reads the row back, on a new connection, for the 202 answer. *)
SubmitReload ==
  /\ api.phase = "inserted"
  /\ api' = [phase |-> "idle", job |-> Nobody, stamp |-> 0]
  /\ UNCHANGED <<tableVars, clock, workerVars, history, budgets>>

(* The INSERT fails (database is locked, disk full), the reload fails, or the
   API process dies and is started again: the client gets no job_id. *)
SubmitFails ==
  /\ api.phase \in {"stamped", "inserted"}
  /\ api' = [phase |-> "idle", job |-> Nobody, stamp |-> 0]
  /\ Fault
  /\ UNCHANGED <<tableVars, clock, workerVars, history>>

-----------------------------------------------------------------------------
(* The worker process *)

(* Mutant: the handler exits instead of setting the flag. *)
RequestStop_Exits(w) ==
  /\ pc[w] \in Alive
  /\ stops < MaxStops
  /\ stops' = stops + 1
  /\ Dies(w)
  /\ UNCHANGED faults

(* SIGTERM or SIGINT: the handler only sets the flag. *)
RequestStop(w) ==
  /\ pc[w] \in Alive
  /\ ~ stop[w]
  /\ stops < MaxStops
  /\ stops' = stops + 1
  /\ stop' = [stop EXCEPT ![w] = TRUE]
  /\ UNCHANGED <<tableVars, api, clock, pc, cur, resp, history, faults>>

(* while not should_stop() *)
CheckStop(w) ==
  /\ Goto(w, "loop", IF stop[w] THEN "stopped" ELSE "polling")
  /\ UNCHANGED <<tableVars, api, clock, cur, resp, stop, history, budgets>>

(* BEGIN IMMEDIATE *)
ClaimBegin(w) ==
  /\ Goto(w, "polling", "claiming")
  /\ writer = Nobody
  /\ writer' = w
  /\ UNCHANGED <<row, api, clock, cur, resp, stop, history, budgets>>

(* The SELECT finds a job. *)
ClaimSelect(w) ==
  /\ Goto(w, "claiming", "selected")
  /\ \E j \in Jobs : Oldest(j) /\ cur' = [cur EXCEPT ![w] = j]
  /\ UNCHANGED <<tableVars, api, clock, resp, stop, history, budgets>>

(* The SELECT finds nothing: COMMIT, and sleep until the next poll. *)
ClaimNothing(w) ==
  /\ Goto(w, "claiming", "loop")
  /\ \A j \in Jobs : ~ Claimable(j)
  /\ writer' = Nobody
  /\ UNCHANGED <<row, api, clock, cur, resp, stop, history, budgets>>

(* The conditional UPDATE, then COMMIT; or ROLLBACK when its rowcount is 0. *)
ClaimUpdate(w) ==
  /\ pc[w] = "selected"
  /\ IF Claimable(cur[w])
     THEN /\ pc' = [pc EXCEPT ![w] = "claimed"]
          /\ row' = [row EXCEPT ![cur[w]].state = "running"]
          /\ claims' = [claims EXCEPT ![cur[w]] = @ + 1]
          /\ UNCHANGED <<cur, resp>>
     ELSE /\ pc' = [pc EXCEPT ![w] = "loop"]
          /\ Forget(w)
          /\ UNCHANGED <<row, claims>>
  /\ writer' = Nobody
  /\ UNCHANGED <<api, clock, stop, lost, budgets>>

(* refuse_if_wind_exceeds_fleet answers for the engine. *)
WindRefuse(w) ==
  /\ Goto(w, "claimed", "answered")
  /\ cur[w] \in Windy
  /\ resp' = [resp EXCEPT ![w] = [job |-> cur[w], outcome |-> "infeasible"]]
  /\ UNCHANGED <<tableVars, api, clock, cur, stop, history, budgets>>

(* engine.solve(request) is called; ComputeChain models what happens there. *)
CallEngine(w) ==
  /\ Goto(w, "claimed", "solving")
  /\ cur[w] \notin Windy
  /\ UNCHANGED <<tableVars, api, clock, cur, resp, stop, history, budgets>>

(* engine.solve returns: its response is for this job, or (the runtime could
   not read the request's job_id) for "unknown". *)
EngineAnswers(w) ==
  /\ Goto(w, "solving", "answered")
  /\ \E p \in [job : {cur[w], Unknown}, outcome : Outcomes] :
       resp' = [resp EXCEPT ![w] = p]
  /\ UNCHANGED <<tableVars, api, clock, cur, stop, history, budgets>>

(* Mutant: the exception is swallowed and the loop goes on. *)
EngineRaises_Swallowed(w) ==
  /\ Goto(w, "solving", "loop")
  /\ Forget(w)
  /\ UNCHANGED <<tableVars, api, clock, stop, history, budgets>>

EngineRaises(w) ==
  /\ Goto(w, "solving", "raised")
  /\ UNCHANGED <<tableVars, api, clock, cur, resp, stop, history, budgets>>

(* Mutant: the job_id of the response is not compared. *)
FinishWithResponse_AnyJobId(w) ==
  /\ pc[w] = "answered"
  /\ writer = Nobody
  /\ row[cur[w]].state = "running"
  /\ row' = [row EXCEPT ![cur[w]] = Finished(@, resp[w])]
  /\ pc' = [pc EXCEPT ![w] = "loop"]
  /\ Forget(w)
  /\ UNCHANGED <<writer, api, clock, stop, history, budgets>>

(* finish_with_response: job_id check, then UPDATE ... WHERE state = 'running'. *)
FinishWithResponse(w) ==
  /\ pc[w] = "answered"
  /\ resp[w].job = cur[w]
  /\ writer = Nobody
  /\ row[cur[w]].state = "running"
  /\ row' = [row EXCEPT ![cur[w]] = Finished(@, resp[w])]
  /\ pc' = [pc EXCEPT ![w] = "loop"]
  /\ Forget(w)
  /\ UNCHANGED <<writer, api, clock, stop, history, budgets>>

(* finish_with_response raises: the response is for another job, or the row is
   not running any more. *)
FinishRefused(w) ==
  /\ Goto(w, "answered", "raised")
  /\ resp[w].job = cur[w] =>
       writer = Nobody /\ row[cur[w]].state # "running"
  /\ UNCHANGED <<tableVars, api, clock, cur, resp, stop, history, budgets>>

(* finish_with_response raises: SQLite does, or the payload has no JSON. *)
FinishFails(w) ==
  /\ Goto(w, "answered", "raised")
  /\ Fault
  /\ UNCHANGED <<tableVars, api, clock, cur, resp, stop, history>>

(* except Exception: mark_failed, WHERE state = 'running'; its own exception
   leaves run_loop and ends the process. *)
MarkFailed(w) ==
  /\ pc[w] = "raised"
  /\ writer = Nobody
  /\ IF row[cur[w]].state = "running"
     THEN /\ row' = [row EXCEPT ![cur[w]] =
                      Finished(@, [job |-> cur[w], outcome |-> "exception"])]
          /\ pc' = [pc EXCEPT ![w] = "loop"]
          /\ Forget(w)
          /\ UNCHANGED <<writer, api, clock, stop, history>>
     ELSE Dies(w)
  /\ UNCHANGED budgets

(* SIGKILL or power loss at any point; also an exception nothing catches: the
   claim's, or mark_failed's own.  They end the process in the same way. *)
Crash(w) ==
  /\ pc[w] \in Alive
  /\ Dies(w)
  /\ Fault

(* Mutant: a starting worker fails every running job it finds. *)
Restart_FailsRunning(w) ==
  /\ pc[w] \in {"stopped", "dead"}
  /\ writer = Nobody
  /\ row' = [j \in Jobs |->
              IF row[j].state = "running"
              THEN Finished(row[j], [job |-> j, outcome |-> "exception"])
              ELSE row[j]]
  /\ pc' = [pc EXCEPT ![w] = "loop"]
  /\ stop' = [stop EXCEPT ![w] = FALSE]
  /\ UNCHANGED <<writer, api, clock, cur, resp, history, budgets>>

(* An operator (the repository has no worker unit) starts the worker again. *)
Restart(w) ==
  /\ pc[w] \in {"stopped", "dead"}
  /\ pc' = [pc EXCEPT ![w] = "loop"]
  /\ stop' = [stop EXCEPT ![w] = FALSE]
  /\ UNCHANGED <<tableVars, api, clock, cur, resp, history, budgets>>

-----------------------------------------------------------------------------
Init ==
  /\ row = [j \in Jobs |-> NoRow]
  /\ writer = Nobody
  /\ api = [phase |-> "idle", job |-> Nobody, stamp |-> 0]
  /\ clock = 0
  /\ pc = [w \in Workers |-> "loop"]
  /\ cur = [w \in Workers |-> Nobody]
  /\ resp = [w \in Workers |-> Nobody]
  /\ stop = [w \in Workers |-> FALSE]
  /\ claims = [j \in Jobs |-> 0]
  /\ lost = {}
  /\ faults = 0
  /\ stops = 0

Api == \/ \E j \in Jobs : SubmitStamp(j)
       \/ SubmitInsert \/ SubmitDuplicate \/ SubmitReload \/ SubmitFails

Poll(w) == \/ CheckStop(w) \/ ClaimBegin(w) \/ ClaimSelect(w)
           \/ ClaimNothing(w) \/ ClaimUpdate(w)

Work(w) == \/ WindRefuse(w) \/ CallEngine(w) \/ EngineAnswers(w)
           \/ EngineRaises(w) \/ FinishWithResponse(w) \/ FinishRefused(w)
           \/ MarkFailed(w)

Next ==
  \/ Api
  \/ \E w \in Workers : \/ RequestStop(w) \/ Poll(w) \/ Work(w)
                        \/ FinishFails(w) \/ Crash(w) \/ Restart(w)

Spec == Init /\ [][Next]_vars

(* A worker that is up keeps going: run_loop never waits without a timeout, and
   the adapter's client timeout ends every engine call.  The lock is held for
   the few statements of a claim, and busy_timeout retries for 5 s while idle
   workers sleep 0.5 s between claims, so a waiting writer is not starved:
   strong fairness for the steps that need the lock.  Nothing restarts a worker
   that is down, so Restart has no fairness. *)
Fairness ==
  \A w \in Workers :
    /\ WF_vars(Poll(w) \/ Work(w))
    /\ SF_vars(ClaimBegin(w))
    /\ SF_vars(FinishWithResponse(w) \/ FinishRefused(w))
    /\ SF_vars(MarkFailed(w))

FairSpec == Spec /\ Fairness

-----------------------------------------------------------------------------
(* Safety *)

(* A running job has exactly one live owner, unless its worker died: then it
   has none and never will.  Two live workers never own the same job, and a
   worker never owns a job the table does not show as running (so neither
   terminal UPDATE ever finds rowcount 0).  store.py:115-195. *)
Ownership ==
  /\ \A w \in Workers :
       pc[w] \in Owning => /\ cur[w] \in Jobs \ lost
                          /\ row[cur[w]].state = "running"
  /\ \A v, w \in Workers :
       /\ pc[v] \in Owning /\ pc[w] \in Owning
       /\ cur[v] = cur[w]
       => v = w
  /\ \A j \in Jobs :
       row[j].state = "running" =>
         j \in lost \/ \E w \in Workers : pc[w] \in Owning /\ cur[w] = j

(* "Worker restart must not silently duplicate a running job"
   (SYSTEM_BOUNDARIES.md:36): whatever dies and restarts, a job is moved to
   running at most once, and not at all while it is absent or queued. *)
StartedAtMostOnce ==
  \A j \in Jobs :
    claims[j] = IF row[j].state \in {"absent", "queued"} THEN 0 ELSE 1

(* What BEGIN IMMEDIATE buys: between the SELECT and the UPDATE of a claim the
   selected row cannot change, so the conditional UPDATE always finds it and
   the ROLLBACK branch (store.py:145-147) is only a second guard. *)
SelectionIsFresh ==
  \A w \in Workers : pc[w] = "selected" => writer = w /\ Oldest(cur[w])

(* A terminal row holds the answer for its own job, in the column its state
   calls for; a row that is not terminal holds none; and a job whose wind is
   refused never carries an engine answer.  Hence GET result never finds a
   terminal job without a result (service.py:84-85). *)
AnswerFitsState ==
  \A j \in Jobs :
    /\ ResultView(j) # "500 no result"
    /\ row[j].result # Nobody =>
         /\ row[j].result.job = j
         /\ row[j].error = Nobody
         /\ row[j].state = IF row[j].result.outcome = "timed_out"
                           THEN "timed_out" ELSE "completed"
         /\ j \in Windy => row[j].result.outcome = "infeasible"
    /\ row[j].error # Nobody => row[j].error.job = j
    /\ (row[j].error # Nobody) = (row[j].state = "failed")

(* Jobs leave the queue in the order they were submitted, across all workers
   and whatever fails in between. *)
FirstComeFirstServed ==
  \A j, k \in Jobs :
    /\ ~ Absent(j) /\ ~ Absent(k)
    /\ row[j].created < row[k].created
    /\ ~ Claimable(k)
    => ~ Claimable(j)

(* The rest of the inductive invariant that JobBackendProofs needs. *)

(* The write lock is held by the worker inside a claim, and by nobody else. *)
LockHolder ==
  \A w \in Workers : (writer = w) <=> (pc[w] \in {"claiming", "selected"})

(* What each worker holds at each point of run_once. *)
WorkerState ==
  \A w \in Workers :
    /\ pc[w] \in Owning \cup {"selected"} => cur[w] \in Jobs
    /\ pc[w] = "solving" => cur[w] \notin Windy
    /\ pc[w] = "answered" =>
         /\ resp[w] \in [job : Jobs \cup {Unknown}, outcome : Outcomes]
         /\ cur[w] \in Windy => resp[w].outcome = "infeasible"

LostIsRunning == \A j \in lost : row[j].state = "running"

(* created_at grows with every submission, and the stamp of the request in
   progress is above that of every row. *)
Stamps ==
  /\ \A j \in Jobs : ~ Absent(j) => row[j].created <= clock
  /\ api.phase # "idle" => api.job \in Jobs
  /\ api.phase = "stamped" =>
       /\ api.stamp = clock
       /\ \A j \in Jobs : ~ Absent(j) => row[j].created < clock

IInv ==
  /\ TypeOK /\ LockHolder /\ WorkerState /\ LostIsRunning /\ Stamps
  /\ Ownership /\ StartedAtMostOnce /\ SelectionIsFresh
  /\ AnswerFitsState /\ FirstComeFirstServed

-----------------------------------------------------------------------------
(* What a step may never do *)

(* SIGTERM is graceful: a worker goes away of its own accord only between two
   jobs; only a fault takes it from a job it owns (worker.py:55-56, "The
   current job finishes before the stop flag is observed"). *)
StopIsGraceful ==
  [][\A w \in Workers :
       pc[w] \in Owning /\ cur'[w] # cur[w] =>
         \/ row'[cur[w]].state \in Terminal
         \/ faults' > faults]_vars

(* The browser polls status and result in separate requests: once a job is
   terminal, no step changes its row, so the two always agree. *)
TerminalIsFinal ==
  [][\A j \in Jobs : row[j].state \in Terminal => row'[j] = row[j]]_vars

-----------------------------------------------------------------------------
(* Liveness *)

(* Every accepted job is decided as long as some worker stays up in the end,
   unless a fault took the worker that owned it: that job stays `running' (there
   is no recovery, PROJECT_DOCUMENTATION.md:142), and no other job waits behind
   it. *)
EveryJobDecided ==
  (\E w \in Workers : <>[](pc[w] \in Alive)) =>
    \A j \in Jobs :
      row[j].state = "queued" ~> row[j].state \in Terminal \/ j \in lost

-----------------------------------------------------------------------------
(* Refinement: the table is the abstract lifecycle. *)

AnswerOf(r) ==
  IF r.result # Nobody THEN r.result.outcome
  ELSE IF r.error # Nobody THEN r.error.outcome ELSE Nobody

Lifecycle == INSTANCE JobLifecycle WITH
  None   <- Nobody,
  state  <- [j \in Jobs |-> row[j].state],
  answer <- [j \in Jobs |-> AnswerOf(row[j])]

(* Every step of API, store and workers is a step of the promised lifecycle, or
   does not show in it. *)
ImplementsLifecycle == Lifecycle!Spec

=============================================================================
