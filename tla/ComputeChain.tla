---------------------------- MODULE ComputeChain ----------------------------
(***************************************************************************)
(* One engine call, from the worker to the solver process and back:        *)
(*                                                                         *)
(*   worker --HTTP--> listener --spawn--> CLI --spawn--> solver            *)
(*   adapter.py       http_server.py      runner.py      core.py           *)
(*   client timeout   deadline            timeout        time limit        *)
(*                                                                         *)
(* Each level has a deadline of its own, longer than the one below it.     *)
(* The listener admits one call at a time with a file lock; the CLI puts   *)
(* the solver in a session of its own and kills that process group; the    *)
(* listener's deadline kills the CLI and nothing else.                     *)
(*                                                                         *)
(* Time is discrete.  Every armed timer counts down at a Tick; a timer at  *)
(* zero fires before time goes on, and so do the steps that take no time   *)
(* at this scale (Urgent).  Solvers may take any time, or never end.       *)
(* Requests the listener rejects before the lock (404, 401, 400) and a     *)
(* misconfigured adapter change nothing and are left out, and so is a CLI  *)
(* that is killed from outside after it has spawned its solver.            *)
(***************************************************************************)
EXTENDS Naturals, FiniteSets

CONSTANTS
  Jobs,           \* engine calls; a job is claimed, hence sent, at most once
  Workers,        \* worker processes, each with at most one call in progress
  Free,           \* "no job", "nothing said yet"
  Limit,          \* optimization.time_limit_seconds
  Slack,          \* WRAPPER_SLACK_SECONDS
  Buffer,         \* _CLI_BUFFER_SECONDS
  Grace,          \* TERM_GRACE_SECONDS
  ClientTimeout,  \* COMPUTE_TIMEOUT_SECONDS of each worker's environment
  StartMax,       \* the longest the CLI takes to spawn the solver
  MaxBreaks       \* bound: calls and replies lost, listener restarts

ASSUME ChainAssumption ==
  /\ Free \notin Jobs
  /\ {Limit, Slack, Buffer, Grace, StartMax, MaxBreaks} \subseteq Nat
  /\ ClientTimeout \in [Workers -> Nat]

CliBudget == Limit + Slack

ListenerBudget == CliBudget + Buffer

VARIABLES
  call,          \* the job each worker waits for, or Free
  answer,        \* the outcome the adapter returned for each job
  handler,       \* the listener's thread for each job
  lock,          \* the job whose handler holds the file lock
  reply,         \* what that thread is about to send
  cli,           \* the CLI process of each job
  solver,        \* the solver process of each job
  said,          \* what the solver wrote before it ended
  clientLeft,    \* time left on the adapter's timeout
  listenerLeft,  \* time left on the listener's deadline
  cliLeft,       \* time left to the CLI's next deadline
  breaks         \* losses and listener restarts so far

timers == <<clientLeft, listenerLeft, cliLeft>>
vars == <<call, answer, handler, lock, reply, cli, solver, said,
          clientLeft, listenerLeft, cliLeft, breaks>>

Outcomes == {"feasible", "infeasible", "timed_out", "error"}

(* What the worker gets from solve: an outcome, or an exception. *)
Answers == Outcomes \cup {"raised"}

(* What a solver leaves behind: a response the CLI accepts, or output it does
   not accept (bad JSON, another job_id, a nonzero exit status). *)
Sayings == Outcomes \cup {"garbage"}

ASSUME FreeIsNoAnswer == Free \notin Sayings \cup Answers

CliAlive == {"starting", "waiting", "stopping"}

TypeOK ==
  /\ call \in [Workers -> Jobs \cup {Free}]
  /\ answer \in [Jobs -> Answers \cup {Free}]
  /\ handler \in [Jobs -> {"none", "arrived", "running", "replying", "gone"}]
  /\ lock \in Jobs \cup {Free}
  /\ reply \in [Jobs -> Outcomes \cup {"busy", "closed", Free}]
  /\ cli \in [Jobs -> CliAlive \cup {"none", "exited", "killed"}]
  /\ solver \in [Jobs -> {"none", "running", "exited", "killed"}]
  /\ said \in [Jobs -> Sayings \cup {Free}]
  /\ clientLeft \in [Jobs -> Nat]
  /\ listenerLeft \in [Jobs -> 0 .. ListenerBudget]
  /\ cliLeft \in [Jobs -> Nat]
  /\ breaks \in 0 .. MaxBreaks

-----------------------------------------------------------------------------
(* The worker and its adapter *)

(* opener.open(http_request, timeout=timeout) *)
Post(w, j) ==
  /\ call[w] = Free
  /\ handler[j] = "none"
  /\ call' = [call EXCEPT ![w] = j]
  /\ handler' = [handler EXCEPT ![j] = "arrived"]
  /\ clientLeft' = [clientLeft EXCEPT ![j] = ClientTimeout[w]]
  /\ UNCHANGED <<answer, lock, reply, cli, solver, said, listenerLeft, cliLeft,
                 breaks>>

(* URLError: nothing listens, while the listener is down or being restarted. *)
Unreachable(w, j) ==
  /\ call[w] = Free
  /\ handler[j] = "none"
  /\ breaks < MaxBreaks
  /\ breaks' = breaks + 1
  /\ handler' = [handler EXCEPT ![j] = "gone"]
  /\ answer' = [answer EXCEPT ![j] = "error"]
  /\ UNCHANGED <<call, lock, reply, cli, solver, said, timers>>

(* What solve makes of what the listener sent.  HTTPError (503) is an error
   response; a connection closed before the status line is RemoteDisconnected,
   which urllib does not turn into a URLError and solve does not catch. *)
AdapterOutcome(r) ==
  IF r = "busy" THEN "error" ELSE IF r = "closed" THEN "raised" ELSE r

(* The response arrives and solve returns it; the handler is done. *)
Deliver(w) ==
  /\ call[w] # Free
  /\ handler[call[w]] = "replying"
  /\ answer' = [answer EXCEPT ![call[w]] = AdapterOutcome(reply[call[w]])]
  /\ handler' = [handler EXCEPT ![call[w]] = "gone"]
  /\ call' = [call EXCEPT ![w] = Free]
  /\ UNCHANGED <<lock, reply, cli, solver, said, timers, breaks>>

(* Mutant: no client timeout. *)
ClientTimesOut_Never(w) ==
  FALSE /\ UNCHANGED vars

(* TimeoutError: _adapter_timeout.  The listener is not told. *)
ClientTimesOut(w) ==
  /\ call[w] # Free
  /\ clientLeft[call[w]] = 0
  /\ answer' = [answer EXCEPT ![call[w]] = "timed_out"]
  /\ call' = [call EXCEPT ![w] = Free]
  /\ UNCHANGED <<handler, lock, reply, cli, solver, said, timers, breaks>>

-----------------------------------------------------------------------------
(* The listener *)

(* Mutant: the lock file is locked LOCK_SH. *)
Acquire_Shared(j) ==
  /\ handler[j] = "arrived"
  /\ lock' = j
  /\ handler' = [handler EXCEPT ![j] = "running"]
  /\ cli' = [cli EXCEPT ![j] = "starting"]
  /\ listenerLeft' = [listenerLeft EXCEPT ![j] = ListenerBudget]
  /\ cliLeft' = [cliLeft EXCEPT ![j] = StartMax]
  /\ UNCHANGED <<call, answer, reply, solver, said, clientLeft, breaks>>

(* do_POST: try_acquire succeeds, subprocess.run spawns the CLI. *)
Acquire(j) ==
  /\ handler[j] = "arrived"
  /\ lock = Free
  /\ lock' = j
  /\ handler' = [handler EXCEPT ![j] = "running"]
  /\ cli' = [cli EXCEPT ![j] = "starting"]
  /\ listenerLeft' = [listenerLeft EXCEPT ![j] = ListenerBudget]
  /\ cliLeft' = [cliLeft EXCEPT ![j] = StartMax]
  /\ UNCHANGED <<call, answer, reply, solver, said, clientLeft, breaks>>

(* try_acquire fails: 503 busy, at once. *)
Refuse(j) ==
  /\ handler[j] = "arrived"
  /\ lock # Free
  /\ handler' = [handler EXCEPT ![j] = "replying"]
  /\ reply' = [reply EXCEPT ![j] = "busy"]
  /\ UNCHANGED <<call, answer, lock, cli, solver, said, timers, breaks>>

(* Mutant: the lock file is closed by nobody. *)
Conclude_KeepsLock(j, r) ==
  /\ handler' = [handler EXCEPT ![j] = "replying"]
  /\ reply' = [reply EXCEPT ![j] = r]
  /\ lock' = lock

(* The handler of j has its payload r: the finally clause releases the lock,
   and only then is the response sent. *)
Conclude(j, r) ==
  /\ handler' = [handler EXCEPT ![j] = "replying"]
  /\ reply' = [reply EXCEPT ![j] = r]
  /\ lock' = Free

(* Mutant: a stopped solver is reported infeasible. *)
ReadCli_TimeoutIsInfeasible(j) ==
  /\ handler[j] = "running"
  /\ cli[j] = "exited"
  /\ Conclude(j, IF solver[j] = "killed" THEN "infeasible"
                 ELSE IF said[j] \in Outcomes THEN said[j] ELSE "error")
  /\ UNCHANGED <<call, answer, cli, solver, said, timers, breaks>>

(* The CLI exited in time; what it wrote is what the solver said, if the CLI
   accepted it, or timed_out, if the CLI stopped the solver.  Everything else,
   a CLI that wrote no response included, is an error. *)
ReadCli(j) ==
  /\ handler[j] = "running"
  /\ cli[j] = "exited"
  /\ Conclude(j, IF solver[j] = "killed" THEN "timed_out"
                 ELSE IF said[j] \in Outcomes THEN said[j] ELSE "error")
  /\ UNCHANGED <<call, answer, cli, solver, said, timers, breaks>>

(* Mutant: the release is not in a finally clause and the deadline skips it. *)
ListenerDeadline_KeepsLock(j) ==
  /\ handler[j] = "running"
  /\ listenerLeft[j] = 0
  /\ cli[j] \in CliAlive
  /\ cli' = [cli EXCEPT ![j] = "killed"]
  /\ handler' = [handler EXCEPT ![j] = "replying"]
  /\ reply' = [reply EXCEPT ![j] = "timed_out"]
  /\ UNCHANGED <<call, answer, lock, solver, said, timers, breaks>>

(* TimeoutExpired: subprocess.run kills the CLI.  The solver is in a session of
   its own and gets no signal. *)
ListenerDeadline(j) ==
  /\ handler[j] = "running"
  /\ listenerLeft[j] = 0
  /\ cli[j] \in CliAlive
  /\ cli' = [cli EXCEPT ![j] = "killed"]
  /\ Conclude(j, "timed_out")
  /\ UNCHANGED <<call, answer, solver, said, timers, breaks>>

(* The client is gone: BrokenPipeError ends the handler thread. *)
ReplyToNobody(j) ==
  /\ handler[j] = "replying"
  /\ \A w \in Workers : call[w] # j
  /\ handler' = [handler EXCEPT ![j] = "gone"]
  /\ UNCHANGED <<call, answer, lock, reply, cli, solver, said, timers, breaks>>

(* The reply never arrives: the host or the network is lost. *)
LoseReply(j) ==
  /\ handler[j] = "replying"
  /\ breaks < MaxBreaks
  /\ breaks' = breaks + 1
  /\ handler' = [handler EXCEPT ![j] = "gone"]
  /\ UNCHANGED <<call, answer, lock, reply, cli, solver, said, timers>>

(* The listener service stops and is started again: systemd ends every process
   of the service, the kernel drops the lock, the clients see their connections
   closed. *)
RestartListener ==
  /\ breaks < MaxBreaks
  /\ breaks' = breaks + 1
  /\ lock' = Free
  /\ handler' = [j \in Jobs |-> IF handler[j] \in {"none", "gone"}
                                THEN handler[j] ELSE "replying"]
  /\ reply' = [j \in Jobs |-> IF handler[j] \in {"none", "gone"}
                              THEN reply[j] ELSE "closed"]
  /\ cli' = [j \in Jobs |-> IF cli[j] \in CliAlive THEN "killed" ELSE cli[j]]
  /\ solver' = [j \in Jobs |-> IF solver[j] = "running" THEN "killed" ELSE solver[j]]
  /\ UNCHANGED <<call, answer, said, timers>>

-----------------------------------------------------------------------------
(* The CLI *)

(* run_solver: Popen(start_new_session=True), communicate(timeout). *)
SpawnSolver(j) ==
  /\ cli[j] = "starting"
  /\ cli' = [cli EXCEPT ![j] = "waiting"]
  /\ solver' = [solver EXCEPT ![j] = "running"]
  /\ cliLeft' = [cliLeft EXCEPT ![j] = CliBudget]
  /\ UNCHANGED <<call, answer, handler, lock, reply, said, clientLeft,
                 listenerLeft, breaks>>

(* execute rejects the request, or Popen raises: there is no solver. *)
CliFails(j) ==
  /\ cli[j] = "starting"
  /\ cli' = [cli EXCEPT ![j] = "exited"]
  /\ UNCHANGED <<call, answer, handler, lock, reply, solver, said, timers, breaks>>

(* communicate returns: the CLI writes its response and exits. *)
SolverSeen(j) ==
  /\ cli[j] = "waiting"
  /\ solver[j] = "exited"
  /\ cli' = [cli EXCEPT ![j] = "exited"]
  /\ UNCHANGED <<call, answer, handler, lock, reply, solver, said, timers, breaks>>

(* TimeoutExpired: SIGTERM to the solver's process group.  A solver that ended
   in the same instant is timed out as well. *)
CliTimesOut(j) ==
  /\ cli[j] = "waiting"
  /\ cliLeft[j] = 0
  /\ cli' = [cli EXCEPT ![j] = "stopping"]
  /\ cliLeft' = [cliLeft EXCEPT ![j] = Grace]
  /\ UNCHANGED <<call, answer, handler, lock, reply, solver, said, clientLeft,
                 listenerLeft, breaks>>

(* Mutant: the group gets SIGTERM only, and the CLI does not wait. *)
StopSolver_TermOnly(j) ==
  /\ cli[j] = "stopping"
  /\ cli' = [cli EXCEPT ![j] = "exited"]
  /\ UNCHANGED <<call, answer, handler, lock, reply, solver, said, timers, breaks>>

(* The solver ends within the grace period or gets SIGKILL after it; either way
   communicate reaps it before the CLI reports timed_out. *)
StopSolver(j) ==
  /\ cli[j] = "stopping"
  /\ solver' = [solver EXCEPT ![j] = "killed"]
  /\ cli' = [cli EXCEPT ![j] = "exited"]
  /\ UNCHANGED <<call, answer, handler, lock, reply, said, timers, breaks>>

-----------------------------------------------------------------------------
(* The solver: a response, a crash, or nothing for ever *)
SolverEnds(j) ==
  /\ solver[j] = "running"
  /\ solver' = [solver EXCEPT ![j] = "exited"]
  /\ \E s \in Sayings : said' = [said EXCEPT ![j] = s]
  /\ UNCHANGED <<call, answer, handler, lock, reply, cli, timers, breaks>>

-----------------------------------------------------------------------------
(* Time *)

Waiting(j) == \E w \in Workers : call[w] = j

Due(j) == \/ Waiting(j) /\ clientLeft[j] = 0
          \/ handler[j] = "running" /\ listenerLeft[j] = 0
          \/ cli[j] \in CliAlive /\ cliLeft[j] = 0

Urgent(j) == \/ handler[j] \in {"arrived", "replying"}
             \/ handler[j] = "running" /\ cli[j] = "exited"
             \/ cli[j] = "waiting" /\ solver[j] = "exited"

CountDown(left, armed) ==
  [j \in Jobs |-> IF armed[j] THEN left[j] - 1 ELSE left[j]]

Tick ==
  /\ \A j \in Jobs : ~ Due(j) /\ ~ Urgent(j)
  /\ \E j \in Jobs : Waiting(j) \/ handler[j] = "running" \/ cli[j] \in CliAlive
  /\ clientLeft' = CountDown(clientLeft, [j \in Jobs |-> Waiting(j)])
  /\ listenerLeft' = CountDown(listenerLeft, [j \in Jobs |-> handler[j] = "running"])
  /\ cliLeft' = CountDown(cliLeft, [j \in Jobs |-> cli[j] \in CliAlive])
  /\ UNCHANGED <<call, answer, handler, lock, reply, cli, solver, said, breaks>>

-----------------------------------------------------------------------------
Init ==
  /\ call = [w \in Workers |-> Free]
  /\ answer = [j \in Jobs |-> Free]
  /\ handler = [j \in Jobs |-> "none"]
  /\ lock = Free
  /\ reply = [j \in Jobs |-> Free]
  /\ cli = [j \in Jobs |-> "none"]
  /\ solver = [j \in Jobs |-> "none"]
  /\ said = [j \in Jobs |-> Free]
  /\ clientLeft = [j \in Jobs |-> 0]
  /\ listenerLeft = [j \in Jobs |-> 0]
  /\ cliLeft = [j \in Jobs |-> 0]
  /\ breaks = 0

Client(w) == Deliver(w) \/ ClientTimesOut(w)

Listener(j) == \/ Acquire(j) \/ Refuse(j) \/ ReadCli(j)
               \/ ListenerDeadline(j) \/ ReplyToNobody(j)

Cli(j) == \/ SpawnSolver(j) \/ CliFails(j) \/ SolverSeen(j)
          \/ CliTimesOut(j) \/ StopSolver(j)

Next ==
  \/ \E w \in Workers : Client(w) \/ \E j \in Jobs : Post(w, j) \/ Unreachable(w, j)
  \/ \E j \in Jobs : Listener(j) \/ Cli(j) \/ SolverEnds(j) \/ LoseReply(j)
  \/ RestartListener
  \/ Tick

Spec == Init /\ [][Next]_vars

(* Processes that can run do run, and time passes.  The solver owes nothing. *)
Fairness ==
  /\ \A w \in Workers : WF_vars(Client(w))
  /\ \A j \in Jobs : WF_vars(Listener(j)) /\ WF_vars(Cli(j))
  /\ WF_vars(Tick)

FairSpec == Spec /\ Fairness

-----------------------------------------------------------------------------
(* Properties *)

(* At most one call is served: whoever runs a CLI is the handler that holds the
   lock, and the lock has no other holder (do_POST's try/finally). *)
SlotExclusive ==
  \A j \in Jobs : /\ handler[j] = "running" <=> lock = j
                  /\ cli[j] \in CliAlive => lock = j

(* Through four processes an answer is never embellished: a worker is told
   feasible or infeasible only if the solver of that very job said so, and timed
   out only if the solver said so, the CLI stopped it, or a deadline passed
   ("Timeout is distinct from infeasible"). *)
TruthfulAnswer ==
  \A j \in Jobs :
    /\ answer[j] \in {"feasible", "infeasible"} => said[j] = answer[j]
    /\ answer[j] = "timed_out" =>
         \/ said[j] = "timed_out"
         \/ solver[j] = "killed"
         \/ clientLeft[j] = 0
         \/ listenerLeft[j] = 0

(* "Solver exceeded the wrapper timeout and was terminated": once a CLI has
   reported, its solver is gone.  A solver runs without its CLI only when the
   listener's deadline killed the CLI. *)
StoppedBeforeReported ==
  \A j \in Jobs : solver[j] = "running" =>
    \/ cli[j] = "waiting" \/ cli[j] = "stopping"
    \/ cli[j] = "killed" /\ listenerLeft[j] = 0

(* The rest of the inductive invariant that ComputeChainProofs needs: how far
   the CLI and the solver of a call can be at each stage of its handler. *)
Stages ==
  \A j \in Jobs :
    /\ handler[j] \in {"none", "arrived"} => cli[j] = "none" /\ solver[j] = "none"
    /\ cli[j] = "starting" => solver[j] = "none"
    /\ cli[j] = "killed" => handler[j] \in {"replying", "gone"}

IInv == TypeOK /\ SlotExclusive /\ Stages /\ StoppedBeforeReported

(* "One in-flight compute job on the listener": never two solvers at once. *)
OneInFlight ==
  Cardinality({j \in Jobs : solver[j] = "running"}) <= 1

(* A worker that waits longer than the listener does leaves nothing behind: when
   it stops waiting for a call, the slot is not held for that call any more, so
   its next job cannot meet it. *)
PatientLeavesNothing ==
  [][\A w \in Workers :
       (ClientTimeout[w] > ListenerBudget /\ call[w] # Free /\ call'[w] # call[w])
         => lock' # call[w]]_vars

(* A worker is never left waiting, whatever the solver, the listener or the
   network does: the adapter's own timeout sees to it. *)
EveryCallAnswered ==
  \A w \in Workers : \A j \in Jobs : call[w] = j ~> call[w] # j

(* The slot is always given back, also when the solver hangs or the CLI is
   late: no call can make the listener busy for ever. *)
SlotFreed ==
  \A j \in Jobs : lock = j ~> lock # j

=============================================================================
