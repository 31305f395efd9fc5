---------------------------- MODULE FrontendPoll ----------------------------
(***************************************************************************)
(* The browser form of apps/web: handleSubmit of App.tsx, the              *)
(* RequestCoordinator and pollJobLifecycle of api.ts, against a backend    *)
(* that keeps the promise of JobLifecycle.                                 *)
(*                                                                         *)
(* Every press of the submit button starts a run, numbered by the          *)
(* coordinator's generation: post the job, ask for its status until it is  *)
(* terminal, fetch the result.  A new run aborts the one before it.  An    *)
(* abort may come too late: a response whose body has been read already    *)
(* still resolves the promise, so a run that was replaced can go on for    *)
(* one more step.  Requests may fail at any time.                          *)
(***************************************************************************)
EXTENDS Naturals, Sequences, SequencesExt, Functions

CONSTANTS
  Jobs,            \* the identifiers the backend may assign
  None,            \* "nothing", not a job, a status or an answer
  MaxGenerations   \* bound: how often the form is submitted

ASSUME GenerationsAssumption == MaxGenerations \in Nat

VARIABLES
  state, answer,   \* the backend's table, as JobLifecycle keeps it
  mounted,         \* the form is on the page
  generation,      \* RequestCoordinator.generation
  aborted,         \* the AbortSignal of each run
  phase,           \* where handleSubmit awaits in each run
  jobOf,           \* the job the backend created for each run's POST
  reply,           \* the response on its way to each run
  job,             \* React state: the JobStatus shown, with the run that set it
  observedStates,  \* React state: the states of the Lifecycle panel
  result,          \* React state: the result shown, with the run that set it
  error,           \* React state: an error is shown
  isSubmitting,    \* React state: the button is disabled
  isPolling        \* React state: the polling indicator

backend == <<state, answer>>
requests == <<mounted, generation, aborted, phase, jobOf, reply>>
screen == <<job, observedStates, result, error, isSubmitting, isPolling>>
vars == <<backend, requests, screen>>

Backend == INSTANCE JobLifecycle

Generations == 1 .. MaxGenerations

(* None is none of the values it stands beside. *)
ASSUME NoneAssumption ==
  /\ None \notin Jobs \cup Backend!Answers \cup Backend!States
                    \cup {"result_not_ready"}
  /\ None \notin [of : Generations, state : Backend!States]
  /\ None \notin [of : Generations, answer : Backend!Answers]

InFlight == {"posting", "asking", "fetching"}
Live == InFlight \cup {"waiting"}

(* States a browser can be told of. *)
Visible == Backend!States \ {"absent"}

TypeOK ==
  /\ Backend!TypeOK
  /\ mounted \in BOOLEAN
  /\ generation \in 0 .. MaxGenerations + 1
  /\ aborted \in [Generations -> BOOLEAN]
  /\ phase \in [Generations -> Live \cup {"idle", "over"}]
  /\ jobOf \in [Generations -> Jobs \cup {None}]
  /\ reply \in [Generations -> Visible \cup Backend!Answers
                               \cup {"result_not_ready", None}]
  /\ job \in [of : Generations, state : Visible] \cup {None}
  /\ observedStates \in Seq(Visible) /\ IsInjective(observedStates)
  /\ result \in [of : Generations, answer : Backend!Answers] \cup {None}
  /\ error \in BOOLEAN
  /\ isSubmitting \in BOOLEAN
  /\ isPolling \in BOOLEAN

Init ==
  /\ Backend!Init
  /\ mounted = TRUE
  /\ generation = 0
  /\ aborted = [g \in Generations |-> FALSE]
  /\ phase = [g \in Generations |-> "idle"]
  /\ jobOf = [g \in Generations |-> None]
  /\ reply = [g \in Generations |-> None]
  /\ job = None
  /\ observedStates = <<>>
  /\ result = None
  /\ error = FALSE
  /\ isSubmitting = FALSE
  /\ isPolling = FALSE

-----------------------------------------------------------------------------
(* RequestCoordinator *)

IsCurrent(g) == g = generation

(* Mutant: the old controller is not aborted. *)
AbortPrevious_Forgotten == UNCHANGED aborted

AbortPrevious ==
  aborted' = [g \in Generations |-> aborted[g] \/ IsCurrent(g)]

Advance ==
  /\ AbortPrevious
  /\ generation' = generation + 1

-----------------------------------------------------------------------------
(* The button *)

(* Mutant: the last result stays while the next job is computed. *)
ClearScreen_KeepsResult ==
  /\ job' = None
  /\ observedStates' = <<>>
  /\ UNCHANGED result

(* The resets at the top of handleSubmit (the error is set by its callers). *)
ClearScreen ==
  /\ job' = None
  /\ observedStates' = <<>>
  /\ result' = None

(* The button is disabled while a submission is under way. *)
CanSubmit == mounted /\ ~isSubmitting /\ generation < MaxGenerations

(* handleSubmit up to its first await. *)
Submit ==
  /\ CanSubmit
  /\ Advance
  /\ ClearScreen
  /\ error' = FALSE
  /\ isSubmitting' = TRUE
  /\ isPolling' = FALSE
  /\ phase' = [phase EXCEPT ![generation + 1] = "posting"]
  /\ UNCHANGED <<backend, mounted, jobOf, reply>>

(* validateScenarioInputs or buildPrototypeScenario throws: the run before it
   has been aborted and its screen cleared all the same. *)
SubmitInvalid ==
  /\ CanSubmit
  /\ Advance
  /\ ClearScreen
  /\ error' = TRUE
  /\ isSubmitting' = FALSE
  /\ isPolling' = FALSE
  /\ phase' = [phase EXCEPT ![generation + 1] = "over"]
  /\ UNCHANGED <<backend, mounted, jobOf, reply>>

(* The component is unmounted: coordinator.cancel(). *)
Unmount ==
  /\ mounted
  /\ mounted' = FALSE
  /\ Advance
  /\ UNCHANGED <<backend, phase, jobOf, reply, screen>>

-----------------------------------------------------------------------------
(* The backend's side of a request.  An abort does not recall a request that
   has been sent. *)

(* POST: the INSERT. *)
ServePost(g) ==
  /\ phase[g] = "posting"
  /\ jobOf[g] = None
  /\ \E j \in Jobs :
       /\ Backend!Submit(j)
       /\ jobOf' = [jobOf EXCEPT ![g] = j]
  /\ UNCHANGED <<mounted, generation, aborted, phase, reply, screen>>

Reply(g, r) ==
  /\ reply[g] = None
  /\ reply' = [reply EXCEPT ![g] = r]
  /\ UNCHANGED <<backend, mounted, generation, aborted, phase, jobOf, screen>>

(* POST: the row is read again for the 202.  GET: the row's state. *)
ServeStatus(g) ==
  /\ phase[g] \in {"posting", "asking"}
  /\ jobOf[g] # None
  /\ Reply(g, state[jobOf[g]])

(* GET .../result: the answer, or 409 while there is none. *)
ServeResult(g) ==
  /\ phase[g] = "fetching"
  /\ Reply(g, IF answer[jobOf[g]] = None THEN "result_not_ready"
              ELSE answer[jobOf[g]])

-----------------------------------------------------------------------------
(* The browser's side *)

(* The next await of a run; fetch rejects at once when the signal is aborted. *)
Proceed(g, next) ==
  /\ phase' = [phase EXCEPT ![g] = IF aborted[g] THEN "over" ELSE next]
  /\ reply' = [reply EXCEPT ![g] = None]
  /\ UNCHANGED <<backend, mounted, generation, aborted, jobOf>>

End(g) ==
  /\ phase' = [phase EXCEPT ![g] = "over"]
  /\ reply' = [reply EXCEPT ![g] = None]
  /\ UNCHANGED <<backend, mounted, generation, aborted, jobOf>>

(* The onStatus callback handed to pollJobLifecycle. *)
OnStatus(g, s) ==
  IF IsCurrent(g)
    THEN /\ job' = [of |-> g, state |-> s]
         /\ observedStates' = IF Contains(observedStates, s) THEN observedStates
                              ELSE Append(observedStates, s)
         /\ UNCHANGED <<result, error, isSubmitting, isPolling>>
    ELSE UNCHANGED screen

(* Mutant: every run that ends takes the indicators down. *)
Finally_Unguarded(g) == isSubmitting' = FALSE /\ isPolling' = FALSE

(* The finally block. *)
Finally(g) ==
  IF IsCurrent(g)
    THEN isSubmitting' = FALSE /\ isPolling' = FALSE
    ELSE UNCHANGED <<isSubmitting, isPolling>>

(* submitFromEditors resolves. *)
TakePost(g) ==
  /\ phase[g] = "posting"
  /\ reply[g] # None
  /\ IF IsCurrent(g)
       THEN /\ job' = [of |-> g, state |-> reply[g]]
            /\ observedStates' = <<reply[g]>>
            /\ isSubmitting' = FALSE
            /\ isPolling' = TRUE
            /\ UNCHANGED <<result, error>>
            /\ Proceed(g, "asking")
       ELSE UNCHANGED screen /\ End(g)

(* Mutant: only a completed job ends the poll. *)
IsTerminalState_Completed(s) == s = "completed"

IsTerminalState(s) == s \in Backend!Terminal

(* getJob resolves. *)
TakeStatus(g) ==
  /\ phase[g] = "asking"
  /\ reply[g] # None
  /\ OnStatus(g, reply[g])
  /\ IF IsTerminalState(reply[g])
       THEN Proceed(g, "fetching")
       ELSE /\ phase' = [phase EXCEPT ![g] = "waiting"]
            /\ reply' = [reply EXCEPT ![g] = None]
            /\ UNCHANGED <<backend, mounted, generation, aborted, jobOf>>

(* The poll interval is over and throwIfAborted does not throw (Cancelled is
   the other case). *)
Wake(g) ==
  /\ phase[g] = "waiting"
  /\ ~aborted[g]
  /\ Proceed(g, "asking")
  /\ UNCHANGED screen

(* Mutant: the result of whatever run arrives last is shown. *)
SetResult_Unguarded(g, a) == result' = [of |-> g, answer |-> a]

SetResult(g, a) ==
  result' = IF IsCurrent(g) THEN [of |-> g, answer |-> a] ELSE result

(* getJobResult resolves with a result. *)
TakeResult(g) ==
  /\ phase[g] = "fetching"
  /\ reply[g] \in Backend!Answers
  /\ SetResult(g, reply[g])
  /\ Finally(g)
  /\ UNCHANGED <<job, observedStates, error>>
  /\ End(g)

(* A request fails (no network, an HTTP error, JSON that is refused) at any
   time after it was sent, or the result was asked for too early. *)
Fail(g) ==
  /\ phase[g] \in InFlight
  /\ error' = (error \/ IsCurrent(g))
  /\ Finally(g)
  /\ UNCHANGED <<job, observedStates, result>>
  /\ End(g)

(* The awaited promise rejects with AbortError. *)
Cancelled(g) ==
  /\ phase[g] \in Live
  /\ aborted[g]
  /\ Finally(g)
  /\ UNCHANGED <<job, observedStates, result, error>>
  /\ End(g)

Serve(g) == ServePost(g) \/ ServeStatus(g) \/ ServeResult(g)
Take(g) == TakePost(g) \/ TakeStatus(g) \/ TakeResult(g)

(* A worker takes or decides a job. *)
Work ==
  /\ \E j \in Jobs :
       Backend!Start(j) \/ \E a \in Backend!Answers : Backend!Finish(j, a)
  /\ UNCHANGED <<requests, screen>>

Next ==
  \/ Submit \/ SubmitInvalid \/ Unmount \/ Work
  \/ \E g \in Generations :
       Serve(g) \/ Take(g) \/ Wake(g) \/ Fail(g) \/ Cancelled(g)

Spec == Init /\ [][Next]_vars

(* The backend answers a request it has got, the browser's event loop runs
   what is ready, the timer fires.  Nobody has to press the button, requests
   need not fail, and workers need not take or decide any job. *)
FairSpec ==
  /\ Spec
  /\ \A g \in Generations :
       /\ WF_vars(Serve(g))
       /\ WF_vars(Take(g))
       /\ WF_vars(Wake(g))
       /\ WF_vars(Cancelled(g))

-----------------------------------------------------------------------------
(* Safety *)

(* What the form shows was set by the submission pressed last: a status or a
   result of a run that was replaced never reaches the screen, however late
   its response is (the isCurrent tests of handleSubmit). *)
ScreenIsCurrent ==
  mounted => /\ job # None => job.of = generation
             /\ result # None => result.of = generation

(* A result on the screen is the backend's answer for the job whose status is
   shown beside it, and that status is the one the answer leads to: the panel
   never says `infeasible' under a job that `timed out' (the status and the
   result come from two requests). *)
ResultFitsStatus ==
  result # None =>
    /\ job # None
    /\ job.state = Backend!StateOf(result.answer)
    /\ result.answer = answer[jobOf[job.of]]

(* The indicators tell the truth about the current run: the button is disabled
   exactly while its POST is under way, the polling line is shown exactly while
   it polls.  A run that was replaced and ends late does not take them down
   (the finally block). *)
IndicatorsAreTrue ==
  (mounted /\ generation > 0) =>
    /\ isSubmitting <=> phase[generation] = "posting"
    /\ isPolling <=> phase[generation] \in Live \ {"posting"}

(* The result is never asked for before the backend holds it: the 409
   result_not_ready of GET .../result is never provoked by the form
   (pollJobLifecycle fetches only after a terminal status). *)
NeverTooEarly == \A g \in Generations : reply[g] # "result_not_ready"

Rank(s) == IF s \in Backend!Terminal THEN 3 ELSE IF s = "running" THEN 2 ELSE 1

(* What the safety properties rest on.  Turns: the runs behind the current one
   are aborted, those ahead have not begun, and after the unmount none is
   current. *)
Turns ==
  /\ mounted => generation \in 0 .. MaxGenerations
  /\ \A g \in Generations :
       /\ aborted[g] <=> g < generation
       /\ (g > generation \/ (g = generation /\ ~mounted)) => phase[g] = "idle"

(* The backend's row: a terminal state is the one its answer leads to. *)
RowsAgree ==
  \A j \in Jobs :
    /\ answer[j] # None <=> state[j] \in Backend!Terminal
    /\ answer[j] # None => state[j] = Backend!StateOf(answer[j])

(* A response under way was true when it was sent: the job's state has not
   gone back since, and a terminal one is still the job's. *)
ReplyHolds(g) ==
  /\ phase[g] \in {"asking", "waiting", "fetching"} => jobOf[g] # None
  /\ jobOf[g] # None => state[jobOf[g]] # "absent"
  /\ reply[g] # None => phase[g] \in InFlight /\ jobOf[g] # None
  /\ (reply[g] # None /\ phase[g] # "fetching") =>
       /\ reply[g] \in Visible
       /\ Rank(reply[g]) <= Rank(state[jobOf[g]])
       /\ reply[g] \in Backend!Terminal => reply[g] = state[jobOf[g]]
  /\ phase[g] = "fetching" =>
       /\ answer[jobOf[g]] # None
       /\ reply[g] \in {None, answer[jobOf[g]]}

RepliesHold == \A g \in Generations : ReplyHolds(g)

(* The status shown is one the job has had, no later than the response under
   way, and final once the result is being fetched. *)
StatusHolds ==
  /\ job # None => jobOf[job.of] # None
  /\ (mounted /\ generation = 0) => job = None /\ result = None
  /\ (mounted /\ generation > 0) =>
       /\ phase[generation] = "posting" => job = None
       /\ phase[generation] \in {"asking", "waiting", "fetching"} => job # None
       /\ result # None => phase[generation] = "over"
       /\ job # None =>
            /\ Rank(job.state) <= Rank(state[jobOf[generation]])
            /\ (phase[generation] = "asking" /\ reply[generation] # None)
                 => Rank(job.state) <= Rank(reply[generation])
            /\ phase[generation] = "fetching"
                 => job.state = state[jobOf[generation]]

IInv ==
  /\ TypeOK /\ Turns /\ RowsAgree /\ RepliesHold /\ StatusHolds
  /\ ScreenIsCurrent /\ ResultFitsStatus /\ IndicatorsAreTrue

-----------------------------------------------------------------------------
(* Action properties *)

(* Only the current run sends requests: once the form was submitted again or
   unmounted, no further status or result of the old job is asked for. *)
OnlyCurrentAsks ==
  [][\A g \in Generations :
       (phase'[g] \in InFlight /\ phase'[g] # phase[g]) => g = generation']_vars

-----------------------------------------------------------------------------
(* Liveness *)

(* A decided job comes to the screen: while it is polled and has been decided,
   its result, an error, or the next submission follows (pollJobLifecycle ends
   at every terminal state). *)
DecidedIsShown ==
  \A g \in Generations :
    (phase[g] = "asking" /\ jobOf[g] # None /\ answer[jobOf[g]] # None)
      ~> (generation # g \/ (~isPolling /\ (result # None \/ error)))

(* A run that was replaced or whose form is gone stops, also when its job is
   never decided. *)
ReplacedRunStops ==
  \A g \in Generations :
    (phase[g] \in Live /\ g # generation) ~> (phase[g] = "over")

=============================================================================
