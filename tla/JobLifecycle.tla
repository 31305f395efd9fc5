---------------------------- MODULE JobLifecycle ----------------------------
(***************************************************************************)
(* What the backend promises about a job, whoever computes it:             *)
(*                                                                         *)
(*     queued -> running -> completed | failed | timed_out                 *)
(*                                                                         *)
(* A job is started at most once, and its terminal state and its answer    *)
(* are written together, once.  This is the lifecycle the `jobs' table of  *)
(* backend/store.py keeps and that the browser polls.  JobBackend          *)
(* implements it; FrontendPoll uses it as its environment.                 *)
(***************************************************************************)
CONSTANTS
  Jobs,     \* the job identifiers
  None      \* "no answer yet", not one of Answers

VARIABLES
  state,    \* the lifecycle state of each job
  answer    \* what the engine (or the worker, "exception") answered for it

vars == <<state, answer>>

Answers == {"feasible", "infeasible", "timed_out", "error", "exception"}

Terminal == {"completed", "failed", "timed_out"}

States == {"absent", "queued", "running"} \cup Terminal

(* The lifecycle state an answer leads to (SQLiteJobStore.finish_with_response
   and mark_failed). *)
StateOf(a) ==
  CASE a \in {"feasible", "infeasible"} -> "completed"
    [] a = "timed_out"                  -> "timed_out"
    [] OTHER                            -> "failed"

TypeOK ==
  /\ state \in [Jobs -> States]
  /\ answer \in [Jobs -> Answers \cup {None}]

-----------------------------------------------------------------------------

Init ==
  /\ state = [j \in Jobs |-> "absent"]
  /\ answer = [j \in Jobs |-> None]

Submit(j) ==
  /\ state[j] = "absent"
  /\ state' = [state EXCEPT ![j] = "queued"]
  /\ UNCHANGED answer

Start(j) ==
  /\ state[j] = "queued"
  /\ state' = [state EXCEPT ![j] = "running"]
  /\ UNCHANGED answer

Finish(j, a) ==
  /\ state[j] = "running"
  /\ state' = [state EXCEPT ![j] = StateOf(a)]
  /\ answer' = [answer EXCEPT ![j] = a]

Next ==
  \E j \in Jobs : Submit(j) \/ Start(j) \/ \E a \in Answers : Finish(j, a)

Spec == Init /\ [][Next]_vars

=============================================================================
