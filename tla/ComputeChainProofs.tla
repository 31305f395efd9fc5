------------------------- MODULE ComputeChainProofs -------------------------
(***************************************************************************)
(* Proofs about ComputeChain for any jobs, any number of workers and any   *)
(* deadlines: the listener serves one call at a time, and a solver outlives *)
(* its CLI only when the listener's deadline killed the CLI.                *)
(***************************************************************************)
EXTENDS ComputeChain, TLAPS

(* Time keeps the types of the timers: no timer passes zero. *)
LEMMA TickType ==
  ASSUME TypeOK, Tick
  PROVE  TypeOK'
<1> USE ChainAssumption
<1>1. CliBudget \in Nat /\ ListenerBudget \in Nat
  BY DEF CliBudget, ListenerBudget
<1>2. ASSUME NEW j \in Jobs
      PROVE  /\ Waiting(j) => clientLeft[j] # 0
             /\ handler[j] = "running" => listenerLeft[j] # 0
             /\ cli[j] \in CliAlive => cliLeft[j] # 0
  BY DEF Tick, Due
<1>3. clientLeft' \in [Jobs -> Nat]
  <2>1. clientLeft' = [j \in Jobs |-> IF Waiting(j) THEN clientLeft[j] - 1
                                      ELSE clientLeft[j]]
    BY DEF Tick, CountDown
  <2>2. QED BY <1>1, <1>2, <2>1 DEF TypeOK
<1>4. listenerLeft' \in [Jobs -> 0 .. ListenerBudget]
  <2>1. listenerLeft' = [j \in Jobs |-> IF handler[j] = "running"
                                        THEN listenerLeft[j] - 1
                                        ELSE listenerLeft[j]]
    BY DEF Tick, CountDown
  <2>2. QED BY <1>1, <1>2, <2>1 DEF TypeOK
<1>5. cliLeft' \in [Jobs -> Nat]
  <2>1. cliLeft' = [j \in Jobs |-> IF cli[j] \in CliAlive THEN cliLeft[j] - 1
                                   ELSE cliLeft[j]]
    BY DEF Tick, CountDown
  <2>2. QED BY <1>2, <2>1 DEF TypeOK
<1>6. QED
  BY <1>3, <1>4, <1>5 DEF TypeOK, Tick

(* Every step keeps the types. *)
LEMMA TypeStep ==
  ASSUME TypeOK, [Next]_vars
  PROVE  TypeOK'
<1> USE ChainAssumption
<1>1. CliBudget \in Nat /\ ListenerBudget \in Nat
  BY DEF CliBudget, ListenerBudget
<1>2. ASSUME NEW w \in Workers, NEW j \in Jobs, Post(w, j) PROVE TypeOK'
  BY <1>2 DEF TypeOK, Post
<1>3. ASSUME NEW w \in Workers, Deliver(w) PROVE TypeOK'
  <2>1. call[w] \in Jobs /\ reply[call[w]] \in Outcomes \cup {"busy", "closed", Free}
    BY <1>3 DEF TypeOK, Deliver
  <2>2. AdapterOutcome(reply[call[w]]) \in Answers \cup {Free}
    BY <2>1 DEF AdapterOutcome, Answers, Outcomes
  <2>3. QED
    BY <1>3, <2>1, <2>2 DEF TypeOK, Deliver, timers
<1>4. ASSUME NEW w \in Workers, ClientTimesOut(w) PROVE TypeOK'
  BY <1>4 DEF TypeOK, ClientTimesOut, Answers, Outcomes, timers
<1>5. ASSUME NEW j \in Jobs, Listener(j) PROVE TypeOK'
  <2>1. CASE Acquire(j)
    BY <1>1, <2>1 DEF TypeOK, Acquire, CliAlive
  <2>2. CASE Refuse(j)
    BY <2>2 DEF TypeOK, Refuse, timers
  <2>3. CASE ReadCli(j)
    <3> DEFINE r == IF solver[j] = "killed" THEN "timed_out"
                    ELSE IF said[j] \in Outcomes THEN said[j] ELSE "error"
    <3>1. r \in Outcomes \cup {"busy", "closed", Free}
      BY DEF TypeOK, Sayings, Outcomes
    <3>2. Conclude(j, r) /\ UNCHANGED <<call, answer, cli, solver, said, timers, breaks>>
      BY <2>3 DEF ReadCli
    <3> HIDE DEF r
    <3>3. QED
      BY <3>1, <3>2 DEF TypeOK, Conclude, timers
  <2>4. CASE ListenerDeadline(j)
    BY <2>4 DEF TypeOK, ListenerDeadline, Conclude, Outcomes, timers
  <2>5. CASE ReplyToNobody(j)
    BY <2>5 DEF TypeOK, ReplyToNobody, timers
  <2>6. QED BY <1>5, <2>1, <2>2, <2>3, <2>4, <2>5 DEF Listener
<1>6. ASSUME NEW j \in Jobs, Cli(j) PROVE TypeOK'
  BY <1>1, <1>6 DEF TypeOK, Cli, SpawnSolver, CliFails, SolverSeen, CliTimesOut, StopSolver,
                    CliAlive, timers
<1>7. ASSUME NEW j \in Jobs, SolverEnds(j) \/ LoseReply(j) PROVE TypeOK'
  BY <1>7 DEF TypeOK, SolverEnds, LoseReply, timers
<1>8. CASE RestartListener
  BY <1>8 DEF TypeOK, RestartListener, CliAlive, timers
<1>9. CASE UNCHANGED vars
  BY <1>9 DEF TypeOK, vars, timers
<1>10. ASSUME NEW w \in Workers, NEW j \in Jobs, Unreachable(w, j) PROVE TypeOK'
  BY <1>10 DEF TypeOK, Unreachable, Answers, Outcomes, timers
<1>11. QED
  BY <1>2, <1>3, <1>4, <1>5, <1>6, <1>7, <1>8, <1>9, <1>10, TickType DEF Next, Client

(* Every step keeps the slot exclusive: the lock changes hands only when the
   handler that holds it has no CLI left. *)
LEMMA SlotStep ==
  ASSUME TypeOK, SlotExclusive, [Next]_vars
  PROVE  SlotExclusive'
<1> USE ChainAssumption
<1>1. CASE UNCHANGED <<handler, lock, cli>>
  BY <1>1 DEF SlotExclusive
<1>2. ASSUME NEW w \in Workers, NEW j \in Jobs, Post(w, j) PROVE SlotExclusive'
  BY <1>2 DEF TypeOK, SlotExclusive, Post
<1>3. ASSUME NEW w \in Workers, Deliver(w) PROVE SlotExclusive'
  BY <1>3 DEF TypeOK, SlotExclusive, Deliver
<1>4. ASSUME NEW j \in Jobs, Acquire(j) PROVE SlotExclusive'
  BY <1>4 DEF TypeOK, SlotExclusive, Acquire
<1>5. ASSUME NEW j \in Jobs, Refuse(j) \/ ReplyToNobody(j) \/ LoseReply(j)
      PROVE  SlotExclusive'
  BY <1>5 DEF TypeOK, SlotExclusive, Refuse, ReplyToNobody, LoseReply
<1>6. ASSUME NEW j \in Jobs, ReadCli(j) PROVE SlotExclusive'
  BY <1>6 DEF TypeOK, SlotExclusive, ReadCli, Conclude, CliAlive
<1>7. ASSUME NEW j \in Jobs, ListenerDeadline(j) PROVE SlotExclusive'
  BY <1>7 DEF TypeOK, SlotExclusive, ListenerDeadline, Conclude, CliAlive
<1>8. ASSUME NEW j \in Jobs, Cli(j) PROVE SlotExclusive'
  BY <1>8 DEF TypeOK, SlotExclusive, Cli, SpawnSolver, CliFails, SolverSeen, CliTimesOut,
              StopSolver, CliAlive
<1>9. CASE RestartListener
  BY <1>9 DEF TypeOK, SlotExclusive, RestartListener, CliAlive
<1>10. ASSUME NEW w \in Workers, NEW j \in Jobs, Unreachable(w, j) PROVE SlotExclusive'
  BY <1>10 DEF TypeOK, SlotExclusive, Unreachable
<1>11. QED
  BY <1>1, <1>2, <1>3, <1>4, <1>5, <1>6, <1>7, <1>8, <1>9, <1>10
  DEF Next, Client, Listener, ClientTimesOut, SolverEnds, Tick, vars

(* Every step keeps the stages of a call in order, and stops the solver before
   its CLI reports. *)
LEMMA StageStep ==
  ASSUME IInv, [Next]_vars
  PROVE  Stages' /\ StoppedBeforeReported'
<1> USE ChainAssumption DEF IInv
<1>1. CASE UNCHANGED <<handler, cli, solver, listenerLeft>>
  BY <1>1 DEF Stages, StoppedBeforeReported
<1>2. ASSUME NEW w \in Workers, NEW j \in Jobs, Post(w, j)
      PROVE  Stages' /\ StoppedBeforeReported'
  BY <1>2 DEF TypeOK, Stages, StoppedBeforeReported, Post
<1>3. ASSUME NEW w \in Workers, Deliver(w)
      PROVE  Stages' /\ StoppedBeforeReported'
  BY <1>3 DEF TypeOK, Stages, StoppedBeforeReported, Deliver, timers
<1>4. ASSUME NEW j \in Jobs, Acquire(j)
      PROVE  Stages' /\ StoppedBeforeReported'
  BY <1>4 DEF TypeOK, Stages, StoppedBeforeReported, Acquire
<1>5. ASSUME NEW j \in Jobs, Refuse(j) \/ ReplyToNobody(j) \/ LoseReply(j)
      PROVE  Stages' /\ StoppedBeforeReported'
  BY <1>5 DEF TypeOK, Stages, StoppedBeforeReported, Refuse, ReplyToNobody,
              LoseReply, timers
<1>6. ASSUME NEW j \in Jobs, ReadCli(j)
      PROVE  Stages' /\ StoppedBeforeReported'
  BY <1>6 DEF TypeOK, Stages, StoppedBeforeReported, ReadCli, Conclude, timers
<1>7. ASSUME NEW j \in Jobs, ListenerDeadline(j)
      PROVE  Stages' /\ StoppedBeforeReported'
  BY <1>7 DEF TypeOK, Stages, StoppedBeforeReported, ListenerDeadline, Conclude,
              timers
<1>8. ASSUME NEW j \in Jobs, Cli(j)
      PROVE  Stages' /\ StoppedBeforeReported'
  BY <1>8 DEF TypeOK, Stages, StoppedBeforeReported, Cli, SpawnSolver, CliFails, SolverSeen,
              CliTimesOut, StopSolver, timers
<1>9. ASSUME NEW j \in Jobs, SolverEnds(j)
      PROVE  Stages' /\ StoppedBeforeReported'
  BY <1>9 DEF TypeOK, Stages, StoppedBeforeReported, SolverEnds, timers
<1>10. CASE RestartListener
  BY <1>10 DEF TypeOK, SlotExclusive, Stages, StoppedBeforeReported,
               RestartListener, CliAlive, timers
<1>11. CASE Tick
  <2>1. UNCHANGED <<handler, cli, solver>>
    BY <1>11 DEF Tick
  <2>2. \A j \in Jobs : handler[j] # "running" => listenerLeft'[j] = listenerLeft[j]
    BY <1>11 DEF Tick, CountDown
  <2>3. QED
    BY <2>1, <2>2 DEF Stages, StoppedBeforeReported
<1>12. ASSUME NEW w \in Workers, NEW j \in Jobs, Unreachable(w, j)
       PROVE  Stages' /\ StoppedBeforeReported'
  BY <1>12 DEF TypeOK, Stages, StoppedBeforeReported, Unreachable, timers
<1>13. QED
  BY <1>1, <1>2, <1>3, <1>4, <1>5, <1>6, <1>7, <1>8, <1>9, <1>10, <1>11, <1>12
  DEF Next, Client, Listener, ClientTimesOut, timers, vars

(* The invariant holds in every reachable state. *)
LEMMA Invariance == Spec => []IInv
<1>1. Init => IInv
  BY ChainAssumption
  DEF Init, IInv, TypeOK, SlotExclusive, Stages, StoppedBeforeReported, CliAlive,
      CliBudget, ListenerBudget
<1>2. IInv /\ [Next]_vars => IInv'
  BY TypeStep, SlotStep, StageStep DEF IInv
<1>3. QED
  BY <1>1, <1>2, PTL DEF Spec

(* The file lock of lock.py serves its purpose: for any number of workers, jobs,
   losses and restarts, one call at a time has a handler past the lock, and only
   that call has a CLI. *)
THEOREM SlotIsExclusive == Spec => []SlotExclusive
<1>1. IInv => SlotExclusive
  BY DEF IInv
<1>2. QED
  BY <1>1, Invariance, PTL

(* A CLI that reported has stopped its solver: whatever the deadlines are, a
   solver runs without its CLI only after the listener's deadline. *)
THEOREM SolverIsStopped == Spec => []StoppedBeforeReported
<1>1. IInv => StoppedBeforeReported
  BY DEF IInv
<1>2. QED
  BY <1>1, Invariance, PTL

-----------------------------------------------------------------------------
(* Answers *)

(* A solver that has not ended has said nothing. *)
Silent ==
  \A j \in Jobs : solver[j] \in {"none", "running"} => said[j] = Free

(* The listener's deadline has passed for a call it took. *)
Late(j) == handler[j] \notin {"none", "arrived"} /\ listenerLeft[j] = 0

(* What stands behind an outcome. *)
Backed(j, r) ==
  /\ r \in {"feasible", "infeasible"} => said[j] = r
  /\ r = "timed_out" => said[j] = "timed_out" \/ solver[j] = "killed" \/ Late(j)

Told ==
  \A j \in Jobs :
    /\ handler[j] = "replying" => Backed(j, reply[j])
    /\ \/ Backed(j, answer[j])
       \/ answer[j] = "timed_out" /\ clientLeft[j] = 0 /\ handler[j] # "none"

(* A call that is waited for has reached the listener, and one worker waits for it. *)
Sent ==
  /\ \A w \in Workers : call[w] # Free => handler[call[w]] # "none"
  /\ \A v, w \in Workers : call[v] # Free /\ call[v] = call[w] => v = w

TruthInv == Silent /\ Told /\ Sent

LEMMA TruthStep ==
  ASSUME IInv, TruthInv, [Next]_vars
  PROVE  TruthInv'
<1> USE ChainAssumption, FreeIsNoAnswer
<1>1. CASE \E w \in Workers, j \in Jobs : Post(w, j)
  BY <1>1 DEF Post, IInv, TypeOK, Stages, TruthInv, Silent, Told, Sent, Backed, Late
<1>2. CASE \E w \in Workers : Deliver(w)
  BY <1>2 DEF Deliver, AdapterOutcome, IInv, TypeOK, TruthInv, Silent, Told, Sent, Backed, Late, timers
<1>3. CASE \E w \in Workers : ClientTimesOut(w)
  BY <1>3 DEF ClientTimesOut, IInv, TypeOK, TruthInv, Silent, Told, Sent, Backed, Late, timers
<1>4. CASE \E j \in Jobs : Acquire(j)
  BY <1>4 DEF Acquire, IInv, TypeOK, TruthInv, Silent, Told, Sent, Backed, Late
<1>5. CASE \E j \in Jobs : Refuse(j)
  BY <1>5 DEF Refuse, IInv, TypeOK, TruthInv, Silent, Told, Sent, Backed, Late, timers
<1>6. CASE \E j \in Jobs : ReadCli(j)
  BY <1>6 DEF ReadCli, Conclude, IInv, TypeOK, TruthInv, Silent, Told, Sent, Backed, Late, timers
<1>7. CASE \E j \in Jobs : ListenerDeadline(j)
  BY <1>7 DEF ListenerDeadline, Conclude, IInv, TypeOK, TruthInv, Silent, Told, Sent, Backed, Late, timers
<1>8. CASE \E j \in Jobs : ReplyToNobody(j) \/ LoseReply(j)
  BY <1>8 DEF ReplyToNobody, LoseReply, IInv, TypeOK, TruthInv, Silent, Told, Sent, Backed, Late, timers
<1>9. CASE RestartListener
  BY <1>9 DEF RestartListener, IInv, TypeOK, TruthInv, Silent, Told, Sent, Backed, Late, timers
<1>10. CASE \E j \in Jobs : Cli(j)
  BY <1>10 DEF Cli, SpawnSolver, CliFails, SolverSeen, CliTimesOut, StopSolver, IInv, TypeOK, Stages,
     TruthInv, Silent, Told, Sent, Backed, Late, timers
<1>11. CASE \E j \in Jobs : SolverEnds(j)
  BY <1>11 DEF SolverEnds, Answers, Outcomes, Sayings, IInv, TypeOK, TruthInv, Silent, Told, Sent, Backed, Late, timers
<1>12. CASE Tick
  BY <1>12 DEF Tick, Due, CountDown, IInv, TypeOK, TruthInv, Silent, Told, Sent, Backed, Late
<1>13. CASE UNCHANGED vars
  BY <1>13 DEF vars, timers, TruthInv, Silent, Told, Sent, Backed, Late
<1>14. CASE \E w \in Workers, j \in Jobs : Unreachable(w, j)
  BY <1>14 DEF Unreachable, IInv, TypeOK, TruthInv, Silent, Told, Sent, Backed, Late, timers
<1>15. QED
  BY <1>1, <1>2, <1>3, <1>4, <1>5, <1>6, <1>7, <1>8, <1>9, <1>10, <1>11, <1>12, <1>13, <1>14
  DEF Next, Client, Listener

(* A patient worker has more time left than the listener. *)
Ahead ==
  \A w \in Workers :
    call[w] # Free /\ ClientTimeout[w] > ListenerBudget =>
      /\ handler[call[w]] = "arrived" => clientLeft[call[w]] = ClientTimeout[w]
      /\ handler[call[w]] = "running" => clientLeft[call[w]] > listenerLeft[call[w]]

(* Both count down together, and only while the handler runs. *)
LEMMA AheadStep ==
  ASSUME IInv, Sent, Ahead, [Next]_vars
  PROVE  Ahead'
<1> USE ChainAssumption
<1>0. CliBudget \in Nat /\ ListenerBudget \in Nat
  BY DEF CliBudget, ListenerBudget
<1>1. ASSUME NEW v \in Workers, NEW j \in Jobs, Post(v, j) PROVE Ahead'
  BY <1>1 DEF Post, IInv, TypeOK, Sent, Ahead
<1>2. ASSUME NEW v \in Workers, Client(v) PROVE Ahead'
  BY <1>2 DEF Client, Deliver, ClientTimesOut, IInv, TypeOK, Sent, Ahead, timers
<1>3. ASSUME NEW j \in Jobs, Acquire(j) PROVE Ahead'
  BY <1>0, <1>3 DEF Acquire, IInv, TypeOK, Ahead
<1>4. ASSUME NEW j \in Jobs, Refuse(j) \/ ReplyToNobody(j) \/ LoseReply(j) PROVE Ahead'
  BY <1>4 DEF Refuse, ReplyToNobody, LoseReply, IInv, TypeOK, Ahead, timers
<1>5. ASSUME NEW j \in Jobs, ReadCli(j) \/ ListenerDeadline(j) PROVE Ahead'
  BY <1>5 DEF ReadCli, ListenerDeadline, Conclude, IInv, TypeOK, Ahead, timers
<1>6. ASSUME NEW j \in Jobs, Cli(j) \/ SolverEnds(j) PROVE Ahead'
  BY <1>6 DEF Cli, SpawnSolver, CliFails, SolverSeen, CliTimesOut, StopSolver, SolverEnds,
     Ahead, timers
<1>7. CASE RestartListener
  BY <1>7 DEF RestartListener, IInv, TypeOK, Ahead, timers
<1>8. CASE Tick
  <2> SUFFICES ASSUME NEW w \in Workers, call[w] # Free, ClientTimeout[w] > ListenerBudget,
                      handler[call[w]] \in {"arrived", "running"}
               PROVE  /\ handler[call[w]] = "running"
                      /\ clientLeft'[call[w]] > listenerLeft'[call[w]]
    BY <1>8 DEF Tick, Ahead
  <2>1. call[w] \in Jobs /\ Waiting(call[w])
    BY DEF IInv, TypeOK, Waiting
  <2>2. handler[call[w]] = "running"
    BY <1>8, <2>1 DEF Tick, Urgent
  <2>3. /\ clientLeft'[call[w]] = clientLeft[call[w]] - 1
        /\ listenerLeft'[call[w]] = listenerLeft[call[w]] - 1
    BY <1>8, <2>1, <2>2 DEF Tick, CountDown
  <2>4. clientLeft[call[w]] \in Nat /\ listenerLeft[call[w]] \in Nat
    BY <1>0, <2>1 DEF IInv, TypeOK
  <2>5. QED BY <2>2, <2>3, <2>4 DEF Ahead
<1>9. CASE UNCHANGED vars
  BY <1>9 DEF vars, timers, Ahead
<1>10. ASSUME NEW v \in Workers, NEW j \in Jobs, Unreachable(v, j) PROVE Ahead'
  BY <1>10 DEF Unreachable, IInv, TypeOK, Sent, Ahead, timers
<1>11. QED
  BY <1>1, <1>2, <1>3, <1>4, <1>5, <1>6, <1>7, <1>8, <1>9, <1>10 DEF Next, Listener

LEMMA AnswerInvariance == Spec => [](IInv /\ TruthInv /\ Ahead)
<1>1. Init => IInv /\ TruthInv /\ Ahead
  BY ChainAssumption, FreeIsNoAnswer
  DEF Init, IInv, TypeOK, SlotExclusive, Stages, StoppedBeforeReported, CliAlive, CliBudget,
      ListenerBudget, TruthInv, Silent, Told, Sent, Backed, Answers, Outcomes, Ahead
<1>2. IInv /\ TruthInv /\ Ahead /\ [Next]_vars => (IInv /\ TruthInv /\ Ahead)'
  BY TypeStep, SlotStep, StageStep, TruthStep, AheadStep DEF IInv, TruthInv
<1>3. QED
  BY <1>1, <1>2, PTL DEF Spec

(* Four processes pass an answer on and none embellishes it: feasible and infeasible
   are the solver's own words, and behind a timed_out is a deadline that passed. *)
THEOREM AnswersAreTruthful == Spec => []TruthfulAnswer
<1>1. IInv /\ TruthInv => TruthfulAnswer
  BY DEF IInv, TypeOK, TruthInv, Told, Backed, Late, TruthfulAnswer
<1>2. QED
  BY <1>1, AnswerInvariance, PTL

(* COMPUTE_TIMEOUT_SECONDS above the listener's budget: a worker that waits so long
   never leaves a call that still holds the slot. *)
THEOREM PatienceFreesTheSlot == Spec => PatientLeavesNothing
<1>1. ASSUME IInv, Ahead, [Next]_vars,
             NEW w \in Workers, ClientTimeout[w] > ListenerBudget,
             call[w] # Free, call'[w] # call[w]
      PROVE  lock' # call[w]
  <2> USE ChainAssumption
  <2>1. call[w] \in Jobs /\ call \in [Workers -> Jobs \cup {Free}]
    BY <1>1 DEF IInv, TypeOK
  <2>2. CASE Deliver(w)
    BY <1>1, <2>1, <2>2 DEF Deliver, IInv, SlotExclusive
  <2>3. CASE ClientTimesOut(w)
    <3>1. handler[call[w]] # "running"
      <4>1. listenerLeft[call[w]] \in 0 .. ListenerBudget /\ clientLeft[call[w]] = 0
        BY <1>1, <2>1, <2>3 DEF ClientTimesOut, IInv, TypeOK
      <4>2. QED BY <1>1, <4>1 DEF Ahead
    <3>2. QED BY <1>1, <2>1, <2>3, <3>1 DEF ClientTimesOut, IInv, SlotExclusive
  <2>4. ASSUME NEW v \in Workers, v # w, Client(v)
        PROVE  FALSE
    <3>1. \E r : call' = [call EXCEPT ![v] = r]
      BY <2>4 DEF Client, Deliver, ClientTimesOut
    <3>2. QED BY <1>1, <2>1, <2>4, <3>1
  <2>5. ASSUME NEW v \in Workers, NEW j \in Jobs, Post(v, j)
        PROVE  FALSE
    BY <1>1, <2>1, <2>5 DEF Post
  <2>6. ASSUME NEW j \in Jobs, Listener(j) \/ Cli(j) \/ SolverEnds(j) \/ LoseReply(j)
        PROVE  call' = call
    BY <2>6 DEF Listener, Acquire, Refuse, ReadCli, ListenerDeadline, ReplyToNobody,
       Cli, SpawnSolver, CliFails, SolverSeen, CliTimesOut, StopSolver, SolverEnds, LoseReply
  <2>7. ASSUME RestartListener \/ Tick \/ UNCHANGED vars
        PROVE  call' = call
    BY <2>7 DEF RestartListener, Tick, vars
  <2>8. ASSUME NEW v \in Workers, NEW j \in Jobs, Unreachable(v, j)
        PROVE  call' = call
    BY <2>8 DEF Unreachable
  <2>9. QED BY <1>1, <2>2, <2>3, <2>4, <2>5, <2>6, <2>7, <2>8 DEF Next, Client
<1>2. IInv /\ Ahead /\ [Next]_vars =>
        [\A w \in Workers :
           (ClientTimeout[w] > ListenerBudget /\ call[w] # Free /\ call'[w] # call[w])
             => lock' # call[w]]_vars
  BY <1>1
<1>3. QED
  BY <1>2, AnswerInvariance, PTL DEF Spec, PatientLeavesNothing

=============================================================================
