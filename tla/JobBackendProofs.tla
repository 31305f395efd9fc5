-------------------------- MODULE JobBackendProofs --------------------------
(***************************************************************************)
(* Proofs about JobBackend for any sets of jobs and workers and any        *)
(* bounds: type correctness, the inductive invariant with its safety       *)
(* properties, and the refinement of JobLifecycle.                         *)
(***************************************************************************)
EXTENDS JobBackend, TLAPS

(* The terminal UPDATE writes a well-formed row: a terminal state, the payload
   in the column of that state, and the other columns unchanged. *)
LEMMA FinishedRow ==
  ASSUME NEW r \in Rows, NEW p \in Payloads
  PROVE  /\ Finished(r, p) \in Rows
         /\ Finished(r, p).created = r.created
         /\ Finished(r, p).state \in Terminal
         /\ Finished(r, p).state = "failed" <=> p.outcome \in {"error", "exception"}
         /\ Finished(r, p).state = "failed"
              => Finished(r, p).result = r.result /\ Finished(r, p).error = p
         /\ Finished(r, p).state # "failed"
              => /\ Finished(r, p).result = p /\ Finished(r, p).error = r.error
                 /\ Finished(r, p).state = IF p.outcome = "timed_out"
                                           THEN "timed_out" ELSE "completed"
<1>1. CASE p.outcome \in {"feasible", "infeasible"}
  <2>1. Finished(r, p) = [r EXCEPT !.state = "completed", !.result = p]
    BY <1>1 DEF Finished
  <2>2. QED BY <1>1, <2>1 DEF Rows, Terminal, Payloads, Outcomes
<1>2. CASE p.outcome = "timed_out"
  <2>1. Finished(r, p) = [r EXCEPT !.state = "timed_out", !.result = p]
    BY <1>2 DEF Finished
  <2>2. QED BY <1>2, <2>1 DEF Rows, Terminal, Payloads, Outcomes
<1>3. CASE p.outcome \notin {"feasible", "infeasible", "timed_out"}
  <2>1. Finished(r, p) = [r EXCEPT !.state = "failed", !.error = p]
    BY <1>3 DEF Finished
  <2>2. QED BY <1>3, <2>1 DEF Rows, Terminal, Payloads, Outcomes
<1>4. QED BY <1>1, <1>2, <1>3

(* Type correctness: every variable keeps its type in every reachable state. *)
LEMMA TypeStep ==
  ASSUME TypeOK, WorkerState, Stamps, [Next]_vars
  PROVE  TypeOK'
<1> USE JobsAssumption, NobodyIsNoPayload
<1>1. ASSUME NEW j \in Jobs, SubmitStamp(j)
      PROVE  TypeOK'
  BY <1>1 DEF TypeOK, SubmitStamp, tableVars, workerVars, history, budgets
<1>2. CASE SubmitInsert
  BY <1>2 DEF TypeOK, SubmitInsert, Stamps, Rows, NoRow, workerVars, history, budgets
<1>3. CASE SubmitDuplicate
  BY <1>3 DEF TypeOK, SubmitDuplicate, tableVars, workerVars, history, budgets
<1>4. CASE SubmitReload
  BY <1>4 DEF TypeOK, SubmitReload, tableVars, workerVars, history, budgets
<1>5. CASE SubmitFails
  BY <1>5 DEF TypeOK, SubmitFails, Fault, tableVars, workerVars, history
<1>6. ASSUME NEW w \in Workers,
             RequestStop(w) \/ Poll(w) \/ Work(w)
               \/ FinishFails(w) \/ Crash(w) \/ Restart(w)
      PROVE  TypeOK'
  <2>1. CASE RequestStop(w)
    BY <2>1 DEF TypeOK, RequestStop, tableVars, history
  <2>2. CASE CheckStop(w)
    BY <2>2 DEF TypeOK, CheckStop, Goto, Alive, tableVars, history, budgets
  <2>3. CASE ClaimBegin(w)
    BY <2>3 DEF TypeOK, ClaimBegin, Goto, Alive, history, budgets
  <2>4. CASE ClaimSelect(w)
    BY <2>4 DEF TypeOK, ClaimSelect, Goto, Alive, tableVars, history, budgets
  <2>5. CASE ClaimNothing(w)
    BY <2>5 DEF TypeOK, ClaimNothing, Goto, Alive, history, budgets
  <2>6. CASE ClaimUpdate(w)
    <3>1. cur[w] \in Jobs
      BY <2>6 DEF ClaimUpdate, WorkerState
    <3>2. CASE Claimable(cur[w])
      <4>1. row' = [row EXCEPT ![cur[w]].state = "running"]
        BY <2>6, <3>2 DEF ClaimUpdate
      <4>2. row' \in [Jobs -> Rows]
        BY <3>1, <4>1 DEF TypeOK, Rows
      <4>3. QED
        BY <2>6, <3>1, <3>2, <4>2 DEF TypeOK, ClaimUpdate, Alive, Owning, budgets
    <3>3. CASE ~ Claimable(cur[w])
      BY <2>6, <3>3 DEF TypeOK, ClaimUpdate, Forget, Alive, Owning, budgets
    <3>4. QED BY <3>2, <3>3
  <2>7. CASE WindRefuse(w)
    BY <2>7 DEF TypeOK, WindRefuse, Goto, Alive, Owning, Payloads, Outcomes,
                tableVars, history, budgets
  <2>8. CASE CallEngine(w)
    BY <2>8 DEF TypeOK, CallEngine, Goto, Alive, Owning, tableVars, history, budgets
  <2>9. CASE EngineAnswers(w)
    BY <2>9 DEF TypeOK, EngineAnswers, WorkerState, Goto, Alive, Owning, Payloads,
                tableVars, history, budgets
  <2>10. CASE EngineRaises(w)
    BY <2>10 DEF TypeOK, EngineRaises, Goto, Alive, Owning, tableVars, history, budgets
  <2>11. CASE FinishWithResponse(w)
    <3>1. cur[w] \in Jobs /\ resp[w] \in Payloads
      BY <2>11 DEF FinishWithResponse, WorkerState, Owning, Payloads, Outcomes
    <3>2. Finished(row[cur[w]], resp[w]) \in Rows
      BY <3>1, FinishedRow DEF TypeOK
    <3>3. row' \in [Jobs -> Rows]
      BY <2>11, <3>1, <3>2 DEF TypeOK, FinishWithResponse
    <3>4. QED
      BY <2>11, <3>3 DEF TypeOK, FinishWithResponse, Forget, Alive, history, budgets
  <2>12. CASE FinishRefused(w)
    BY <2>12 DEF TypeOK, FinishRefused, Goto, Alive, Owning, tableVars, history, budgets
  <2>13. CASE MarkFailed(w)
    <3> DEFINE e == [job |-> cur[w], outcome |-> "exception"]
    <3>1. cur[w] \in Jobs /\ e \in Payloads
      BY <2>13 DEF MarkFailed, WorkerState, Owning, Payloads
    <3>2. Finished(row[cur[w]], e) \in Rows
      BY <3>1, FinishedRow DEF TypeOK
    <3>3. CASE row[cur[w]].state = "running"
      <4>1. row' = [row EXCEPT ![cur[w]] = Finished(@, e)]
        BY <2>13, <3>3 DEF MarkFailed
      <4>2. row' \in [Jobs -> Rows]
        BY <3>1, <3>2, <4>1 DEF TypeOK
      <4>3. QED
        BY <2>13, <3>3, <4>2 DEF TypeOK, MarkFailed, Forget, Alive, history, budgets
    <3>4. CASE row[cur[w]].state # "running"
      BY <2>13, <3>1, <3>4 DEF TypeOK, MarkFailed, Dies, Forget, Alive, budgets
    <3>5. QED BY <3>3, <3>4
  <2>14. CASE FinishFails(w)
    BY <2>14 DEF TypeOK, FinishFails, Fault, Goto, Alive, Owning, tableVars, history
  <2>15. CASE Crash(w)
    BY <2>15 DEF TypeOK, Crash, Dies, Forget, Fault, WorkerState, Alive, Owning
  <2>16. CASE Restart(w)
    BY <2>16 DEF TypeOK, Restart, Alive, tableVars, history, budgets
  <2>17. QED
    BY <1>6, <2>1, <2>2, <2>3, <2>4, <2>5, <2>6, <2>7, <2>8, <2>9, <2>10, <2>11,
       <2>12, <2>13, <2>14, <2>15, <2>16 DEF Poll, Work
<1>7. CASE UNCHANGED vars
  BY <1>7 DEF TypeOK, vars
<1>8. QED
  BY <1>1, <1>2, <1>3, <1>4, <1>5, <1>6, <1>7 DEF Next, Api

(* Both ways to end a job, finish_with_response and mark_failed, keep the
   invariant: they write the one row their worker owns. *)
LEMMA TerminalWrite ==
  ASSUME IInv, TypeOK',
         NEW w \in Workers, NEW p \in Payloads,
         pc[w] \in Owning, writer = Nobody,
         p.job = cur[w],
         cur[w] \in Windy => p.outcome \in {"infeasible", "exception"},
         row' = [row EXCEPT ![cur[w]] = Finished(@, p)],
         pc' = [pc EXCEPT ![w] = "loop"],
         Forget(w),
         UNCHANGED <<writer, api, clock, history>>
  PROVE  IInv'
<1> DEFINE j == cur[w]
<1> USE JobsAssumption, NobodyIsNoPayload
<1>1. j \in Jobs \ lost /\ row[j].state = "running"
  BY DEF IInv, Ownership
<1>2. row[j] \in Rows /\ row[j].result = Nobody /\ row[j].error = Nobody
  BY <1>1 DEF IInv, TypeOK, AnswerFitsState
<1>3. /\ row'[j] = Finished(row[j], p)
      /\ \A k \in Jobs : k # j => row'[k] = row[k]
  BY <1>1 DEF IInv, TypeOK
<1>4. /\ row'[j].state \in Terminal /\ row'[j].created = row[j].created
      /\ row'[j].state = "failed" => row'[j].result = Nobody /\ row'[j].error = p
      /\ row'[j].state # "failed" =>
           /\ row'[j].result = p /\ row'[j].error = Nobody
           /\ row'[j].state = IF p.outcome = "timed_out"
                              THEN "timed_out" ELSE "completed"
  BY <1>2, <1>3, FinishedRow
<1>5. /\ pc'[w] = "loop"
      /\ \A v \in Workers : v # w => pc'[v] = pc[v] /\ cur'[v] = cur[v]
                                                /\ resp'[v] = resp[v]
      /\ \A v \in Workers : v # w /\ pc[v] \in Owning => cur[v] # j
      /\ \A v \in Workers : pc[v] # "selected"
  BY DEF IInv, TypeOK, Forget, Ownership, LockHolder
<1> HIDE DEF j
<1>6. LockHolder' /\ WorkerState'
  BY <1>5 DEF IInv, LockHolder, WorkerState, Owning
<1>7. LostIsRunning'
  BY <1>1, <1>3 DEF IInv, TypeOK, LostIsRunning, history
<1>8. Stamps'
  BY <1>1, <1>3, <1>4 DEF IInv, Stamps, Absent
<1>9. Ownership'
  <2>1. (\A v \in Workers : pc[v] \in Owning => cur[v] \in Jobs \ lost
                                              /\ row[cur[v]].state = "running")'
    BY <1>1, <1>3, <1>5 DEF IInv, Ownership, Owning, history
  <2>2. ASSUME NEW u \in Workers, NEW v \in Workers,
               pc'[u] \in Owning, pc'[v] \in Owning, cur'[u] = cur'[v]
        PROVE  u = v
    <3>1. u # w /\ v # w
      BY <1>5, <2>2 DEF Owning
    <3>2. QED BY <1>5, <2>2, <3>1 DEF IInv, Ownership
  <2>3. ASSUME NEW k \in Jobs, row'[k].state = "running"
        PROVE  k \in lost' \/ \E v \in Workers : pc'[v] \in Owning /\ cur'[v] = k
    <3>1. k # j /\ row[k].state = "running"
      BY <1>3, <1>4, <2>3 DEF Terminal
    <3>2. k \in lost \/ \E v \in Workers : pc[v] \in Owning /\ cur[v] = k
      BY <3>1 DEF IInv, Ownership
    <3>3. QED BY <1>5, <3>1, <3>2 DEF history, j
  <2>4. QED BY <2>1, <2>2, <2>3 DEF Ownership
<1>10. StartedAtMostOnce'
  BY <1>1, <1>3, <1>4 DEF IInv, StartedAtMostOnce, Terminal, history
<1>11. SelectionIsFresh'
  BY <1>5 DEF SelectionIsFresh
<1>12. AnswerFitsState'
  <2>1. /\ p # Nobody /\ p.job = j
        /\ row'[j].state = "failed" <=> p.outcome \in {"error", "exception"}
    BY <1>2, <1>3, FinishedRow DEF j
  <2>2. \A k \in Jobs : k # j => row'[k] = row[k]
    BY <1>3
  <2>3. j \in Windy /\ row'[j].result # Nobody => p.outcome = "infeasible"
    BY <1>4, <2>1 DEF j
  <2>4. QED
    BY <1>1, <1>4, <2>1, <2>2, <2>3
    DEF IInv, AnswerFitsState, ResultView, Absent, Terminal
<1>13. FirstComeFirstServed'
  BY <1>1, <1>3, <1>4 DEF IInv, FirstComeFirstServed, Absent, Claimable, Terminal
<1>14. QED
  BY <1>6, <1>7, <1>8, <1>9, <1>10, <1>11, <1>12, <1>13 DEF IInv

(* What only the table, the claims and the losses decide survives a step that
   leaves all three alone. *)
LEMMA TableKept ==
  ASSUME IInv, UNCHANGED <<row, claims, lost>>
  PROVE  /\ LostIsRunning' /\ StartedAtMostOnce'
         /\ AnswerFitsState' /\ FirstComeFirstServed'
  BY DEF IInv, LostIsRunning, StartedAtMostOnce, AnswerFitsState,
         FirstComeFirstServed, ResultView, Absent, Claimable

(* What the workers and the table decide together survives a step of the API
   that leaves both alone. *)
LEMMA WorkersKept ==
  ASSUME IInv, UNCHANGED <<row, writer, pc, cur, resp, lost>>
  PROVE  LockHolder' /\ WorkerState' /\ Ownership' /\ SelectionIsFresh'
  BY DEF IInv, LockHolder, WorkerState, Ownership, SelectionIsFresh, Oldest, Claimable

(* A worker that owns a job before and after a step keeps the invariant, if what
   it holds is still right. *)
LEMMA OwnerMoves ==
  ASSUME IInv, TypeOK', WorkerState',
         NEW w \in Workers, NEW to \in Owning,
         pc[w] \in Owning, pc' = [pc EXCEPT ![w] = to],
         UNCHANGED <<row, writer, api, clock, cur, claims, lost>>
  PROVE  IInv'
<1>1. Stamps'
  BY DEF IInv, Stamps, Absent
<1>2. LockHolder' /\ SelectionIsFresh'
  BY DEF IInv, TypeOK, LockHolder, SelectionIsFresh, Oldest, Claimable, Owning
<1>3. Ownership'
  BY DEF IInv, TypeOK, Ownership
<1>4. QED
  BY <1>1, <1>2, <1>3, TableKept DEF IInv

(* A worker that owns no job before or after a step keeps the invariant, if the
   lock and its selection are still right. *)
LEMMA IdleMoves ==
  ASSUME IInv, TypeOK', LockHolder', WorkerState', SelectionIsFresh',
         NEW w \in Workers, NEW to, to \notin Owning,
         pc[w] \notin Owning, pc' = [pc EXCEPT ![w] = to],
         \A v \in Workers : v # w => cur'[v] = cur[v],
         UNCHANGED <<row, api, clock, claims, lost>>
  PROVE  IInv'
<1>1. Stamps'
  BY DEF IInv, Stamps, Absent
<1>2. /\ pc'[w] \notin Owning
      /\ \A v \in Workers :
           pc'[v] \in Owning => v # w /\ pc'[v] = pc[v] /\ cur'[v] = cur[v]
      /\ \A v \in Workers :
           pc[v] \in Owning => v # w /\ pc'[v] = pc[v] /\ cur'[v] = cur[v]
  BY DEF IInv, TypeOK
<1>3. Ownership'
  <2>1. \A v \in Workers : pc'[v] \in Owning =>
          cur'[v] \in Jobs \ lost' /\ row'[cur'[v]].state = "running"
    BY <1>2 DEF IInv, Ownership
  <2>2. \A u, v \in Workers :
          pc'[u] \in Owning /\ pc'[v] \in Owning /\ cur'[u] = cur'[v] => u = v
    BY <1>2 DEF IInv, Ownership
  <2>3. ASSUME NEW j \in Jobs, row'[j].state = "running"
        PROVE  j \in lost' \/ \E v \in Workers : pc'[v] \in Owning /\ cur'[v] = j
    <3>1. j \in lost \/ \E v \in Workers : pc[v] \in Owning /\ cur[v] = j
      BY <2>3 DEF IInv, Ownership
    <3>2. QED BY <1>2, <3>1
  <2>4. QED BY <2>1, <2>2, <2>3 DEF Ownership
<1>4. QED
  BY <1>1, <1>3, TableKept DEF IInv

(* The inductive invariant is kept by every step. *)
LEMMA InvStep ==
  ASSUME IInv, [Next]_vars
  PROVE  IInv'
<1> USE JobsAssumption, NobodyIsNoPayload
<1>0. TypeOK'
  BY TypeStep DEF IInv
<1>1. ASSUME NEW j \in Jobs, SubmitStamp(j) PROVE IInv'
  <2>1. UNCHANGED <<row, writer, pc, cur, resp, claims, lost>>
    BY <1>1 DEF SubmitStamp, tableVars, workerVars, history
  <2>2. Stamps'
    BY <1>1, <2>1 DEF IInv, TypeOK, Stamps, SubmitStamp, Absent, Rows
  <2>3. QED
    BY <1>0, <2>1, <2>2, TableKept, WorkersKept DEF IInv
<1>2. CASE SubmitInsert
  <2> DEFINE j == api.job
  <2>1. j \in Jobs /\ Absent(j) /\ api.stamp = clock
    BY <1>2 DEF IInv, Stamps, SubmitInsert
  <2>2. /\ row'[j] = [state |-> "queued", result |-> Nobody, error |-> Nobody,
                      created |-> clock]
        /\ \A k \in Jobs : k # j => row'[k] = row[k]
    BY <1>2, <2>1 DEF IInv, TypeOK, SubmitInsert, NoRow
  <2>3. /\ UNCHANGED <<writer, clock, pc, cur, resp, claims, lost>>
        /\ writer = Nobody
        /\ api'.phase = "inserted" /\ api'.job = api.job
    BY <1>2 DEF IInv, TypeOK, SubmitInsert, workerVars, history
  <2> HIDE DEF j
  <2>4. LockHolder' /\ WorkerState'
    BY <2>3 DEF IInv, LockHolder, WorkerState
  <2>5. LostIsRunning' /\ Ownership'
    BY <2>1, <2>2, <2>3 DEF IInv, TypeOK, LostIsRunning, Ownership, Absent
  <2>6. Stamps'
    BY <2>1, <2>2, <2>3 DEF IInv, Stamps, TypeOK, Absent, j
  <2>7. StartedAtMostOnce'
    BY <2>1, <2>2, <2>3 DEF IInv, StartedAtMostOnce, Absent
  <2>8. SelectionIsFresh'
    BY <2>3 DEF IInv, TypeOK, SelectionIsFresh
  <2>9. AnswerFitsState'
    BY <2>1, <2>2 DEF IInv, AnswerFitsState, ResultView, Absent
  <2>10. FirstComeFirstServed'
    <3>1. \A k \in Jobs : ~ Absent(k) => row[k].created < clock
      BY <1>2 DEF IInv, Stamps, SubmitInsert
    <3>2. \A k \in Jobs : row[k].created \in Nat /\ clock \in Nat
      BY DEF IInv, TypeOK, Rows
    <3>3. QED
      BY <2>1, <2>2, <3>1, <3>2 DEF IInv, FirstComeFirstServed, Absent, Claimable
  <2>11. QED
    BY <1>0, <2>4, <2>5, <2>6, <2>7, <2>8, <2>9, <2>10 DEF IInv
<1>3. CASE SubmitDuplicate
  <2>1. /\ UNCHANGED <<row, writer, clock, pc, cur, resp, claims, lost>>
        /\ api'.phase = "idle"
    BY <1>3 DEF SubmitDuplicate, tableVars, workerVars, history
  <2>2. Stamps'
    BY <2>1 DEF IInv, Stamps, Absent
  <2>3. QED
    BY <1>0, <2>1, <2>2, TableKept, WorkersKept DEF IInv
<1>4. CASE SubmitReload
  <2>1. /\ UNCHANGED <<row, writer, clock, pc, cur, resp, claims, lost>>
        /\ api'.phase = "idle"
    BY <1>4 DEF SubmitReload, tableVars, workerVars, history
  <2>2. Stamps'
    BY <2>1 DEF IInv, Stamps, Absent
  <2>3. QED
    BY <1>0, <2>1, <2>2, TableKept, WorkersKept DEF IInv
<1>5. CASE SubmitFails
  <2>1. /\ UNCHANGED <<row, writer, clock, pc, cur, resp, claims, lost>>
        /\ api'.phase = "idle"
    BY <1>5 DEF SubmitFails, tableVars, workerVars, history
  <2>2. Stamps'
    BY <2>1 DEF IInv, Stamps, Absent
  <2>3. QED
    BY <1>0, <2>1, <2>2, TableKept, WorkersKept DEF IInv
<1>6. ASSUME NEW w \in Workers, RequestStop(w) PROVE IInv'
  <2>1. UNCHANGED <<row, writer, api, clock, pc, cur, resp, claims, lost>>
    BY <1>6 DEF RequestStop, tableVars, history
  <2>2. Stamps'
    BY <2>1 DEF IInv, Stamps, Absent
  <2>3. QED
    BY <1>0, <2>1, <2>2, TableKept, WorkersKept DEF IInv
<1>7. ASSUME NEW w \in Workers, CheckStop(w) PROVE IInv'
  <2>1. /\ pc[w] \notin Owning /\ (IF stop[w] THEN "stopped" ELSE "polling") \notin Owning
        /\ pc' = [pc EXCEPT ![w] = (IF stop[w] THEN "stopped" ELSE "polling")]
        /\ \A v \in Workers : v # w => cur'[v] = cur[v]
        /\ UNCHANGED <<row, api, clock, resp, claims, lost>>
    BY <1>7 DEF CheckStop, Goto, IInv, TypeOK, Owning, tableVars, history
  <2>2. LockHolder'
    BY <1>7, <2>1 DEF IInv, TypeOK, LockHolder, CheckStop, Goto, tableVars
  <2>3. WorkerState' /\ SelectionIsFresh'
    BY <1>7, <2>1, <2>2 DEF IInv, TypeOK, LockHolder, WorkerState, SelectionIsFresh,
       Owning, Oldest, Claimable, CheckStop, Goto, tableVars
  <2>4. QED
    BY <1>0, <2>1, <2>2, <2>3, IdleMoves
<1>8. ASSUME NEW w \in Workers, ClaimBegin(w) PROVE IInv'
  <2>1. /\ pc[w] \notin Owning /\ "claiming" \notin Owning
        /\ pc' = [pc EXCEPT ![w] = "claiming"]
        /\ \A v \in Workers : v # w => cur'[v] = cur[v]
        /\ UNCHANGED <<row, api, clock, resp, claims, lost>>
    BY <1>8 DEF ClaimBegin, Goto, IInv, TypeOK, Owning, tableVars, history
  <2>2. LockHolder'
    BY <1>8, <2>1 DEF IInv, TypeOK, LockHolder, ClaimBegin, Goto, tableVars
  <2>3. WorkerState' /\ SelectionIsFresh'
    BY <1>8, <2>1, <2>2 DEF IInv, TypeOK, LockHolder, WorkerState, SelectionIsFresh,
       Owning, Oldest, Claimable, ClaimBegin, Goto, tableVars
  <2>4. QED
    BY <1>0, <2>1, <2>2, <2>3, IdleMoves
<1>9. ASSUME NEW w \in Workers, ClaimSelect(w) PROVE IInv'
  <2>1. /\ pc[w] \notin Owning /\ "selected" \notin Owning
        /\ pc' = [pc EXCEPT ![w] = "selected"]
        /\ \A v \in Workers : v # w => cur'[v] = cur[v]
        /\ UNCHANGED <<row, api, clock, resp, claims, lost>>
    BY <1>9 DEF ClaimSelect, Goto, IInv, TypeOK, Owning, tableVars, history
  <2>2. LockHolder'
    BY <1>9, <2>1 DEF IInv, TypeOK, LockHolder, ClaimSelect, Goto, tableVars
  <2>3. WorkerState' /\ SelectionIsFresh'
    BY <1>9, <2>1, <2>2 DEF IInv, TypeOK, LockHolder, WorkerState, SelectionIsFresh,
       Owning, Oldest, Claimable, ClaimSelect, Goto, tableVars
  <2>4. QED
    BY <1>0, <2>1, <2>2, <2>3, IdleMoves
<1>10. ASSUME NEW w \in Workers, ClaimNothing(w) PROVE IInv'
  <2>1. /\ pc[w] \notin Owning /\ "loop" \notin Owning
        /\ pc' = [pc EXCEPT ![w] = "loop"]
        /\ \A v \in Workers : v # w => cur'[v] = cur[v]
        /\ UNCHANGED <<row, api, clock, resp, claims, lost>>
    BY <1>10 DEF ClaimNothing, Goto, IInv, TypeOK, Owning, tableVars, history
  <2>2. LockHolder'
    BY <1>10, <2>1 DEF IInv, TypeOK, LockHolder, ClaimNothing, Goto, tableVars
  <2>3. WorkerState' /\ SelectionIsFresh'
    BY <1>10, <2>1, <2>2 DEF IInv, TypeOK, LockHolder, WorkerState, SelectionIsFresh,
       Owning, Oldest, Claimable, ClaimNothing, Goto, tableVars
  <2>4. QED
    BY <1>0, <2>1, <2>2, <2>3, IdleMoves
<1>11. ASSUME NEW w \in Workers, ClaimUpdate(w) PROVE IInv'
  <2> DEFINE j == cur[w]
  <2>1. j \in Jobs /\ writer = w /\ Oldest(j) /\ Claimable(j) /\ pc[w] = "selected"
    BY <1>11 DEF IInv, WorkerState, SelectionIsFresh, ClaimUpdate, Oldest
  <2>2. /\ row'[j] = [row[j] EXCEPT !.state = "running"]
        /\ \A k \in Jobs : k # j => row'[k] = row[k]
        /\ claims'[j] = claims[j] + 1
        /\ \A k \in Jobs : k # j => claims'[k] = claims[k]
    BY <1>11, <2>1 DEF IInv, TypeOK, ClaimUpdate
  <2>3. /\ row[j] \in Rows
        /\ row'[j].state = "running" /\ row'[j].created = row[j].created
        /\ row'[j].result = row[j].result /\ row'[j].error = row[j].error
    BY <2>1, <2>2 DEF IInv, TypeOK, Rows
  <2>4. /\ pc' = [pc EXCEPT ![w] = "claimed"]
        /\ UNCHANGED <<cur, resp, api, clock, lost>>
        /\ writer' = Nobody
    BY <1>11, <2>1 DEF ClaimUpdate
  <2>5. /\ pc'[w] = "claimed" /\ \A v \in Workers : v # w => pc'[v] = pc[v]
        /\ \A v \in Workers : pc[v] \in Owning => cur[v] # j
    BY <2>1, <2>4 DEF IInv, TypeOK, Ownership, Claimable
  <2> HIDE DEF j
  <2>6. LockHolder'
    BY <2>1, <2>4, <2>5 DEF IInv, LockHolder
  <2>7. WorkerState'
    BY <2>1, <2>4, <2>5 DEF IInv, WorkerState, Owning, j
  <2>8. LostIsRunning' /\ j \notin lost
    BY <2>1, <2>2, <2>3, <2>4 DEF IInv, LostIsRunning, Claimable, TypeOK
  <2>9. Stamps'
    BY <2>1, <2>2, <2>3, <2>4 DEF IInv, Stamps, Absent, Claimable
  <2>10. Ownership'
    <3>1. ASSUME NEW v \in Workers, pc'[v] \in Owning
          PROVE  cur'[v] \in Jobs \ lost' /\ row'[cur'[v]].state = "running"
      <4>1. CASE v = w
        BY <2>1, <2>3, <2>4, <2>8, <4>1 DEF j
      <4>2. CASE v # w
        BY <2>2, <2>4, <2>5, <3>1, <4>2 DEF IInv, Ownership
      <4>3. QED BY <4>1, <4>2
    <3>2. ASSUME NEW u \in Workers, NEW v \in Workers,
                 pc'[u] \in Owning, pc'[v] \in Owning, cur'[u] = cur'[v]
          PROVE  u = v
      <4>1. CASE u # w /\ v # w
        BY <2>4, <2>5, <3>2, <4>1 DEF IInv, Ownership
      <4>2. CASE u = w \/ v = w
        BY <2>4, <2>5, <3>2, <4>2 DEF j
      <4>3. QED BY <4>1, <4>2
    <3>3. ASSUME NEW k \in Jobs, row'[k].state = "running"
          PROVE  k \in lost' \/ \E v \in Workers : pc'[v] \in Owning /\ cur'[v] = k
      <4>1. CASE k = j
        BY <2>4, <2>5, <4>1 DEF Owning, j
      <4>2. CASE k # j
        <5>1. k \in lost \/ \E v \in Workers : pc[v] \in Owning /\ cur[v] = k
          BY <2>2, <3>3, <4>2 DEF IInv, Ownership
        <5>2. QED BY <2>1, <2>4, <2>5, <5>1 DEF Owning
      <4>3. QED BY <4>1, <4>2
    <3>4. QED BY <3>1, <3>2, <3>3 DEF Ownership
  <2>11. StartedAtMostOnce'
    <3>1. claims'[j] = 1
      BY <2>1, <2>2 DEF IInv, StartedAtMostOnce, Claimable
    <3>2. QED
      BY <2>2, <2>3, <3>1 DEF IInv, StartedAtMostOnce
  <2>12. SelectionIsFresh'
    BY <2>1, <2>4, <2>5 DEF IInv, SelectionIsFresh
  <2>13. AnswerFitsState'
    <3>1. row'[j].result = Nobody /\ row'[j].error = Nobody
      BY <2>1, <2>3 DEF IInv, AnswerFitsState, Claimable
    <3>2. \A k \in Jobs : k # j => row'[k] = row[k]
      BY <2>2
    <3>3. QED
      BY <2>3, <3>1, <3>2 DEF IInv, AnswerFitsState, ResultView, Absent
  <2>14. FirstComeFirstServed'
    <3>1. \A k \in Jobs : row[k].created \in Nat
      BY DEF IInv, TypeOK, Rows
    <3>2. \A k \in Jobs : k # j => row'[k] = row[k]
      BY <2>2
    <3>3. \A k \in Jobs : Claimable(k) => row[j].created <= row[k].created
      BY <2>1 DEF Oldest
    <3>4. ASSUME NEW a \in Jobs, NEW b \in Jobs,
                 row'[a].state # "absent", row'[b].state # "absent",
                 row'[a].created < row'[b].created, row'[b].state # "queued"
          PROVE  row'[a].state # "queued"
      <4>1. CASE a = j
        BY <2>3, <4>1
      <4>2. CASE a # j /\ b = j
        BY <2>1, <2>3, <3>1, <3>2, <3>3, <3>4, <4>2 DEF Claimable
      <4>3. CASE a # j /\ b # j
        BY <3>2, <3>4, <4>3 DEF IInv, FirstComeFirstServed, Absent, Claimable
      <4>4. QED BY <4>1, <4>2, <4>3
    <3>5. QED
      BY <3>4 DEF FirstComeFirstServed, Absent, Claimable
  <2>15. QED
    BY <1>0, <2>6, <2>7, <2>8, <2>9, <2>10, <2>11, <2>12, <2>13, <2>14 DEF IInv
<1>12. ASSUME NEW w \in Workers, WindRefuse(w) PROVE IInv'
  <2>1. /\ pc[w] \in Owning /\ "answered" \in Owning
        /\ pc' = [pc EXCEPT ![w] = "answered"]
        /\ UNCHANGED <<row, writer, api, clock, cur, claims, lost>>
    BY <1>12 DEF WindRefuse, Goto, Owning, tableVars, history
  <2>2. WorkerState'
    BY <1>12, <2>1 DEF IInv, TypeOK, WorkerState, Owning, Outcomes, WindRefuse, Goto
  <2>3. QED
    BY <1>0, <2>1, <2>2, OwnerMoves
<1>13. ASSUME NEW w \in Workers, CallEngine(w) PROVE IInv'
  <2>1. /\ pc[w] \in Owning /\ "solving" \in Owning
        /\ pc' = [pc EXCEPT ![w] = "solving"]
        /\ UNCHANGED <<row, writer, api, clock, cur, claims, lost>>
    BY <1>13 DEF CallEngine, Goto, Owning, tableVars, history
  <2>2. WorkerState'
    BY <1>13, <2>1 DEF IInv, TypeOK, WorkerState, Owning, Outcomes, CallEngine, Goto
  <2>3. QED
    BY <1>0, <2>1, <2>2, OwnerMoves
<1>14. ASSUME NEW w \in Workers, EngineAnswers(w) PROVE IInv'
  <2>1. /\ pc[w] \in Owning /\ "answered" \in Owning
        /\ pc' = [pc EXCEPT ![w] = "answered"]
        /\ UNCHANGED <<row, writer, api, clock, cur, claims, lost>>
    BY <1>14 DEF EngineAnswers, Goto, Owning, tableVars, history
  <2>2. WorkerState'
    BY <1>14, <2>1 DEF IInv, TypeOK, WorkerState, Owning, Outcomes, EngineAnswers, Goto
  <2>3. QED
    BY <1>0, <2>1, <2>2, OwnerMoves
<1>15. ASSUME NEW w \in Workers, EngineRaises(w) PROVE IInv'
  <2>1. /\ pc[w] \in Owning /\ "raised" \in Owning
        /\ pc' = [pc EXCEPT ![w] = "raised"]
        /\ UNCHANGED <<row, writer, api, clock, cur, claims, lost>>
    BY <1>15 DEF EngineRaises, Goto, Owning, tableVars, history
  <2>2. WorkerState'
    BY <1>15, <2>1 DEF IInv, TypeOK, WorkerState, Owning, Outcomes, EngineRaises, Goto
  <2>3. QED
    BY <1>0, <2>1, <2>2, OwnerMoves
<1>16. ASSUME NEW w \in Workers, FinishWithResponse(w) PROVE IInv'
  <2>1. /\ resp[w] \in Payloads
        /\ cur[w] \in Windy => resp[w].outcome = "infeasible"
    BY <1>16 DEF IInv, WorkerState, FinishWithResponse, Payloads, Outcomes
  <2>2. QED
    BY <1>0, <1>16, <2>1, TerminalWrite DEF FinishWithResponse, Owning, history
<1>17. ASSUME NEW w \in Workers, FinishRefused(w) PROVE IInv'
  <2>1. /\ pc[w] \in Owning /\ "raised" \in Owning
        /\ pc' = [pc EXCEPT ![w] = "raised"]
        /\ UNCHANGED <<row, writer, api, clock, cur, claims, lost>>
    BY <1>17 DEF FinishRefused, Goto, Owning, tableVars, history
  <2>2. WorkerState'
    BY <1>17, <2>1 DEF IInv, TypeOK, WorkerState, Owning, Outcomes, FinishRefused, Goto
  <2>3. QED
    BY <1>0, <2>1, <2>2, OwnerMoves
<1>18. ASSUME NEW w \in Workers, MarkFailed(w) PROVE IInv'
  <2> DEFINE e == [job |-> cur[w], outcome |-> "exception"]
  <2>1. cur[w] \in Jobs /\ row[cur[w]].state = "running"
    BY <1>18 DEF IInv, Ownership, MarkFailed, Owning
  <2>2. e \in Payloads /\ e.job = cur[w] /\ e.outcome = "exception"
    BY <2>1 DEF Payloads
  <2>3. /\ row' = [row EXCEPT ![cur[w]] = Finished(@, e)]
        /\ pc' = [pc EXCEPT ![w] = "loop"] /\ Forget(w)
        /\ UNCHANGED <<writer, api, clock, history>>
        /\ writer = Nobody /\ pc[w] \in Owning
    BY <1>18, <2>1 DEF MarkFailed, Owning
  <2> HIDE DEF e
  <2>4. QED
    BY <1>0, <2>2, <2>3, TerminalWrite
<1>19. ASSUME NEW w \in Workers, FinishFails(w) PROVE IInv'
  <2>1. /\ pc[w] \in Owning /\ "raised" \in Owning
        /\ pc' = [pc EXCEPT ![w] = "raised"]
        /\ UNCHANGED <<row, writer, api, clock, cur, claims, lost>>
    BY <1>19 DEF FinishFails, Goto, Owning, tableVars, history
  <2>2. WorkerState'
    BY <1>19, <2>1 DEF IInv, TypeOK, WorkerState, Owning, Outcomes, FinishFails, Goto
  <2>3. QED
    BY <1>0, <2>1, <2>2, OwnerMoves
<1>20. ASSUME NEW w \in Workers, Crash(w) PROVE IInv'
  <2>1. /\ pc' = [pc EXCEPT ![w] = "dead"]
        /\ cur' = [cur EXCEPT ![w] = Nobody] /\ resp' = [resp EXCEPT ![w] = Nobody]
        /\ writer' = IF writer = w THEN Nobody ELSE writer
        /\ lost' = IF pc[w] \in Owning THEN lost \cup {cur[w]} ELSE lost
        /\ UNCHANGED <<row, api, clock, claims>>
    BY <1>20 DEF Crash, Dies, Forget, Fault
  <2>2. /\ pc'[w] = "dead"
        /\ \A v \in Workers : v # w =>
             pc'[v] = pc[v] /\ cur'[v] = cur[v] /\ resp'[v] = resp[v]
    BY <2>1 DEF IInv, TypeOK
  <2>3. LockHolder'
    BY <2>1, <2>2 DEF IInv, LockHolder
  <2>4. WorkerState'
    BY <2>2 DEF IInv, WorkerState, Owning
  <2>5. SelectionIsFresh'
    BY <2>1, <2>2 DEF IInv, SelectionIsFresh, Oldest, Claimable
  <2>6. LostIsRunning' /\ Stamps'
    BY <2>1 DEF IInv, LostIsRunning, Stamps, Ownership, Absent
  <2>7. Ownership'
    <3>1. ASSUME NEW v \in Workers, pc'[v] \in Owning
          PROVE  v # w /\ pc[v] \in Owning /\ cur'[v] = cur[v]
                 /\ cur[v] \in Jobs \ lost' /\ row[cur[v]].state = "running"
      BY <2>1, <2>2, <3>1 DEF IInv, Ownership, Owning
    <3>2. \A u, v \in Workers :
            pc'[u] \in Owning /\ pc'[v] \in Owning /\ cur'[u] = cur'[v] => u = v
      BY <3>1 DEF IInv, Ownership
    <3>3. ASSUME NEW j \in Jobs, row'[j].state = "running"
          PROVE  j \in lost' \/ \E v \in Workers : pc'[v] \in Owning /\ cur'[v] = j
      <4>1. j \in lost \/ \E v \in Workers : pc[v] \in Owning /\ cur[v] = j
        BY <2>1, <3>3 DEF IInv, Ownership
      <4>2. QED BY <2>1, <2>2, <4>1
    <3>4. QED BY <2>1, <3>1, <3>2, <3>3 DEF Ownership
  <2>8. StartedAtMostOnce' /\ AnswerFitsState' /\ FirstComeFirstServed'
    BY <2>1 DEF IInv, StartedAtMostOnce, AnswerFitsState, FirstComeFirstServed,
                ResultView, Absent, Claimable
  <2>9. QED
    BY <1>0, <2>3, <2>4, <2>5, <2>6, <2>7, <2>8 DEF IInv
<1>21. ASSUME NEW w \in Workers, Restart(w) PROVE IInv'
  <2>1. /\ pc[w] \notin Owning /\ "loop" \notin Owning
        /\ pc' = [pc EXCEPT ![w] = "loop"]
        /\ \A v \in Workers : v # w => cur'[v] = cur[v]
        /\ UNCHANGED <<row, api, clock, resp, claims, lost>>
    BY <1>21 DEF Restart, IInv, TypeOK, Owning, tableVars, history
  <2>2. LockHolder'
    BY <1>21, <2>1 DEF IInv, TypeOK, LockHolder, Restart, tableVars
  <2>3. WorkerState' /\ SelectionIsFresh'
    BY <1>21, <2>1, <2>2 DEF IInv, TypeOK, LockHolder, WorkerState, SelectionIsFresh,
       Owning, Oldest, Claimable, Restart, tableVars
  <2>4. QED
    BY <1>0, <2>1, <2>2, <2>3, IdleMoves
<1>22. CASE UNCHANGED vars
  <2>1. UNCHANGED <<row, writer, api, clock, pc, cur, resp, claims, lost>>
    BY <1>22 DEF vars
  <2>2. Stamps'
    BY <2>1 DEF IInv, Stamps, Absent
  <2>3. QED
    BY <1>0, <2>1, <2>2, TableKept, WorkersKept DEF IInv
<1>23. QED
  BY <1>1, <1>2, <1>3, <1>4, <1>5, <1>6, <1>7, <1>8, <1>9, <1>10, <1>11,
     <1>12, <1>13, <1>14, <1>15, <1>16, <1>17, <1>18, <1>19, <1>20, <1>21, <1>22
  DEF Next, Api, Poll, Work

(* The invariant holds in every reachable state, for any sets of jobs and
   workers and any number of submissions, faults and stop signals. *)
LEMMA Invariance == Spec => []IInv
<1>1. Init => IInv
  BY JobsAssumption, NobodyIsNoPayload
  DEF Init, IInv, TypeOK, LockHolder, WorkerState, LostIsRunning, Stamps, Ownership,
      StartedAtMostOnce, SelectionIsFresh, AnswerFitsState, FirstComeFirstServed,
      NoRow, Rows, Absent, Claimable, ResultView, Alive, Owning
<1>2. IInv /\ [Next]_vars => IInv'
  BY InvStep
<1>3. QED
  BY <1>1, <1>2, PTL DEF Spec

(* Every variable keeps its type. *)
THEOREM TypeCorrect == Spec => []TypeOK
<1>1. IInv => TypeOK
  BY DEF IInv
<1>2. QED
  BY <1>1, Invariance, PTL

(* The claim of store.py gives every running job one owner, whatever the workers
   do in between and whichever of them die. *)
THEOREM OwnershipHolds == Spec => []Ownership
<1>1. IInv => Ownership
  BY DEF IInv
<1>2. QED
  BY <1>1, Invariance, PTL

(* No job is moved to running twice: no restart duplicates a running job. *)
THEOREM NoSecondStart == Spec => []StartedAtMostOnce
<1>1. IInv => StartedAtMostOnce
  BY DEF IInv
<1>2. QED
  BY <1>1, Invariance, PTL

(* BEGIN IMMEDIATE keeps the selected row from changing until the UPDATE, so the
   ROLLBACK branch of the claim is never taken. *)
THEOREM SelectionStaysFresh == Spec => []SelectionIsFresh
<1>1. IInv => SelectionIsFresh
  BY DEF IInv
<1>2. QED
  BY <1>1, Invariance, PTL

(* A terminal row holds the answer for its own job in the column of its state. *)
THEOREM AnswersFit == Spec => []AnswerFitsState
<1>1. IInv => AnswerFitsState
  BY DEF IInv
<1>2. QED
  BY <1>1, Invariance, PTL

(* Jobs leave the queue in the order of submission. *)
THEOREM QueueOrder == Spec => []FirstComeFirstServed
<1>1. IInv => FirstComeFirstServed
  BY DEF IInv
<1>2. QED
  BY <1>1, Invariance, PTL

(* The lifecycle answer a row shows after the terminal UPDATE. *)
LEMMA FinishedAnswer ==
  ASSUME NEW r \in Rows, NEW p \in Payloads,
         r.result = Nobody, r.error = Nobody
  PROVE  /\ AnswerOf(Finished(r, p)) = p.outcome
         /\ Finished(r, p).state = Lifecycle!StateOf(p.outcome)
         /\ p.outcome \in Lifecycle!Answers
<1>1. /\ Finished(r, p).state = "failed"
           <=> p.outcome \in {"error", "exception"}
      /\ Finished(r, p).state = "failed"
           => Finished(r, p).result = r.result /\ Finished(r, p).error = p
      /\ Finished(r, p).state # "failed"
           => /\ Finished(r, p).result = p
              /\ Finished(r, p).state = IF p.outcome = "timed_out"
                                        THEN "timed_out" ELSE "completed"
  BY FinishedRow
<1>2. p # Nobody /\ p.outcome \in Outcomes \cup {"exception"}
  BY NobodyIsNoPayload DEF Payloads
<1>3. AnswerOf(Finished(r, p)) = p.outcome
  BY <1>1, <1>2 DEF AnswerOf
<1>4. QED
  BY <1>1, <1>2, <1>3 DEF Lifecycle!StateOf, Lifecycle!Answers, Outcomes

(* The terminal UPDATE of a running row, by whichever worker, is the abstract
   Finish of that job. *)
LEMMA FinishMaps ==
  ASSUME IInv, NEW j \in Jobs, NEW p \in Payloads,
         row[j].state = "running",
         row' = [row EXCEPT ![j] = Finished(@, p)]
  PROVE  Lifecycle!Finish(j, p.outcome) /\ p.outcome \in Lifecycle!Answers
<1>1. row \in [Jobs -> Rows] /\ row[j].result = Nobody /\ row[j].error = Nobody
  BY DEF IInv, TypeOK, AnswerFitsState
<1>2. /\ AnswerOf(Finished(row[j], p)) = p.outcome
      /\ Finished(row[j], p).state = Lifecycle!StateOf(p.outcome)
      /\ p.outcome \in Lifecycle!Answers
  BY <1>1, FinishedAnswer
<1>3. /\ row'[j] = Finished(row[j], p)
      /\ \A k \in Jobs : k # j => row'[k] = row[k]
  BY <1>1
<1>4. row'[j].state = Lifecycle!StateOf(p.outcome) /\ AnswerOf(row'[j]) = p.outcome
  BY <1>2, <1>3
<1>5. PICK s : s = Lifecycle!StateOf(p.outcome)
  OBVIOUS
<1>6. PICK a : a = p.outcome
  OBVIOUS
<1>7. /\ row'[j].state = s /\ AnswerOf(row'[j]) = a
      /\ \A k \in Jobs : k # j => row'[k] = row[k]
  BY <1>3, <1>4, <1>5, <1>6
<1>8. \A k \in Jobs : /\ row'[k].state = IF k = j THEN s ELSE row[k].state
                     /\ AnswerOf(row'[k]) = IF k = j THEN a ELSE AnswerOf(row[k])
  BY <1>7
<1>9. [k \in Jobs |-> row'[k].state] = [[k \in Jobs |-> row[k].state] EXCEPT ![j] = s]
  BY <1>8
<1>10. [k \in Jobs |-> AnswerOf(row'[k])]
         = [[k \in Jobs |-> AnswerOf(row[k])] EXCEPT ![j] = a]
  BY <1>8
<1>11. [k \in Jobs |-> AnswerOf(row[k])]' = [k \in Jobs |-> AnswerOf(row'[k])]
  BY DEF AnswerOf
<1>12. QED
  BY <1>2, <1>5, <1>6, <1>9, <1>10, <1>11 DEF Lifecycle!Finish

(* Every step of the backend is a step of the lifecycle or leaves it alone. *)
LEMMA StepMaps ==
  ASSUME IInv, [Next]_vars
  PROVE  [Lifecycle!Next]_(Lifecycle!vars)
<1> USE JobsAssumption, NobodyIsNoPayload
<1>1. CASE UNCHANGED row
  BY <1>1 DEF Lifecycle!vars
<1>2. CASE SubmitInsert
  <2>1. PICK j \in Jobs : j = api.job
    BY <1>2 DEF IInv, Stamps, SubmitInsert
  <2>2. row[j].state = "absent" /\ AnswerOf(row[j]) = Nobody
    BY <1>2, <2>1 DEF IInv, AnswerFitsState, AnswerOf, SubmitInsert, Absent
  <2>3. /\ row'[j] = [NoRow EXCEPT !.state = "queued", !.created = api.stamp]
        /\ \A k \in Jobs : k # j => row'[k] = row[k]
    BY <1>2, <2>1 DEF IInv, TypeOK, SubmitInsert
  <2>4. row'[j].state = "queued" /\ AnswerOf(row'[j]) = Nobody
    BY <2>3 DEF NoRow, AnswerOf
  <2>5. \A k \in Jobs : AnswerOf(row'[k]) = AnswerOf(row[k])
    BY <2>2, <2>3, <2>4
  <2>6. [k \in Jobs |-> AnswerOf(row[k])]' = [k \in Jobs |-> AnswerOf(row[k])]
    BY <2>5 DEF AnswerOf
  <2>7. Lifecycle!Submit(j)
    BY <2>2, <2>3, <2>4, <2>6 DEF Lifecycle!Submit
  <2>8. QED
    BY <2>7 DEF Lifecycle!Next
<1>3. ASSUME NEW w \in Workers, ClaimUpdate(w)
      PROVE  [Lifecycle!Next]_(Lifecycle!vars)
  <2>1. PICK j \in Jobs : j = cur[w]
    BY <1>3 DEF IInv, WorkerState, ClaimUpdate
  <2>2. row[j].state = "queued" /\ row \in [Jobs -> Rows]
    BY <1>3, <2>1 DEF IInv, TypeOK, SelectionIsFresh, ClaimUpdate, Oldest, Claimable
  <2>3. /\ row'[j] = [row[j] EXCEPT !.state = "running"]
        /\ \A k \in Jobs : k # j => row'[k] = row[k]
    BY <1>3, <2>1, <2>2 DEF ClaimUpdate, Claimable
  <2>4. /\ row'[j].state = "running"
        /\ row'[j].result = row[j].result
        /\ row'[j].error = row[j].error
    BY <2>2, <2>3 DEF Rows
  <2>5. \A k \in Jobs : AnswerOf(row'[k]) = AnswerOf(row[k])
    BY <2>3, <2>4 DEF AnswerOf
  <2>6. [k \in Jobs |-> AnswerOf(row[k])]' = [k \in Jobs |-> AnswerOf(row[k])]
    BY <2>5 DEF AnswerOf
  <2>7. Lifecycle!Start(j)
    BY <2>2, <2>3, <2>4, <2>6 DEF Lifecycle!Start
  <2>8. QED
    BY <2>7 DEF Lifecycle!Next
<1>4. ASSUME NEW w \in Workers, FinishWithResponse(w)
      PROVE  [Lifecycle!Next]_(Lifecycle!vars)
  <2>1. cur[w] \in Jobs /\ resp[w] \in Payloads
    BY <1>4 DEF IInv, WorkerState, FinishWithResponse, Owning, Payloads
  <2>2. PICK j \in Jobs, p \in Payloads : j = cur[w] /\ p = resp[w]
    BY <2>1
  <2>3. row[j].state = "running" /\ row' = [row EXCEPT ![j] = Finished(@, p)]
    BY <1>4, <2>2 DEF FinishWithResponse
  <2>4. Lifecycle!Finish(j, p.outcome) /\ p.outcome \in Lifecycle!Answers
    BY <2>3, FinishMaps
  <2>5. QED
    BY <2>4 DEF Lifecycle!Next
<1>5. ASSUME NEW w \in Workers, MarkFailed(w)
      PROVE  [Lifecycle!Next]_(Lifecycle!vars)
  <2>1. PICK j \in Jobs : j = cur[w]
    BY <1>5 DEF IInv, WorkerState, MarkFailed, Owning
  <2> DEFINE e == [job |-> j, outcome |-> "exception"]
  <2>2. row[j].state = "running"
    BY <1>5, <2>1 DEF IInv, Ownership, MarkFailed, Owning
  <2>3. row' = [row EXCEPT ![j] = Finished(@, e)] /\ e \in Payloads
    BY <1>5, <2>1, <2>2 DEF MarkFailed, Payloads
  <2>4. Lifecycle!Finish(j, e.outcome) /\ e.outcome \in Lifecycle!Answers
    <3> HIDE DEF e
    <3>1. QED BY <2>2, <2>3, FinishMaps
  <2>5. QED
    BY <2>4 DEF Lifecycle!Next
<1>6. QED
  <2>1. ASSUME NEW w \in Workers,
               Poll(w) \/ Work(w) \/ RequestStop(w) \/ FinishFails(w) \/ Crash(w)
                 \/ Restart(w),
               ~ ClaimUpdate(w), ~ FinishWithResponse(w), ~ MarkFailed(w)
        PROVE  UNCHANGED row
    BY <2>1 DEF Poll, Work, CheckStop, ClaimBegin, ClaimSelect, ClaimNothing,
       WindRefuse, CallEngine, EngineAnswers, EngineRaises, FinishRefused,
       RequestStop, FinishFails, Crash, Dies, Restart, tableVars
  <2>2. Api => SubmitInsert \/ UNCHANGED row
    BY DEF Api, SubmitStamp, SubmitDuplicate, SubmitReload, SubmitFails, tableVars
  <2>3. QED
    BY <1>1, <1>2, <1>3, <1>4, <1>5, <2>1, <2>2 DEF Next, vars

(* The API, the job store and the workers together implement the lifecycle the
   browser is promised. *)
THEOREM Refinement == Spec => ImplementsLifecycle
<1>1. Init => Lifecycle!Init
  BY DEF Init, NoRow, AnswerOf, Lifecycle!Init
<1>2. IInv /\ [Next]_vars => [Lifecycle!Next]_(Lifecycle!vars)
  BY StepMaps
<1>3. QED
  BY <1>1, <1>2, Invariance, PTL DEF Spec, ImplementsLifecycle, Lifecycle!Spec

(* Once a row is terminal no step changes it. *)
LEMMA TerminalStep ==
  ASSUME IInv, [Next]_vars, NEW j \in Jobs, row[j].state \in Terminal
  PROVE  row'[j] = row[j]
<1>1. row \in [Jobs -> Rows]
  BY DEF IInv, TypeOK
<1>2. CASE UNCHANGED row
  BY <1>2
<1>3. CASE SubmitInsert
  BY <1>1, <1>3 DEF SubmitInsert, Absent, Terminal
<1>4. ASSUME NEW w \in Workers, ClaimUpdate(w) PROVE row'[j] = row[j]
  BY <1>1, <1>4 DEF ClaimUpdate, Claimable, Terminal
<1>5. ASSUME NEW w \in Workers, FinishWithResponse(w) PROVE row'[j] = row[j]
  BY <1>1, <1>5 DEF FinishWithResponse, Terminal
<1>6. ASSUME NEW w \in Workers, MarkFailed(w) PROVE row'[j] = row[j]
  BY <1>1, <1>6 DEF MarkFailed, Dies, Terminal
<1>7. QED
  <2>1. ASSUME NEW w \in Workers,
               Poll(w) \/ Work(w) \/ RequestStop(w) \/ FinishFails(w) \/ Crash(w)
                 \/ Restart(w),
               ~ ClaimUpdate(w), ~ FinishWithResponse(w), ~ MarkFailed(w)
        PROVE  UNCHANGED row
    BY <2>1 DEF Poll, Work, CheckStop, ClaimBegin, ClaimSelect, ClaimNothing,
       WindRefuse, CallEngine, EngineAnswers, EngineRaises, FinishRefused,
       RequestStop, FinishFails, Crash, Dies, Restart, tableVars
  <2>2. Api => SubmitInsert \/ UNCHANGED row
    BY DEF Api, SubmitStamp, SubmitDuplicate, SubmitReload, SubmitFails, tableVars
  <2>3. QED
    BY <1>2, <1>3, <1>4, <1>5, <1>6, <2>1, <2>2 DEF Next, vars

(* A terminal state is final: status and result, read by separate requests,
   agree from then on. *)
THEOREM TerminalStays == Spec => TerminalIsFinal
<1>1. IInv /\ [Next]_vars =>
        [\A j \in Jobs : row[j].state \in Terminal => row'[j] = row[j]]_vars
  BY TerminalStep
<1>2. QED
  BY <1>1, Invariance, PTL DEF Spec, TerminalIsFinal

(* A worker lets go of its job only where it writes an answer, or in a fault. *)
LEMMA GracefulStep ==
  ASSUME IInv, [Next]_vars,
         NEW w \in Workers, pc[w] \in Owning, cur'[w] # cur[w]
  PROVE  row'[cur[w]].state \in Terminal \/ faults' > faults
<1> USE JobsAssumption
<1>1. /\ cur \in [Workers -> Jobs \cup {Nobody}] /\ row \in [Jobs -> Rows]
      /\ cur[w] \in Jobs /\ row[cur[w]].state = "running" /\ faults \in Nat
  BY DEF IInv, TypeOK, Ownership
<1>2. \A p : Finished(row[cur[w]], p).state \in Terminal
  BY <1>1 DEF Finished, Terminal, Rows
<1>3. ASSUME NEW v \in Workers, v # w, Poll(v) \/ Work(v) \/ Crash(v)
      PROVE  FALSE
  BY <1>1, <1>3 DEF Poll, Work, CheckStop, ClaimBegin, ClaimSelect, ClaimNothing,
     ClaimUpdate, WindRefuse, CallEngine, EngineAnswers, EngineRaises,
     FinishWithResponse, FinishRefused, MarkFailed, Crash, Dies, Forget
<1>4. ASSUME Poll(w)
      PROVE  FALSE
  BY <1>1, <1>4 DEF Poll, CheckStop, ClaimBegin, ClaimSelect, ClaimNothing,
     ClaimUpdate, Goto, Owning
<1>5. CASE FinishWithResponse(w)
  BY <1>1, <1>2, <1>5 DEF FinishWithResponse
<1>6. CASE MarkFailed(w)
  BY <1>1, <1>2, <1>6 DEF MarkFailed
<1>7. CASE Crash(w)
  BY <1>1, <1>7 DEF Crash, Fault
<1>8. ASSUME NEW v \in Workers, RequestStop(v) \/ FinishFails(v) \/ Restart(v)
      PROVE  FALSE
  BY <1>8 DEF RequestStop, FinishFails, Restart
<1>9. ASSUME Api \/ UNCHANGED vars
      PROVE  FALSE
  BY <1>9 DEF Api, SubmitStamp, SubmitInsert, SubmitDuplicate, SubmitReload,
     SubmitFails, workerVars, vars
<1>10. ASSUME Work(w), ~ FinishWithResponse(w), ~ MarkFailed(w)
       PROVE  FALSE
  BY <1>10 DEF Work, WindRefuse, CallEngine, EngineAnswers, EngineRaises, FinishRefused
<1>11. QED BY <1>3, <1>4, <1>5, <1>6, <1>7, <1>8, <1>9, <1>10 DEF Next

(* SIGTERM is graceful: a worker that owns a job goes on until its answer is written,
   wherever the signal meets it; only a fault takes the job from it. *)
THEOREM StopsGracefully == Spec => StopIsGraceful
<1>1. IInv /\ [Next]_vars =>
        [\A w \in Workers :
           pc[w] \in Owning /\ cur'[w] # cur[w] =>
             \/ row'[cur[w]].state \in Terminal
             \/ faults' > faults]_vars
  BY GracefulStep
<1>2. QED
  BY <1>1, Invariance, PTL DEF Spec, StopIsGraceful

=============================================================================
