------------------------- MODULE FrontendPollProofs -------------------------
(***************************************************************************)
(* Proofs about FrontendPoll for any number of submissions and any set of  *)
(* jobs: what the screen shows is the current run's, consistent with the   *)
(* backend, and only the current run sends requests.                       *)
(***************************************************************************)
EXTENDS FrontendPoll, TLAPS

(* The terminal states and what an answer leads to. *)
LEMMA Finals ==
  /\ \A a \in Backend!Answers : Backend!StateOf(a) \in Backend!Terminal
  /\ Backend!Terminal \subseteq Visible
  /\ Visible \subseteq Backend!States
  /\ \A s \in Visible : s \in {"queued", "running"} \cup Backend!Terminal
BY DEF Backend!Answers, Backend!StateOf, Backend!Terminal, Visible, Backend!States

(* A worker's or the API's write to the row keeps types, never changes a
   terminal row, never goes back, and keeps state and answer together. *)
LEMMA RowStep ==
  ASSUME Backend!TypeOK, RowsAgree, Backend!Next \/ UNCHANGED backend
  PROVE  /\ Backend!TypeOK'
         /\ RowsAgree'
         /\ \A j \in Jobs :
              /\ state[j] # "absent" => state'[j] # "absent"
              /\ state[j] # "absent" => Rank(state[j]) <= Rank(state'[j])
              /\ state[j] \in Backend!Terminal => state'[j] = state[j]
              /\ answer[j] # None => answer'[j] = answer[j]
<1> USE NoneAssumption DEF Backend!TypeOK, RowsAgree, backend, Backend!States,
        Backend!Terminal, Rank
<1>1. CASE UNCHANGED backend
  BY <1>1
<1>2. ASSUME NEW j \in Jobs, Backend!Submit(j)
      PROVE  /\ Backend!TypeOK' /\ RowsAgree'
             /\ \A i \in Jobs :
                  /\ state[i] # "absent" => state'[i] # "absent"
                  /\ state[i] # "absent" => Rank(state[i]) <= Rank(state'[i])
                  /\ state[i] \in Backend!Terminal => state'[i] = state[i]
                  /\ answer[i] # None => answer'[i] = answer[i]
  BY <1>2 DEF Backend!Submit
<1>3. ASSUME NEW j \in Jobs, Backend!Start(j)
      PROVE  /\ Backend!TypeOK' /\ RowsAgree'
             /\ \A i \in Jobs :
                  /\ state[i] # "absent" => state'[i] # "absent"
                  /\ state[i] # "absent" => Rank(state[i]) <= Rank(state'[i])
                  /\ state[i] \in Backend!Terminal => state'[i] = state[i]
                  /\ answer[i] # None => answer'[i] = answer[i]
  BY <1>3 DEF Backend!Start
<1>4. ASSUME NEW j \in Jobs, NEW a \in Backend!Answers, Backend!Finish(j, a)
      PROVE  /\ Backend!TypeOK' /\ RowsAgree'
             /\ \A i \in Jobs :
                  /\ state[i] # "absent" => state'[i] # "absent"
                  /\ state[i] # "absent" => Rank(state[i]) <= Rank(state'[i])
                  /\ state[i] \in Backend!Terminal => state'[i] = state[i]
                  /\ answer[i] # None => answer'[i] = answer[i]
  <2>1. Backend!StateOf(a) \in Backend!Terminal /\ a # None
    BY Finals
  <2>2. QED BY <1>4, <2>1 DEF Backend!Finish
<1>5. QED BY <1>1, <1>2, <1>3, <1>4 DEF Backend!Next

(* Every step is one of these with regard to the backend's table. *)
LEMMA RowMoves ==
  ASSUME [Next]_vars
  PROVE  Backend!Next \/ UNCHANGED backend
BY DEF Next, vars, Submit, SubmitInvalid, Unmount, Work, Serve, ServePost,
       ServeStatus, ServeResult, Reply, Take, TakePost, TakeStatus, TakeResult,
       Proceed, End, Wake, Fail, Cancelled, Backend!Next, backend

(* Every step keeps the types. *)
LEMMA TypeStep ==
  ASSUME IInv, [Next]_vars
  PROVE  TypeOK'
<1> USE GenerationsAssumption
<1>1. Backend!TypeOK'
  BY RowStep, RowMoves DEF IInv, TypeOK
<1>2. CASE Submit \/ SubmitInvalid
  <2>1. observedStates' \in Seq(Visible) /\ IsInjective(observedStates')
    <3>1. observedStates' = <<>>
      BY <1>2 DEF Submit, SubmitInvalid, ClearScreen
    <3>2. IsInjective(<<>>)
      BY DEF IsInjective
    <3>3. QED BY <3>1, <3>2
  <2>2. aborted' \in [Generations -> BOOLEAN]
    BY <1>2 DEF Submit, SubmitInvalid, Advance, AbortPrevious, IInv, TypeOK, IsCurrent
  <2>3. /\ generation' \in 0 .. MaxGenerations + 1
        /\ phase' \in [Generations -> Live \cup {"idle", "over"}]
    BY <1>2 DEF Submit, SubmitInvalid, CanSubmit, Advance, IInv, TypeOK, Generations,
       Live, InFlight
  <2>4. /\ error' \in BOOLEAN /\ isSubmitting' \in BOOLEAN /\ isPolling' \in BOOLEAN
        /\ job' = None /\ result' = None
        /\ UNCHANGED <<mounted, jobOf, reply>>
    BY <1>2 DEF Submit, SubmitInvalid, ClearScreen
  <2>5. QED
    BY <1>1, <2>1, <2>2, <2>3, <2>4 DEF IInv, TypeOK
<1>3. CASE Unmount
  <2>1. aborted' \in [Generations -> BOOLEAN]
    BY <1>3 DEF Unmount, Advance, AbortPrevious, IInv, TypeOK, IsCurrent
  <2>2. generation' \in 0 .. MaxGenerations + 1
    BY <1>3 DEF Unmount, Advance, IInv, Turns
  <2>3. QED
    BY <1>1, <1>3, <2>1, <2>2 DEF IInv, TypeOK, Unmount, screen
<1>4. CASE Work
  BY <1>1, <1>4 DEF IInv, TypeOK, Work, requests, screen
<1>5. ASSUME NEW g \in Generations, Serve(g)
      PROVE  TypeOK'
  <2>1. CASE ServePost(g)
    BY <1>1, <2>1 DEF IInv, TypeOK, ServePost, screen
  <2>2. CASE ServeStatus(g)
    <3>1. state[jobOf[g]] \in Visible
      BY <2>2 DEF IInv, TypeOK, RepliesHold, ReplyHolds, ServeStatus, Visible, Backend!TypeOK
    <3>2. QED BY <1>1, <2>2, <3>1 DEF IInv, TypeOK, ServeStatus, Reply, screen
  <2>3. CASE ServeResult(g)
    <3>1. jobOf[g] \in Jobs /\ answer[jobOf[g]] \in Backend!Answers
      BY <2>3 DEF IInv, TypeOK, RepliesHold, ReplyHolds, ServeResult, Backend!TypeOK
    <3>2. QED BY <1>1, <2>3, <3>1 DEF IInv, TypeOK, ServeResult, Reply, screen
  <2>4. QED BY <1>5, <2>1, <2>2, <2>3 DEF Serve
<1>6. ASSUME NEW g \in Generations,
             Take(g) \/ Wake(g) \/ Fail(g) \/ Cancelled(g)
      PROVE  /\ phase' \in [Generations -> Live \cup {"idle", "over"}]
             /\ reply' \in [Generations -> Visible \cup Backend!Answers
                                           \cup {"result_not_ready", None}]
             /\ UNCHANGED <<mounted, generation, aborted, jobOf>>
  BY <1>6 DEF IInv, TypeOK, Take, TakePost, TakeStatus, TakeResult, Wake, Fail,
     Cancelled, Proceed, End, Live, InFlight
<1>7. ASSUME NEW g \in Generations,
             Take(g) \/ Wake(g) \/ Fail(g) \/ Cancelled(g)
      PROVE  /\ job' \in [of : Generations, state : Visible] \cup {None}
             /\ observedStates' \in Seq(Visible) /\ IsInjective(observedStates')
             /\ result' \in [of : Generations, answer : Backend!Answers] \cup {None}
             /\ error' \in BOOLEAN /\ isSubmitting' \in BOOLEAN
             /\ isPolling' \in BOOLEAN
  <2>1. CASE TakePost(g)
    <3>1. reply[g] \in Visible
      BY <2>1 DEF TakePost, IInv, RepliesHold, ReplyHolds
    <3>2. IsInjective(<<reply[g]>>)
      BY DEF IsInjective
    <3>3. CASE IsCurrent(g)
      <4>1. job' = [of |-> g, state |-> reply[g]] /\ observedStates' = <<reply[g]>>
        BY <2>1, <3>3 DEF TakePost
      <4>2. UNCHANGED <<result, error>> /\ isSubmitting' = FALSE /\ isPolling' = TRUE
        BY <2>1, <3>3 DEF TakePost
      <4>3. observedStates' \in Seq(Visible)
        BY <3>1, <4>1
      <4>4. QED BY <3>1, <3>2, <4>1, <4>2, <4>3 DEF IInv, TypeOK
    <3>4. CASE ~ IsCurrent(g)
      BY <2>1, <3>4 DEF TakePost, IInv, TypeOK, screen
    <3>5. QED BY <3>3, <3>4
  <2>2. CASE TakeStatus(g)
    <3>1. reply[g] \in Visible
      BY <2>2 DEF TakeStatus, IInv, RepliesHold, ReplyHolds
    <3>2. ~ Contains(observedStates, reply[g]) =>
            IsInjective(Append(observedStates, reply[g]))
      BY <3>1 DEF IInv, TypeOK, IsInjective, Contains
    <3>3. Append(observedStates, reply[g]) \in Seq(Visible)
      BY <3>1 DEF IInv, TypeOK
    <3>4. CASE IsCurrent(g)
      <4>1. /\ job' = [of |-> g, state |-> reply[g]]
            /\ UNCHANGED <<result, error, isSubmitting, isPolling>>
        BY <2>2, <3>4 DEF TakeStatus, OnStatus
      <4>2. observedStates' = IF Contains(observedStates, reply[g])
                              THEN observedStates
                              ELSE Append(observedStates, reply[g])
        BY <2>2, <3>4 DEF TakeStatus, OnStatus
      <4>3. observedStates' \in Seq(Visible) /\ IsInjective(observedStates')
        <5>1. CASE Contains(observedStates, reply[g])
          BY <4>2, <5>1 DEF IInv, TypeOK
        <5>2. CASE ~ Contains(observedStates, reply[g])
          BY <3>2, <3>3, <4>2, <5>2
        <5>3. QED BY <5>1, <5>2
      <4>4. QED BY <3>1, <4>1, <4>3 DEF IInv, TypeOK
    <3>5. CASE ~ IsCurrent(g)
      BY <2>2, <3>5 DEF TakeStatus, OnStatus, IInv, TypeOK, screen
    <3>6. QED BY <3>4, <3>5
  <2>3. CASE TakeResult(g)
    BY <2>3 DEF TakeResult, SetResult, Finally, IInv, TypeOK
  <2>4. CASE Wake(g)
    BY <2>4 DEF Wake, IInv, TypeOK, screen
  <2>5. CASE Fail(g) \/ Cancelled(g)
    BY <2>5 DEF Fail, Cancelled, Finally, IInv, TypeOK
  <2>6. QED BY <1>7, <2>1, <2>2, <2>3, <2>4, <2>5 DEF Take
<1>8. ASSUME NEW g \in Generations,
             Take(g) \/ Wake(g) \/ Fail(g) \/ Cancelled(g)
      PROVE  TypeOK'
  BY <1>1, <1>6, <1>7, <1>8 DEF IInv, TypeOK
<1>9. CASE UNCHANGED vars
  BY <1>9, <1>1 DEF IInv, TypeOK, vars, backend, requests, screen
<1>10. QED
  BY <1>2, <1>3, <1>4, <1>5, <1>8, <1>9 DEF Next

(* Every step keeps the runs in turn. *)
LEMMA TurnsStep ==
  ASSUME IInv, [Next]_vars
  PROVE  Turns'
<1> USE GenerationsAssumption DEF Generations
<1>1. CASE Submit \/ SubmitInvalid \/ Unmount
  <2>1. /\ generation \in Nat /\ generation' = generation + 1
        /\ mounted => generation \in 0 .. MaxGenerations
    BY <1>1 DEF Submit, SubmitInvalid, Unmount, Advance, IInv, TypeOK, Turns
  <2>2. ASSUME NEW g \in Generations
        PROVE  aborted'[g] <=> aborted[g] \/ g = generation
    BY <1>1, <2>2 DEF Submit, SubmitInvalid, Unmount, Advance, AbortPrevious, IsCurrent
  <2>3. ASSUME NEW g \in Generations
        PROVE  aborted'[g] <=> g < generation'
    <3>1. g < generation' <=> (g < generation \/ g = generation)
      BY <2>1
    <3>2. aborted[g] <=> g < generation
      BY DEF IInv, Turns
    <3>3. QED BY <2>2, <3>1, <3>2
  <2>4. ASSUME NEW g \in Generations,
               g > generation' \/ (g = generation' /\ ~ mounted')
        PROVE  phase'[g] = "idle"
    <3>1. g > generation /\ phase'[g] = phase[g]
      BY <1>1, <2>1, <2>4 DEF Submit, SubmitInvalid, Unmount, CanSubmit, IInv, TypeOK
    <3>2. QED BY <3>1 DEF IInv, Turns
  <2>5. mounted' => generation' \in 0 .. MaxGenerations
    <3>1. CASE Unmount
      BY <3>1 DEF Unmount
    <3>2. CASE Submit \/ SubmitInvalid
      <4>1. generation < MaxGenerations
        BY <3>2 DEF Submit, SubmitInvalid, CanSubmit
      <4>2. QED BY <2>1, <4>1
    <3>3. QED BY <1>1, <3>1, <3>2
  <2>6. QED BY <2>3, <2>4, <2>5 DEF Turns
<1>3. CASE Work \/ UNCHANGED vars
  BY <1>3 DEF IInv, Turns, Work, vars, requests
<1>4. ASSUME NEW g \in Generations, Serve(g)
      PROVE  Turns'
  BY <1>4 DEF IInv, Turns, Serve, ServePost, ServeStatus, ServeResult, Reply
<1>5. ASSUME NEW g \in Generations,
             Take(g) \/ Wake(g) \/ Fail(g) \/ Cancelled(g)
      PROVE  /\ phase[g] # "idle"
             /\ \A h \in Generations : h # g => phase'[h] = phase[h]
             /\ UNCHANGED <<mounted, generation, aborted>>
  BY <1>5 DEF IInv, TypeOK, Take, TakePost, TakeStatus, TakeResult, Wake, Fail,
     Cancelled, Proceed, End, InFlight, Live
<1>6. ASSUME NEW g \in Generations,
             Take(g) \/ Wake(g) \/ Fail(g) \/ Cancelled(g)
      PROVE  Turns'
  BY <1>5, <1>6 DEF IInv, Turns
<1>7. QED
  BY <1>1, <1>3, <1>4, <1>6 DEF Next

(* A run that a step leaves alone keeps what is known of its response,
   whatever the step does to the backend's table. *)
LEMMA ReplyKept ==
  ASSUME IInv, [Next]_vars, NEW g \in Generations,
         phase'[g] = phase[g], jobOf'[g] = jobOf[g], reply'[g] = reply[g]
  PROVE  ReplyHolds(g)'
<1>1. ReplyHolds(g)
  BY DEF IInv, RepliesHold
<1>2. jobOf[g] \in Jobs \cup {None}
  BY DEF IInv, TypeOK
<1>3. CASE jobOf[g] = None
  BY <1>1, <1>3 DEF ReplyHolds
<1>4. CASE jobOf[g] \in Jobs
  <2>1. /\ state[jobOf[g]] # "absent" => state'[jobOf[g]] # "absent"
        /\ state[jobOf[g]] # "absent"
             => Rank(state[jobOf[g]]) <= Rank(state'[jobOf[g]])
        /\ state[jobOf[g]] \in Backend!Terminal
             => state'[jobOf[g]] = state[jobOf[g]]
        /\ answer[jobOf[g]] # None => answer'[jobOf[g]] = answer[jobOf[g]]
    BY <1>4, RowStep, RowMoves DEF IInv, TypeOK
  <2>2. \A s : Rank(s) \in 1 .. 3
    BY DEF Rank
  <2>3. (reply[g] # None /\ phase[g] # "fetching")
          => Rank(reply[g]) <= Rank(state'[jobOf[g]])
    BY <1>1, <1>4, <2>1, <2>2, NoneAssumption DEF ReplyHolds
  <2>4. QED
    BY <1>1, <1>4, <2>1, <2>3, NoneAssumption DEF ReplyHolds
<1>5. QED BY <1>2, <1>3, <1>4

(* Every step keeps the responses true. *)
LEMMA RepliesStep ==
  ASSUME IInv, [Next]_vars
  PROVE  RepliesHold'
<1> USE GenerationsAssumption, NoneAssumption
<1>1. SUFFICES ASSUME NEW g \in Generations
               PROVE  ReplyHolds(g)'
  BY DEF RepliesHold
<1>2. ReplyHolds(g) /\ jobOf[g] \in Jobs \cup {None}
  BY DEF IInv, RepliesHold, TypeOK
<1>3. CASE phase'[g] = phase[g] /\ jobOf'[g] = jobOf[g] /\ reply'[g] = reply[g]
  BY <1>3, ReplyKept
<1>4. CASE Submit \/ SubmitInvalid
  <2>1. phase'[g] = phase[g] \/ g = generation + 1
    BY <1>4 DEF Submit, SubmitInvalid, IInv, TypeOK
  <2>2. jobOf'[g] = jobOf[g] /\ reply'[g] = reply[g] /\ state' = state
    BY <1>4 DEF Submit, SubmitInvalid, backend
  <2>3. CASE g = generation + 1
    <3>1. phase[g] = "idle" /\ phase'[g] \in {"posting", "over"}
      BY <1>4, <2>3 DEF Submit, SubmitInvalid, IInv, TypeOK, Turns, Generations
    <3>2. reply[g] = None
      BY <1>2, <3>1 DEF ReplyHolds, InFlight
    <3>3. QED BY <1>2, <2>2, <3>1, <3>2 DEF ReplyHolds
  <2>4. QED BY <1>3, <2>1, <2>2, <2>3
<1>5. CASE Unmount \/ Work \/ UNCHANGED vars
  BY <1>3, <1>5 DEF Unmount, Work, vars, requests
<1>6. ASSUME NEW h \in Generations, h # g,
             Serve(h) \/ Take(h) \/ Wake(h) \/ Fail(h) \/ Cancelled(h)
      PROVE  phase'[g] = phase[g] /\ jobOf'[g] = jobOf[g] /\ reply'[g] = reply[g]
  BY <1>6 DEF IInv, TypeOK, Serve, ServePost, ServeStatus, ServeResult, Reply, Take,
     TakePost, TakeStatus, TakeResult, Wake, Fail, Cancelled, Proceed, End
<1>7. CASE ServePost(g)
  <2>1. reply'[g] = None /\ phase'[g] = "posting"
    BY <1>2, <1>7 DEF ServePost, ReplyHolds
  <2>2. PICK j \in Jobs : Backend!Submit(j) /\ jobOf' = [jobOf EXCEPT ![g] = j]
    BY <1>7 DEF ServePost
  <2>3. jobOf'[g] = j /\ state'[j] = "queued"
    BY <2>2 DEF IInv, TypeOK, Backend!TypeOK, Backend!Submit
  <2>4. QED BY <2>1, <2>3 DEF ReplyHolds
<1>8. CASE ServeStatus(g)
  <2>1. /\ reply'[g] = state[jobOf[g]] /\ jobOf'[g] = jobOf[g] /\ phase'[g] = phase[g]
        /\ UNCHANGED backend
        /\ phase[g] \in {"posting", "asking"} /\ jobOf[g] # None
    BY <1>8 DEF ServeStatus, Reply, IInv, TypeOK
  <2>2. state[jobOf[g]] \in Visible
    BY <1>2, <2>1 DEF IInv, TypeOK, Backend!TypeOK, Visible, ReplyHolds
  <2>3. Rank(state[jobOf[g]]) \in 1 .. 3
    BY DEF Rank
  <2>4. QED
    BY <1>2, <2>1, <2>2, <2>3 DEF ReplyHolds, InFlight, backend
<1>9. CASE ServeResult(g)
  <2>1. phase[g] = "fetching" /\ jobOf[g] \in Jobs /\ answer[jobOf[g]] # None
    BY <1>2, <1>9 DEF ServeResult, ReplyHolds
  <2>2. /\ reply'[g] = answer[jobOf[g]] /\ jobOf'[g] = jobOf[g]
        /\ phase'[g] = phase[g] /\ UNCHANGED backend
    BY <1>9, <2>1 DEF ServeResult, Reply, IInv, TypeOK
  <2>3. QED BY <1>2, <2>1, <2>2 DEF ReplyHolds, InFlight, backend
<1>10. ASSUME Take(g) \/ Wake(g) \/ Fail(g) \/ Cancelled(g)
       PROVE  ReplyHolds(g)'
  <2>1. /\ reply'[g] = None /\ jobOf'[g] = jobOf[g] /\ UNCHANGED backend
        /\ phase'[g] \in {"over", "asking", "waiting", "fetching"}
        /\ phase'[g] \in {"asking", "waiting"} => jobOf[g] # None
    BY <1>2, <1>10 DEF Take, TakePost, TakeStatus, TakeResult, Wake, Fail, Cancelled,
       Proceed, End, IInv, TypeOK, ReplyHolds
  <2>2. phase'[g] = "fetching" =>
          /\ reply[g] \in Backend!Terminal /\ reply[g] # None
          /\ phase[g] = "asking" /\ jobOf[g] # None
    BY <1>2, <1>10 DEF Take, TakePost, TakeStatus, TakeResult, Wake, Fail, Cancelled,
       Proceed, End, IInv, TypeOK, ReplyHolds, IsTerminalState
  <2>3. phase'[g] = "fetching" => answer[jobOf[g]] # None
    BY <1>2, <2>2 DEF ReplyHolds, IInv, RowsAgree
  <2>4. QED BY <1>2, <2>1, <2>2, <2>3 DEF ReplyHolds, backend
<1>11. QED
  BY <1>3, <1>4, <1>5, <1>6, <1>7, <1>8, <1>9, <1>10 DEF Next, Serve

(* The screen's part of the invariant. *)
Screen == StatusHolds /\ ScreenIsCurrent /\ ResultFitsStatus /\ IndicatorsAreTrue

(* A step that leaves the runs and the screen alone, and only moves the
   backend's table, sends or answers a request, keeps the screen true. *)
LEMMA ScreenKept ==
  ASSUME IInv, [Next]_vars, UNCHANGED screen,
         UNCHANGED <<mounted, generation>>,
         generation \in Generations => phase'[generation] = phase[generation],
         \A g \in Generations : jobOf[g] # None => jobOf'[g] = jobOf[g],
         (mounted /\ generation > 0 /\ phase[generation] = "asking"
            /\ reply'[generation] # None)
           => \/ reply'[generation] = reply[generation]
              \/ /\ reply'[generation] = state[jobOf[generation]]
                 /\ UNCHANGED backend
  PROVE  Screen'
<1> USE GenerationsAssumption, NoneAssumption
<1>1. \A g \in Generations : jobOf[g] # None =>
        /\ jobOf[g] \in Jobs /\ state[jobOf[g]] # "absent"
        /\ Rank(state[jobOf[g]]) <= Rank(state'[jobOf[g]])
        /\ state[jobOf[g]] \in Backend!Terminal => state'[jobOf[g]] = state[jobOf[g]]
        /\ answer[jobOf[g]] # None => answer'[jobOf[g]] = answer[jobOf[g]]
  BY RowStep, RowMoves DEF IInv, TypeOK, RepliesHold, ReplyHolds
<1>2. \A s : Rank(s) \in 1 .. 3
  BY DEF Rank
<1>3. job # None => job.of \in Generations
  BY DEF IInv, TypeOK
<1>4. (mounted /\ generation > 0) => generation \in Generations
  BY DEF IInv, Turns, Generations
<1>5. IndicatorsAreTrue' /\ ScreenIsCurrent'
  BY <1>4 DEF IInv, IndicatorsAreTrue, ScreenIsCurrent, screen
<1>6. ResultFitsStatus'
  <2>1. SUFFICES ASSUME result # None PROVE ResultFitsStatus'
    BY DEF ResultFitsStatus, screen
  <2>2. /\ job # None /\ job.state = Backend!StateOf(result.answer)
        /\ result.answer = answer[jobOf[job.of]] /\ jobOf[job.of] # None
        /\ result.answer \in Backend!Answers
    BY <2>1 DEF IInv, TypeOK, ResultFitsStatus, StatusHolds
  <2>3. answer'[jobOf'[job.of]] = answer[jobOf[job.of]]
    BY <1>1, <1>3, <2>2
  <2>4. QED BY <2>2, <2>3 DEF ResultFitsStatus, screen
<1>7. StatusHolds'
  <2>1. job' # None => jobOf'[job'.of] # None
    BY <1>3 DEF IInv, StatusHolds, screen
  <2>2. ASSUME mounted, generation > 0, job # None
        PROVE  /\ Rank(job.state) <= Rank(state'[jobOf'[generation]])
               /\ (phase[generation] = "asking" /\ reply'[generation] # None)
                    => Rank(job.state) <= Rank(reply'[generation])
               /\ phase[generation] = "fetching"
                    => job.state = state'[jobOf'[generation]]
    <3>1. job.of = generation /\ generation \in Generations
      BY <1>4, <2>2 DEF IInv, ScreenIsCurrent
    <3>2. jobOf[generation] # None /\ jobOf'[generation] = jobOf[generation]
      BY <2>2, <3>1 DEF IInv, StatusHolds
    <3>3. /\ Rank(job.state) <= Rank(state[jobOf[generation]])
          /\ (phase[generation] = "asking" /\ reply[generation] # None)
               => Rank(job.state) <= Rank(reply[generation])
          /\ phase[generation] = "fetching" => job.state = state[jobOf[generation]]
      BY <2>2 DEF IInv, StatusHolds
    <3>4. Rank(job.state) <= Rank(state'[jobOf'[generation]])
      BY <1>1, <1>2, <3>1, <3>2, <3>3
    <3>5. (phase[generation] = "asking" /\ reply'[generation] # None)
            => Rank(job.state) <= Rank(reply'[generation])
      BY <2>2, <3>3
    <3>6. phase[generation] = "fetching" => state[jobOf[generation]] \in Backend!Terminal
      BY <1>1, <3>1, <3>2 DEF IInv, RepliesHold, ReplyHolds, RowsAgree
    <3>7. QED BY <1>1, <3>1, <3>2, <3>3, <3>4, <3>5, <3>6
  <2>3. QED BY <1>4, <2>1, <2>2 DEF IInv, StatusHolds, screen
<1>8. QED BY <1>5, <1>6, <1>7 DEF Screen

(* Every step keeps the screen true. *)
LEMMA ScreenStep ==
  ASSUME IInv, [Next]_vars
  PROVE  Screen'
<1> USE GenerationsAssumption, NoneAssumption
<1>1. CASE Submit \/ SubmitInvalid
  <2>1. /\ job' = None /\ result' = None /\ isPolling' = FALSE
        /\ mounted' /\ generation' = generation + 1 /\ generation' \in Generations
        /\ Submit => isSubmitting' = TRUE /\ phase'[generation'] = "posting"
        /\ SubmitInvalid => isSubmitting' = FALSE /\ phase'[generation'] = "over"
    BY <1>1 DEF Submit, SubmitInvalid, CanSubmit, Advance, ClearScreen, IInv, TypeOK,
       Generations
  <2>2. StatusHolds'
    BY <1>1, <2>1 DEF StatusHolds, Generations
  <2>3. IndicatorsAreTrue'
    BY <1>1, <2>1 DEF IndicatorsAreTrue, Live, InFlight
  <2>4. QED
    BY <2>1, <2>2, <2>3 DEF Screen, ScreenIsCurrent, ResultFitsStatus
<1>2. CASE Unmount
  BY <1>2 DEF IInv, Screen, StatusHolds, ScreenIsCurrent, ResultFitsStatus,
     IndicatorsAreTrue, Unmount, screen, backend
<1>3. CASE Work
  BY <1>3, ScreenKept DEF Work, requests
<1>4. CASE UNCHANGED vars
  BY <1>4, ScreenKept DEF vars, requests
<1>5. ASSUME NEW g \in Generations, Serve(g)
      PROVE  Screen'
  <2>1. CASE ServePost(g)
    BY <2>1, ScreenKept DEF ServePost, IInv, TypeOK
  <2>2. CASE ServeStatus(g)
    BY <2>2, ScreenKept DEF ServeStatus, Reply, IInv, TypeOK
  <2>3. CASE ServeResult(g)
    BY <2>3, ScreenKept DEF ServeResult, Reply, IInv, TypeOK
  <2>4. QED BY <1>5, <2>1, <2>2, <2>3 DEF Serve
<1>6. ASSUME NEW g \in Generations, ~ IsCurrent(g),
             Take(g) \/ Wake(g) \/ Fail(g) \/ Cancelled(g)
      PROVE  Screen'
  <2>1. UNCHANGED screen /\ UNCHANGED <<mounted, generation, jobOf, backend>>
    BY <1>6 DEF Take, TakePost, TakeStatus, TakeResult, Wake, Fail, Cancelled, Proceed,
       End, OnStatus, SetResult, Finally, screen, IInv, TypeOK
  <2>2. \A h \in Generations : h # g => phase'[h] = phase[h] /\ reply'[h] = reply[h]
    BY <1>6 DEF Take, TakePost, TakeStatus, TakeResult, Wake, Fail, Cancelled, Proceed,
       End, IInv, TypeOK
  <2>3. (mounted /\ generation > 0) => generation \in Generations
    BY DEF IInv, Turns, Generations
  <2>4. QED
    BY <1>6, <2>1, <2>2, <2>3, ScreenKept DEF IsCurrent
<1>7. ASSUME NEW g \in Generations, IsCurrent(g),
             Take(g) \/ Wake(g) \/ Fail(g) \/ Cancelled(g)
      PROVE  Screen'
  <2>1. mounted /\ generation > 0 /\ generation = g /\ ~ aborted[g]
    BY <1>7 DEF IInv, TypeOK, Turns, IsCurrent, Generations, Take, TakePost, TakeStatus,
       TakeResult, Wake, Fail, Cancelled, Live, InFlight
  <2>2. UNCHANGED <<mounted, generation, jobOf, backend>> /\ reply'[g] = None
    BY <1>7 DEF Take, TakePost, TakeStatus, TakeResult, Wake, Fail, Cancelled, Proceed,
       End, IInv, TypeOK
  <2>3. state' = state /\ answer' = answer
    BY <2>2 DEF backend
  <2>4. ReplyHolds(g) /\ (job # None => job.of = g) /\ (result # None => result.of = g)
    BY <2>1 DEF IInv, RepliesHold, ScreenIsCurrent
  <2>5. CASE TakePost(g)
    <3>1. /\ job' = [of |-> g, state |-> reply[g]] /\ job' # None
          /\ isSubmitting' = FALSE /\ isPolling' = TRUE /\ result' = result
          /\ phase'[g] = "asking"
      BY <1>7, <2>1, <2>4, <2>5 DEF TakePost, Proceed, IInv, TypeOK, ReplyHolds, Visible
    <3>2. reply[g] # None /\ jobOf[g] # None /\ result = None
          /\ Rank(reply[g]) <= Rank(state[jobOf[g]])
      BY <2>1, <2>4, <2>5 DEF TakePost, ReplyHolds, IInv, StatusHolds
    <3>6. IndicatorsAreTrue'
      BY <2>1, <2>2, <2>3, <3>1, <3>2 DEF IndicatorsAreTrue, Live, InFlight
    <3>7. ScreenIsCurrent' /\ ResultFitsStatus'
      BY <2>1, <2>2, <2>3, <3>1, <3>2 DEF ScreenIsCurrent, ResultFitsStatus
    <3>8. StatusHolds'
      BY <2>1, <2>2, <2>3, <3>1, <3>2 DEF StatusHolds
    <3>9. QED BY <3>6, <3>7, <3>8 DEF Screen
  <2>6. CASE TakeStatus(g)
    <3>1. /\ job' = [of |-> g, state |-> reply[g]] /\ job' # None
          /\ UNCHANGED <<isSubmitting, isPolling, result>>
          /\ phase'[g] \in {"waiting", "fetching"}
          /\ phase'[g] = "fetching" => reply[g] \in Backend!Terminal
      <4>1. /\ job' = [of |-> g, state |-> reply[g]]
            /\ UNCHANGED <<isSubmitting, isPolling, result>>
        BY <1>7, <2>6 DEF TakeStatus, OnStatus
      <4>2. reply[g] \in Visible
        BY <2>4, <2>6 DEF TakeStatus, ReplyHolds
      <4>3. job' # None
        BY <4>1, <4>2 DEF Visible
      <4>4. CASE IsTerminalState(reply[g])
        BY <2>1, <2>6, <4>1, <4>3, <4>4
        DEF TakeStatus, Proceed, IsTerminalState, IInv, TypeOK
      <4>5. CASE ~ IsTerminalState(reply[g])
        BY <2>6, <4>1, <4>3, <4>5 DEF TakeStatus, IInv, TypeOK
      <4>6. QED BY <4>4, <4>5
    <3>2. /\ phase[g] = "asking" /\ reply[g] # None /\ jobOf[g] # None /\ result = None
          /\ Rank(reply[g]) <= Rank(state[jobOf[g]])
          /\ reply[g] \in Backend!Terminal => reply[g] = state[jobOf[g]]
      BY <2>1, <2>4, <2>6 DEF TakeStatus, ReplyHolds, IInv, StatusHolds
    <3>3. isSubmitting = FALSE /\ isPolling = TRUE
      BY <2>1, <3>2 DEF IInv, TypeOK, IndicatorsAreTrue, Live, InFlight
    <3>6. IndicatorsAreTrue'
      BY <2>1, <2>2, <2>3, <3>1, <3>2, <3>3 DEF IndicatorsAreTrue, Live, InFlight
    <3>7. ScreenIsCurrent' /\ ResultFitsStatus'
      BY <2>1, <2>2, <2>3, <3>1, <3>2, <3>3 DEF ScreenIsCurrent, ResultFitsStatus
    <3>8. StatusHolds'
      BY <2>1, <2>2, <2>3, <3>1, <3>2, <3>3 DEF StatusHolds
    <3>9. QED BY <3>6, <3>7, <3>8 DEF Screen
  <2>7. CASE TakeResult(g)
    <3>1. /\ result' = [of |-> g, answer |-> reply[g]] /\ job' = job
          /\ isSubmitting' = FALSE /\ isPolling' = FALSE /\ phase'[g] = "over"
          /\ phase[g] = "fetching"
      BY <1>7, <2>7 DEF TakeResult, SetResult, Finally, End, IInv, TypeOK
    <3>2. /\ reply[g] \in Backend!Answers /\ reply[g] = answer[jobOf[g]]
          /\ jobOf[g] \in Jobs /\ job # None /\ job.of = g
          /\ job.state = state[jobOf[g]]
          /\ Rank(job.state) <= Rank(state[jobOf[g]])
      BY <2>1, <2>4, <2>7, <3>1 DEF TakeResult, ReplyHolds, IInv, TypeOK, StatusHolds
    <3>3. job.state = Backend!StateOf(reply[g])
      BY <3>2 DEF IInv, RowsAgree
    <3>6. IndicatorsAreTrue'
      BY <2>1, <2>2, <2>3, <3>1, <3>2, <3>3 DEF IndicatorsAreTrue, Live, InFlight
    <3>7. ScreenIsCurrent' /\ ResultFitsStatus'
      BY <2>1, <2>2, <2>3, <3>1, <3>2, <3>3 DEF ScreenIsCurrent, ResultFitsStatus
    <3>8. StatusHolds'
      BY <2>1, <2>2, <2>3, <3>1, <3>2, <3>3 DEF StatusHolds
    <3>9. QED BY <3>6, <3>7, <3>8 DEF Screen
  <2>8. CASE Wake(g)
    <3>1. UNCHANGED screen /\ phase'[g] = "asking" /\ phase[g] = "waiting"
      BY <2>1, <2>8 DEF Wake, Proceed, IInv, TypeOK
    <3>2. QED
      BY <2>1, <2>2, <2>3, <3>1 DEF IInv, Screen, StatusHolds, ScreenIsCurrent,
         ResultFitsStatus, IndicatorsAreTrue, Live, InFlight, screen
  <2>9. CASE Fail(g) \/ Cancelled(g)
    <3>1. /\ UNCHANGED <<job, result>> /\ phase'[g] = "over" /\ phase[g] \in Live
          /\ isSubmitting' = FALSE /\ isPolling' = FALSE
      BY <1>7, <2>9 DEF Fail, Cancelled, Finally, End, Live, IInv, TypeOK
    <3>2. result = None
      BY <2>1, <3>1 DEF IInv, StatusHolds, Live, InFlight
    <3>3. IndicatorsAreTrue'
      BY <2>1, <2>2, <3>1 DEF IndicatorsAreTrue, Live, InFlight
    <3>4. ScreenIsCurrent' /\ ResultFitsStatus'
      BY <2>1, <2>2, <2>4, <3>1, <3>2 DEF ScreenIsCurrent, ResultFitsStatus
    <3>5. StatusHolds'
      BY <2>1, <2>2, <2>3, <3>1, <3>2 DEF IInv, StatusHolds
    <3>6. QED BY <3>3, <3>4, <3>5 DEF Screen
  <2>10. QED BY <1>7, <2>5, <2>6, <2>7, <2>8, <2>9 DEF Take
<1>8. QED BY <1>1, <1>2, <1>3, <1>4, <1>5, <1>6, <1>7 DEF Next

(* The inductive invariant holds in every reachable state. *)
LEMMA Invariance == Spec => []IInv
<1>1. Init => IInv
  <2> SUFFICES ASSUME Init PROVE IInv
    OBVIOUS
  <2> USE GenerationsAssumption, NoneAssumption
  <2>1. RowsAgree
    BY DEF Init, Backend!Init, RowsAgree, Backend!Terminal
  <2>2. IsInjective(observedStates) /\ observedStates \in Seq(Visible)
    <3>1. observedStates = <<>>
      BY DEF Init
    <3>2. IsInjective(<<>>)
      BY DEF IsInjective
    <3>3. QED BY <3>1, <3>2
  <2>3. TypeOK
    <3>1. Backend!TypeOK
      BY DEF Init, Backend!Init, Backend!TypeOK, Backend!States
    <3>2. /\ aborted \in [Generations -> BOOLEAN]
          /\ generation \in 0 .. MaxGenerations + 1
      BY DEF Init
    <3>3. QED BY <2>2, <3>1, <3>2 DEF Init, TypeOK
  <2>4. Turns
    BY DEF Init, Turns, Generations
  <2>5. RepliesHold
    BY DEF Init, RepliesHold, ReplyHolds
  <2>6. StatusHolds /\ ScreenIsCurrent /\ ResultFitsStatus /\ IndicatorsAreTrue
    BY DEF Init, StatusHolds, ScreenIsCurrent, ResultFitsStatus, IndicatorsAreTrue
  <2>7. QED BY <2>1, <2>3, <2>4, <2>5, <2>6 DEF IInv
<1>2. IInv /\ [Next]_vars => IInv'
  <2> SUFFICES ASSUME IInv, [Next]_vars PROVE IInv'
    OBVIOUS
  <2>1. RowsAgree'
    BY RowStep, RowMoves DEF IInv, TypeOK
  <2>2. QED
    BY <2>1, TypeStep, TurnsStep, RepliesStep, ScreenStep DEF IInv, Screen
<1>3. QED BY <1>1, <1>2, PTL DEF Spec

(* The screen shows the submission pressed last, for any number of
   submissions. *)
THEOREM ScreenStaysCurrent == Spec => []ScreenIsCurrent
<1>1. IInv => ScreenIsCurrent
  BY DEF IInv
<1>2. QED BY <1>1, Invariance, PTL

(* The result on the screen is the backend's answer for the job shown, and fits
   its status. *)
THEOREM ResultAlwaysFits == Spec => []ResultFitsStatus
<1>1. IInv => ResultFitsStatus
  BY DEF IInv
<1>2. QED BY <1>1, Invariance, PTL

(* The button and the polling line tell the truth about the current run. *)
THEOREM IndicatorsStayTrue == Spec => []IndicatorsAreTrue
<1>1. IInv => IndicatorsAreTrue
  BY DEF IInv
<1>2. QED BY <1>1, Invariance, PTL

(* The form never provokes 409 result_not_ready. *)
THEOREM ResultIsReady == Spec => []NeverTooEarly
<1>1. IInv => NeverTooEarly
  <2> SUFFICES ASSUME IInv, NEW g \in Generations
               PROVE  reply[g] # "result_not_ready"
    BY DEF NeverTooEarly
  <2>1. ReplyHolds(g) /\ jobOf[g] \in Jobs \cup {None} /\ Backend!TypeOK
    BY DEF IInv, RepliesHold, TypeOK
  <2>2. CASE phase[g] = "fetching"
    <3>1. answer[jobOf[g]] \in Backend!Answers
      BY <2>1, <2>2 DEF ReplyHolds, Backend!TypeOK
    <3>2. QED
      BY <2>1, <2>2, <3>1, NoneAssumption DEF ReplyHolds, Backend!Answers
  <2>3. CASE phase[g] # "fetching"
    BY <2>1, <2>3, NoneAssumption
    DEF ReplyHolds, Visible, Backend!States, Backend!Terminal
  <2>4. QED BY <2>2, <2>3
<1>2. QED BY <1>1, Invariance, PTL

(* Once the form was submitted again or unmounted, the runs before it send no
   further request. *)
THEOREM ReplacedRunsAreSilent == Spec => OnlyCurrentAsks
<1> DEFINE Asks == \A g \in Generations :
             (phase'[g] \in InFlight /\ phase'[g] # phase[g]) => g = generation'
<1>1. IInv /\ [Next]_vars => Asks
  <2> SUFFICES ASSUME IInv, [Next]_vars, NEW g \in Generations,
                      phase'[g] \in InFlight, phase'[g] # phase[g]
               PROVE  g = generation'
    OBVIOUS
  <2> USE GenerationsAssumption
  <2>1. CASE Submit \/ SubmitInvalid
    BY <2>1 DEF Submit, SubmitInvalid, Advance, IInv, TypeOK
  <2>2. ASSUME NEW h \in Generations, Take(h) \/ Wake(h) \/ Fail(h) \/ Cancelled(h)
        PROVE  g = generation'
    <3>1. h = g /\ ~ aborted[g] /\ generation' = generation /\ phase[g] # "idle"
      BY <2>2 DEF Take, TakePost, TakeStatus, TakeResult, Wake, Fail, Cancelled, Proceed,
         End, IInv, TypeOK, InFlight, Live
    <3>2. QED BY <3>1 DEF IInv, TypeOK, Turns, Generations
  <2>3. CASE Unmount \/ Work \/ UNCHANGED vars
    BY <2>3 DEF Unmount, Work, vars, requests
  <2>4. ASSUME NEW h \in Generations, Serve(h)
        PROVE  FALSE
    BY <2>4 DEF Serve, ServePost, ServeStatus, ServeResult, Reply
  <2>5. QED BY <2>1, <2>2, <2>3, <2>4 DEF Next
<1>2. QED BY <1>1, Invariance, PTL DEF Spec, OnlyCurrentAsks

=============================================================================
