------------------------------ MODULE GroupProofs ------------------------------
(***************************************************************************)
(* For any finite set of background processes: type correctness,           *)
(* SucceededUntouched and UnwarnedIsComplete.                              *)
(*                                                                         *)
(* Whatever signals the task leaves ctxErr set (Watched): the watching     *)
(* goroutine decides once, at the cancellation, and both timers are armed  *)
(* by that decision.  Whatever closes the pipes before the copy has ended  *)
(* leaves a trace too, ctxErr or cut (Closed), and once nobody holds the   *)
(* output nobody comes to hold it again.                                   *)
(***************************************************************************)
EXTENDS Group, TLAPS

\* How far the run is, and what the task's process is then.
Phases ==
    /\ phase = "start" => proc[Task] = "none"
    /\ proc[Task] = "none" => phase \in {"start", "returned"}
    /\ phase = "start" => watch = "none" /\ copier = "none" /\ ~exitOk
    /\ phase \in {"reaped", "drain"} => proc[Task] = "gone"
    /\ phase = "returned" => escalation # "armed" /\ proc[Task] # "running"
    /\ phase \in {"attach", "wait", "reaped"} => watch # "none"
    /\ phase = "drain" => watch = "done"
    /\ phase = "returned" => watch \in {"none", "done"}
    /\ status # "none" <=> phase = "returned"

\* What the cancellation leaves behind.
Watched ==
    /\ watch \in {"none", "select"} =>
         /\ ~ctxErr /\ escalation = "none" /\ Task \notin termed \union killed
         /\ ~pipesClosed
    /\ Task \in termed \union killed => ctxErr
    /\ (watch = "timing" \/ escalation # "none") /\ proc[Task] = "running" => ctxErr
    /\ watch = "timing" /\ phase \in {"attach", "wait"} => ctxErr

Closed ==
    /\ pipesClosed => cut \/ ctxErr
    /\ copier = "done" => Holding = {} \/ pipesClosed

Recorded ==
    status = "succeeded" =>
        exitOk /\ ~ctxErr /\ (~warned => ~cut /\ copier = "done" /\ ~pipesClosed)

IInv == TypeOK /\ Phases /\ Watched /\ Closed /\ Recorded

-----------------------------------------------------------------------------

\* The invariant holds at the start ...
LEMMA InitInvariant == Init => IInv
<1> SUFFICES ASSUME Init PROVE IInv
  OBVIOUS
<1> USE TaskAssumption DEF Init
<1>1. TypeOK
  BY DEF TypeOK, Members
<1>2. Phases /\ Watched /\ Closed /\ Recorded
  BY DEF Phases, Watched, Closed, Recorded, Members
<1>3. QED BY <1>1, <1>2 DEF IInv

\* Nobody comes to hold the output that no running process holds.
LEMMA HoldingGoes ==
    ASSUME TypeOK, proc' \in [Members -> {"none", "running", "gone"}], silent' = silent,
           \A m \in Members : proc'[m] = "running" => proc[m] = "running"
    PROVE  Holding' \subseteq Holding
BY DEF Holding, Running

\* What Gone makes of the processes.
LEMMA GoneFacts ==
    ASSUME TypeOK, NEW S \in SUBSET Members, Gone(S)
    PROVE  /\ proc' \in [Members -> {"none", "running", "gone"}]
           /\ \A m \in Members : proc'[m] = IF m \in S /\ proc[m] = "running" THEN "gone" ELSE proc[m]
BY DEF Gone, Running, TypeOK

\* The goroutine in Start and Wait.
LEMMA RunGroupStep ==
    ASSUME IInv, RunGroup
    PROVE  IInv'
<1> USE TaskAssumption DEF IInv, os, out, sent, tee
<1>1. CASE StartRefused
  BY <1>1 DEF StartRefused, TypeOK, Phases, Watched, Closed, Recorded, Holding, Running
<1>2. CASE Start
  <2>1. TypeOK'
    BY SMT, ZenonT(40), <1>2 DEF Start, TypeOK
  <2>2. Task \in Members /\ proc'[Task] = "running"
    BY <1>2 DEF Start, TypeOK, Members
  <2>3. Phases' /\ Watched' /\ Closed' /\ Recorded'
    BY <1>2, <2>2 DEF Start, TypeOK, Phases, Watched, Closed, Recorded
  <2>4. QED BY <2>1, <2>3
<1>3. CASE StoreGroup
  BY <1>3 DEF StoreGroup, TypeOK, Phases, Watched, Closed, Recorded, Holding, Running
<1>4. CASE Reap
  BY <1>4 DEF Reap, TypeOK, Phases, Watched, Closed, Recorded, Holding, Running
<1>5. CASE StopWatch
  BY <1>5 DEF StopWatch, TypeOK, Phases, Watched, Closed, Recorded, Holding, Running
<1>6. CASE Return
  <2>1. warned' \in BOOLEAN /\ status' \in {"succeeded", "failed"}
    BY <1>6 DEF Return
  <2>2. TypeOK'
    BY <1>6, <2>1 DEF Return, TypeOK, Phases
  <2>3. Phases' /\ Watched'
    BY <1>6, <2>1 DEF Return, TypeOK, Phases, Watched
  <2>4. Closed'
    BY <1>6 DEF Return, Closed, Holding, Running
  <2>5. status' = "succeeded" => exitOk /\ ~ctxErr /\ (~warned' => ~cut)
    BY <1>6 DEF Return, RunErr
  <2>6. Recorded'
    BY <1>6, <2>5 DEF Return, Recorded, Closed
  <2>7. QED BY <2>2, <2>3, <2>4, <2>6
<1>7. QED BY <1>1, <1>2, <1>3, <1>4, <1>5, <1>6 DEF RunGroup

\* The copying of the output, its caller, and the cancellation of the context.
LEMMA CopierStep ==
    ASSUME IInv, Copier \/ Cancel \/ \E to \in {"reading", "stalled", "gone"} : CallerTurns(to)
    PROVE  IInv'
<1> USE DEF IInv, os, out, sent, tee, run
<1>1. TypeOK'
  <2>1. CASE PassedThrough
    <3>1. broken' \in BOOLEAN
      BY <2>1 DEF PassedThrough
    <3>2. QED BY <2>1, <3>1 DEF PassedThrough, TypeOK
  <2>2. CASE CopyOutput \/ CopyEnds
    BY <2>2 DEF CopyOutput, CopyEnds, TypeOK
  <2>3. CASE Cancel
    BY <2>3 DEF Cancel, TypeOK
  <2>4. ASSUME NEW to \in {"reading", "stalled", "gone"}, CallerTurns(to) PROVE TypeOK'
    BY <2>4 DEF CallerTurns, TypeOK
  <2>5. QED BY <2>1, <2>2, <2>3, <2>4 DEF Copier
<1>2. UNCHANGED <<phase, watch, ctxErr, os, escalation, pipesClosed, out, sent, cut>>
  BY DEF Copier, CopyOutput, PassedThrough, CopyEnds, Cancel, CallerTurns
<1>3. /\ copier' = "done" => copier = "done" \/ Holding = {} \/ pipesClosed
      /\ copier = "done" => copier' = "done"
      /\ copier = "none" <=> copier' = "none"
  BY DEF Copier, CopyOutput, PassedThrough, CopyEnds, Cancel, CallerTurns
<1>4. Phases' /\ Watched' /\ Closed' /\ Recorded'
  BY <1>2, <1>3 DEF Phases, Watched, Closed, Recorded, Holding, Running
<1>5. QED BY <1>1, <1>4

\* The goroutine that watches the context, and the timers.
LEMMA WatchStep ==
    ASSUME IInv, Watch \/ Timers
    PROVE  IInv'
<1> USE TaskAssumption DEF IInv, os, out, sent, tee
<1> Task \in Members /\ {Task} \in SUBSET Members /\ Running \in SUBSET Members
  BY DEF Members, Running
<1>1. CASE CancelUnattached
  <2>1. Holding' \subseteq Holding
    BY <1>1, GoneFacts, HoldingGoes DEF CancelUnattached
  <2>2. TypeOK'
    BY <1>1, GoneFacts DEF CancelUnattached, TypeOK, Running
  <2>3. Phases' /\ Watched' /\ Closed' /\ Recorded'
    BY <1>1, <2>1, GoneFacts DEF CancelUnattached, Phases, Watched, Closed, Recorded, TypeOK
  <2>4. QED BY <2>2, <2>3
<1>2. CASE CancelGroup
  <2>1. ctxErr' \in BOOLEAN /\ termed' \in SUBSET Members
    BY <1>2 DEF CancelGroup, TypeOK
  <2>2. TypeOK'
    BY <1>2, <2>1 DEF CancelGroup, TypeOK
  <2>3. proc[Task] = "running" => Task \in Running
    BY DEF Running
  <2>4. Task \in termed' => ctxErr'
    BY <1>2 DEF CancelGroup, Watched
  <2>5. Phases' /\ Watched' /\ Recorded'
    BY <1>2, <2>3, <2>4 DEF CancelGroup, Phases, Watched, Recorded
  <2>6. Closed'
    BY <1>2 DEF CancelGroup, Phases, Watched, Closed, Holding, Running
  <2>7. QED BY <2>2, <2>5, <2>6
<1>3. CASE Escalate
  <2>1. Holding' \subseteq Holding
    BY <1>3, GoneFacts, HoldingGoes DEF Escalate
  <2>2. TypeOK'
    BY <1>3, GoneFacts DEF Escalate, TypeOK
  <2>3. Phases' /\ Watched' /\ Closed' /\ Recorded'
    BY <1>3, <2>1, GoneFacts DEF Escalate, Phases, Watched, Closed, Recorded, TypeOK, Running
  <2>4. QED BY <2>2, <2>3
<1>4. CASE KillTask
  <2>1. Holding' \subseteq Holding
    BY <1>4, GoneFacts, HoldingGoes DEF KillTask
  <2>2. TypeOK'
    BY <1>4, GoneFacts DEF KillTask, TypeOK
  <2>3. Phases' /\ Watched' /\ Closed' /\ Recorded'
    BY <1>4, <2>1, GoneFacts DEF KillTask, Phases, Watched, Closed, Recorded, TypeOK, Running
  <2>4. QED BY <2>2, <2>3
<1>5. CASE DrainTimeout
  BY <1>5 DEF DrainTimeout, TypeOK, Phases, Watched, Closed, Recorded, Holding, Running
<1>6. QED BY <1>1, <1>2, <1>3, <1>4, <1>5 DEF Watch, Timers

\* The processes of the group.
LEMMA ProcessStep ==
    ASSUME IInv, NEW m \in Members, Fork(m) \/ Exit(m)
    PROVE  IInv'
<1> USE TaskAssumption DEF IInv, os, out, sent, tee
<1>1. CASE Fork(m)
  <2>1. m # Task /\ Task \in Members
    BY <1>1 DEF Fork, Members
  <2>2. TypeOK'
    BY <1>1, <2>1 DEF Fork, TypeOK
  <2>3. Holding = {} => Holding' = {}
    BY <1>1 DEF Fork, Holding, Running, TypeOK
  <2>4. proc'[Task] = proc[Task]
    BY <1>1, <2>1 DEF Fork, TypeOK
  <2>5. Phases' /\ Watched' /\ Closed' /\ Recorded'
    BY <1>1, <2>3, <2>4 DEF Fork, Phases, Watched, Closed, Recorded
  <2>6. QED BY <2>2, <2>5
<1>2. CASE Exit(m)
  <2>1. Gone({m}) /\ {m} \in SUBSET Members
    BY <1>2 DEF Exit
  <2>2. Holding' \subseteq Holding
    BY <1>2, <2>1, GoneFacts, HoldingGoes DEF Exit
  <2>3. TypeOK'
    <3>1. exitOk' \in BOOLEAN
      BY <1>2 DEF Exit, TypeOK
    <3>2. proc'[Task] = "running" => proc[Task] = "running"
      BY <2>1, GoneFacts DEF Members
    <3>3. QED BY <1>2, <2>1, <3>1, <3>2, GoneFacts DEF Exit, TypeOK
  <2>4. Task \in Members
    BY DEF Members
  <2>5. Phases' /\ Watched' /\ Closed' /\ Recorded'
    BY <1>2, <2>1, <2>2, <2>4, GoneFacts DEF Exit, Phases, Watched, Closed, Recorded, TypeOK
  <2>6. QED BY <2>3, <2>5
<1>3. QED BY <1>1, <1>2

\* ... and after every step.
LEMMA NextInvariant == IInv /\ [Next]_vars => IInv'
<1> SUFFICES ASSUME IInv, [Next]_vars PROVE IInv'
  OBVIOUS
<1>1. CASE UNCHANGED vars
  BY <1>1 DEF vars, run, os, out, sent, tee, IInv, TypeOK, Phases, Watched, Closed, Recorded,
              Holding, Running
<1>2. QED BY <1>1, RunGroupStep, CopierStep, WatchStep, ProcessStep DEF Next

\* The inductive invariant holds throughout a run.
THEOREM Invariance == Spec => []IInv
<1>1. QED BY InitInvariant, NextInvariant, PTL DEF Spec

\* Every variable of a run keeps its type, and the output is drained only after
\* the task is gone and the watching goroutine done.
THEOREM TypeCorrect == Spec => []TypeOK
<1>1. IInv => TypeOK
  BY DEF IInv
<1>2. QED BY <1>1, Invariance, PTL

\* A run is recorded as succeeded only if no signal of the recorder touched its
\* task, at whatever moment the cancellation came.
THEOREM SuccessesUntouched == Spec => []SucceededUntouched
<1>1. IInv => SucceededUntouched
  BY DEF IInv, Watched, Recorded, SucceededUntouched
<1>2. QED BY <1>1, Invariance, PTL

\* An unwarned success has captured all the output of its processes.
THEOREM UnwarnedSuccessesComplete == Spec => []UnwarnedIsComplete
<1>1. IInv => UnwarnedIsComplete
  BY DEF IInv, Closed, Recorded, UnwarnedIsComplete
<1>2. QED BY <1>1, Invariance, PTL
=============================================================================
