--------------------------------- MODULE Group ---------------------------------
(***************************************************************************)
(* How the recorder runs a task and stops it (internal/runner/runner.go:   *)
(* Exec around runGroup).  The task leads a process group; on SIGINT,      *)
(* SIGTERM or SIGHUP the context is cancelled, the group gets SIGTERM and, *)
(* after a grace period, SIGKILL.  os/exec runs the cancellation in a      *)
(* goroutine of its own, `watch`, next to the goroutine in Start and Wait, *)
(* and stops waiting for output a grace period after the task has ended.   *)
(*                                                                         *)
(* Time is not modelled: a timer that is armed may fire at any moment.     *)
(***************************************************************************)
EXTENDS FiniteSets

CONSTANTS
    Task,          \* the process runGroup starts, leader of the group
    Background     \* processes the group may start

ASSUME TaskAssumption == Task \notin Background /\ IsFiniteSet(Background)

Members == Background \union {Task}

VARIABLES
    cancelled,    \* the context is done
    phase,        \* runGroup and Exec: "start", "attach", "wait", "reaped", "drain", "returned"
    watch,        \* os/exec's watchCtx: "none", "select", "timing", "done"
    ctxErr,       \* watchCtx reports the context's error
    proc,         \* [Members -> "none", "running", "gone"]
    deaf,         \* members that ignore SIGTERM
    silent,       \* members that closed or redirected their output
    escalation,   \* the timer of cmd.Cancel: "none", "armed", "fired", "stopped"
    pipesClosed,  \* os/exec closed its ends of the output pipes
    exitOk,       \* the task exited by itself with status 0
    status,       \* the recorded status: "none", "succeeded", "failed"
    warned,       \* the recorded warning that capture stopped
    copier,       \* os/exec's copying of the output: "none", "reading", "writing", "done"
    broken,       \* passthroughWriter.broken: the caller's stream has failed
    caller,       \* who reads the recorder's output: "reading", "stalled", "gone"
    termed,       \* history: members sent SIGTERM
    killed,       \* history: members sent SIGKILL
    cut           \* history: capture stopped before its end

os   == <<proc, deaf, silent>>
out  == <<exitOk, status, warned>>
sent == <<termed, killed>>
tee  == <<copier, broken, caller>>
run  == <<cancelled, phase, watch, ctxErr, os, escalation, pipesClosed, out, sent, cut>>
vars == <<run, tee>>

-----------------------------------------------------------------------------
Running == {m \in Members : proc[m] = "running"}
Holding == Running \ silent

Gone(S) == proc' = [m \in Members |-> IF m \in S \cap Running THEN "gone" ELSE proc[m]]

Init ==
    /\ cancelled = FALSE /\ phase = "start"
    /\ watch = "none" /\ ctxErr = FALSE
    /\ proc = [m \in Members |-> "none"]
    /\ deaf \in SUBSET Members /\ silent \in SUBSET Background
    /\ escalation = "none" /\ pipesClosed = FALSE
    /\ exitOk = FALSE /\ status = "none" /\ warned = FALSE
    /\ termed = {} /\ killed = {} /\ cut = FALSE
    /\ copier = "none" /\ broken = FALSE /\ caller = "reading"

-----------------------------------------------------------------------------
(* runGroup *)

\* cmd.Start refuses a context that is done.
StartRefused ==
    /\ phase = "start" /\ cancelled
    /\ phase' = "returned" /\ status' = "failed"
    /\ UNCHANGED <<cancelled, watch, ctxErr, os, escalation, pipesClosed, exitOk, warned, sent, cut, tee>>

Start ==
    /\ phase = "start" /\ ~cancelled
    /\ phase' = "attach" /\ watch' = "select"
    /\ proc' = [proc EXCEPT ![Task] = "running"]
    /\ copier' = "reading"
    /\ UNCHANGED <<cancelled, ctxErr, deaf, silent, escalation, pipesClosed, out, sent, cut, broken, caller>>

\* group.Store
StoreGroup ==
    /\ phase = "attach"
    /\ phase' = "wait"
    /\ UNCHANGED <<cancelled, watch, ctxErr, os, escalation, pipesClosed, out, sent, cut, tee>>

\* Mutant: Exec does not wait for the task.
ReapEarly ==
    /\ phase = "wait"
    /\ phase' = "reaped"
    /\ UNCHANGED <<cancelled, watch, ctxErr, os, escalation, pipesClosed, out, sent, cut, tee>>

\* Wait: the task is reaped ...
Reap ==
    /\ phase = "wait" /\ proc[Task] = "gone"
    /\ phase' = "reaped"
    /\ UNCHANGED <<cancelled, watch, ctxErr, os, escalation, pipesClosed, out, sent, cut, tee>>

\* ... watchCtx is told ...
StopWatch ==
    /\ phase = "reaped"
    /\ phase' = "drain" /\ watch' = "done"
    /\ UNCHANGED <<cancelled, ctxErr, os, escalation, pipesClosed, out, sent, cut, tee>>

\* Mutant: cmd.WaitDelay is not set.
DrainTimeoutNever == FALSE /\ UNCHANGED vars

\* ... and the output copied until its last holder is gone or WaitDelay is over,
\* which closes the pipes; a copy that is writing is waited for all the same.
DrainTimeout ==
    /\ phase = "drain" /\ copier # "done" /\ ~pipesClosed
    /\ pipesClosed' = TRUE /\ cut' = TRUE
    /\ UNCHANGED <<cancelled, phase, watch, ctxErr, os, escalation, out, sent, tee>>

\* Mutant: only the exit status counts.
RunErrIgnoringContext == IF ~exitOk THEN "error" ELSE IF cut THEN "ErrWaitDelay" ELSE "nil"

\* The error of Wait: os/exec reports that it stopped waiting for output only
\* for a task that otherwise succeeded.
RunErr == IF ~exitOk \/ ctxErr THEN "error" ELSE IF cut THEN "ErrWaitDelay" ELSE "nil"

\* The rest of runGroup and of Exec: the escalation is stopped and the outcome
\* recorded, a run whose capture was cut short as a success with a warning.
Return ==
    /\ phase = "drain" /\ copier = "done"
    /\ phase' = "returned"
    /\ escalation' = IF escalation = "armed" THEN "stopped" ELSE escalation
    /\ status' = IF RunErr = "error" THEN "failed" ELSE "succeeded"
    /\ warned' = (RunErr = "ErrWaitDelay")
    /\ UNCHANGED <<cancelled, watch, ctxErr, os, pipesClosed, exitOk, sent, cut, tee>>

-----------------------------------------------------------------------------
(* The copy of the output into the recording and, by the tee, to the caller: the *)
(* two streams share one lock, so a write of one that blocks blocks both.        *)

\* Output arrives; until the caller's stream has failed it is written there too.
CopyOutput ==
    /\ copier = "reading" /\ Holding # {} /\ ~pipesClosed /\ ~broken
    /\ copier' = "writing"
    /\ UNCHANGED <<run, broken, caller>>

\* Mutant: a failed write ends the copy.
PassedThroughFailing ==
    /\ copier = "writing" /\ caller # "stalled"
    /\ copier' = IF caller = "gone" THEN "done" ELSE "reading"
    /\ UNCHANGED <<run, broken, caller>>

\* passthroughWriter.Write: a failure is remembered and never reported.
PassedThrough ==
    /\ copier = "writing" /\ caller # "stalled"
    /\ copier' = "reading" /\ broken' = (caller = "gone")
    /\ UNCHANGED <<run, caller>>

CopyEnds ==
    /\ copier = "reading" /\ (Holding = {} \/ pipesClosed)
    /\ copier' = "done"
    /\ UNCHANGED <<run, broken, caller>>

\* The caller stops reading, reads on, or closes its end as a detached
\* `task run` does; SIGPIPE is observed only.
CallerTurns(to) ==
    /\ caller # "gone" /\ caller' = to
    /\ UNCHANGED <<run, copier, broken>>

-----------------------------------------------------------------------------
(* Cancellation *)

Cancel ==
    /\ ~cancelled
    /\ cancelled' = TRUE
    /\ UNCHANGED <<phase, watch, ctxErr, os, escalation, pipesClosed, out, sent, cut, tee>>

\* cmd.Cancel before group.Store: only the task itself, and at once.
CancelUnattached ==
    /\ watch = "select" /\ cancelled /\ phase = "attach"
    /\ watch' = "timing" /\ ctxErr' = TRUE
    /\ Gone({Task})
    /\ killed' = killed \union ({Task} \cap Running)
    /\ UNCHANGED <<cancelled, phase, deaf, silent, escalation, pipesClosed, out, termed, cut, tee>>

\* cmd.Cancel: arm the forced kill, then SIGTERM to the group.  A group with
\* nobody left is os.ErrProcessDone, which is no error of the run.
CancelGroup ==
    /\ watch = "select" /\ cancelled /\ phase \in {"wait", "reaped"}
    /\ watch' = "timing"
    /\ escalation' = "armed"
    /\ termed' = termed \union Running
    /\ ctxErr' = (phase = "wait" \/ Running # {})
    /\ UNCHANGED <<cancelled, phase, os, pipesClosed, out, killed, cut, tee>>

\* group.kill, a grace period after cmd.Cancel.
Escalate ==
    /\ escalation = "armed"
    /\ escalation' = "fired"
    /\ killed' = killed \union Running
    /\ Gone(Running)
    /\ UNCHANGED <<cancelled, phase, watch, ctxErr, deaf, silent, pipesClosed, out, termed, cut, tee>>

\* WaitDelay, armed right after cmd.Cancel: os/exec kills the task and closes
\* the output.
KillTask ==
    /\ watch = "timing" /\ phase \in {"attach", "wait"}
    /\ watch' = "done"
    /\ Gone({Task})
    /\ killed' = killed \union ({Task} \cap Running)
    /\ pipesClosed' = TRUE /\ cut' = (Holding \ {Task} # {})
    /\ UNCHANGED <<cancelled, phase, ctxErr, deaf, silent, escalation, out, termed, tee>>

-----------------------------------------------------------------------------
(* The processes of the group *)

Fork(b) ==
    /\ b \in Background
    /\ proc[b] = "none"
    /\ IF b \in silent THEN Running # {} ELSE Holding # {}
    /\ proc' = [proc EXCEPT ![b] = "running"]
    /\ UNCHANGED <<cancelled, phase, watch, ctxErr, deaf, silent, escalation, pipesClosed, out, sent, cut, tee>>

Exit(m) ==
    /\ proc[m] = "running"
    /\ Gone({m})
    /\ exitOk' \in IF m = Task THEN BOOLEAN ELSE {exitOk}
    /\ UNCHANGED <<cancelled, phase, watch, ctxErr, deaf, silent, escalation, pipesClosed, status, warned, sent, cut, tee>>

RunGroup == StartRefused \/ Start \/ StoreGroup \/ Reap \/ StopWatch \/ Return
Copier   == CopyOutput \/ PassedThrough \/ CopyEnds
Watch    == CancelUnattached \/ CancelGroup
Timers   == Escalate \/ KillTask \/ DrainTimeout

Next ==
    \/ RunGroup \/ Copier \/ Cancel \/ Watch \/ Timers
    \/ \E to \in {"reading", "stalled", "gone"} : caller # to /\ CallerTurns(to)
    \/ \E m \in Members : Fork(m) \/ Exit(m)

Spec == Init /\ [][Next]_vars

\* Goroutines run and timers fire, each for itself; SIGTERM ends a process
\* that does not ignore it; a write goes through once its reader reads.
Fairness ==
    /\ WF_vars(RunGroup) /\ WF_vars(Watch)
    /\ SF_vars(PassedThrough) /\ WF_vars(CopyEnds)
    /\ WF_vars(Escalate) /\ WF_vars(KillTask) /\ WF_vars(DrainTimeout)
    /\ \A m \in Members : WF_vars(m \in termed \ deaf /\ Exit(m))
FairSpec == Spec /\ Fairness

-----------------------------------------------------------------------------
(* Properties *)

TypeOK ==
    /\ cancelled \in BOOLEAN /\ ctxErr \in BOOLEAN /\ pipesClosed \in BOOLEAN
    /\ phase \in {"start", "attach", "wait", "reaped", "drain", "returned"}
    /\ watch \in {"none", "select", "timing", "done"}
    /\ proc \in [Members -> {"none", "running", "gone"}]
    /\ deaf \in SUBSET Members /\ silent \in SUBSET Background
    /\ escalation \in {"none", "armed", "fired", "stopped"}
    /\ exitOk \in BOOLEAN /\ warned \in BOOLEAN /\ cut \in BOOLEAN
    /\ status \in {"none", "succeeded", "failed"}
    /\ termed \in SUBSET Members /\ killed \in SUBSET Members
    /\ copier \in {"none", "reading", "writing", "done"} /\ broken \in BOOLEAN
    /\ caller \in {"reading", "stalled", "gone"}
    /\ phase \in {"drain", "returned"} => proc[Task] # "running" /\ watch \in {"none", "done"}

\* A run is recorded as succeeded only if its task ended by itself with status
\* 0, untouched by the cancellation, although both may happen at once and a
\* cut capture is forgiven.
SucceededUntouched ==
    status = "succeeded" => exitOk /\ Task \notin termed \union killed

\* A run recorded as a success without a warning has captured all that its
\* processes wrote, whatever became of the caller's stream meanwhile.
UnwarnedIsComplete == status = "succeeded" /\ ~warned => Holding = {}

\* The caller reads again, or leaves, however often it stalls.
CallerReads == []<>(caller # "stalled")

\* A task that was cancelled ends and its run is recorded, even if it ignores
\* SIGTERM; so is the run of one that ended by itself, although background
\* processes keep the output open.
EndedRunReturns == CallerReads => (cancelled \/ proc[Task] = "gone" ~> phase = "returned")

\* "Caller streams are best effort [...] the task is never blocked or broken by
\* it" (runner.go:95-98): a caller that only stalls does not keep the recorder.
StalledCallerForgiven == cancelled ~> phase = "returned"

\* "Cancellation reaches every process the task started: a graceful stop
\* first, then a forced kill of the whole group": nobody who was in the group
\* at the cancellation outlives the run.
CancellationReachesAll == phase = "returned" => termed \cap Running = {}

\* "A graceful stop first": a task is never killed that was not sent SIGTERM.
GracefulFirst == Task \in killed => Task \in termed

\* "When the task exits but a process it started in the background keeps its
\* output open, capture stops [...] and the run records a warning."
CutCaptureWarned == phase = "returned" /\ cut /\ ~cancelled => warned
=============================================================================
