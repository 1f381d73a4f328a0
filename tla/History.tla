------------------------------- MODULE History -------------------------------
(***************************************************************************)
(* The run history (internal/history): every execution records one run in  *)
(* a directory of its own, then prunes the whole history.  Processes share *)
(* nothing but the file system, and a run's liveness is the flock on its   *)
(* run.lock, so the interleavings of recorders and pruners decide whether  *)
(* a run is kept.  RunLog has what is recorded of a run and its readers.   *)
(*                                                                         *)
(* Run r is recorded, and the history pruned after it, by process r.  Run  *)
(* IDs start with the start time, so a run's number is its rank among IDs. *)
(***************************************************************************)
EXTENDS Integers, FiniteSets

CONSTANTS
    Runs,        \* executions, numbered in the order they start
    Tasks,       \* (directory, command) pairs
    TaskOf,      \* [Runs -> Tasks]
    NoOwner,     \* nobody holds a run's lock
    Grace,       \* creationGrace, in ticks
    MaxAge,      \* Retention.MaxAge, in ticks; 0 disables it
    MaxSize,     \* Retention.MaxBytes, in stored runs; 0 disables it
    MaxClock,    \* bound on the ticks explored
    MayFail      \* whether a file operation of Start or Finish may fail

ASSUME RunsAssumption   == Runs \subseteq Nat /\ IsFiniteSet(Runs)
ASSUME TaskAssumption   == TaskOf \in [Runs -> Tasks]
ASSUME OwnerAssumption  == NoOwner \notin Runs
ASSUME LimitAssumption  == /\ Grace \in Nat \ {0} /\ MaxAge \in Nat /\ MaxSize \in Nat
                           /\ MaxAge > 0 => MaxAge >= Grace
                           /\ MaxClock \in Nat /\ MayFail \in BOOLEAN

VARIABLES
    clock,
    pc,          \* [Runs -> the next step of the run's process]
    started,     \* [Runs -> the time in the run's ID]
    task,        \* [Tasks -> "none", "dir" (no task.json yet), "info"]
    dir,         \* [Runs -> the run directory exists]
    lockfile,    \* [Runs -> run.lock exists]
    owner,       \* [Runs -> who holds the flock on run.lock]
    meta,        \* [Runs -> "none", "running", "finished"]
    prune,       \* [Runs -> the local variables of Prune]
    made,        \* history: runs whose directory was created
    published    \* history: runs whose metadata was written

run  == <<started, task, dir, lockfile, meta>>
hist == <<made, published>>
vars == <<clock, pc, run, owner, prune, hist>>

-----------------------------------------------------------------------------
(* Data *)

Starting  == {"mktask", "taskinfo", "mkdir"}
Creating  == {"lockfile", "trylock", "publish"}    \* open(), in the run's directory
Recording == {"running", "close"}
Pruning   == {"scan", "measure", "probe", "unprobe", "creating", "remove"}
PCs == {"new", "failed", "dead", "done"}
         \union Starting \union Creating \union Recording \union Pruning

Idle == [now |-> 0, newest |-> {}, todo |-> {}, at |-> 0, counted |-> {}, cands |-> {}]

Oldest(S) == {r \in S : \A s \in S : r <= s}
Newest(S) == {r \in S : \A s \in S : TaskOf[s] = TaskOf[r] => s <= r}

Goto(r, label) == pc' = [pc EXCEPT ![r] = label]

Init ==
    /\ clock = 0
    /\ pc = [r \in Runs |-> "new"]
    /\ started = [r \in Runs |-> 0]
    /\ task = [t \in Tasks |-> "none"]
    /\ dir = [r \in Runs |-> FALSE]
    /\ lockfile = [r \in Runs |-> FALSE]
    /\ owner = [r \in Runs |-> NoOwner]
    /\ meta = [r \in Runs |-> "none"]
    /\ prune = [r \in Runs |-> Idle]
    /\ made = {} /\ published = {}

-----------------------------------------------------------------------------
(* Start *)

\* newRunID: later runs have later IDs.
Begin(r) ==
    /\ pc[r] = "new"
    /\ \A s \in Runs : s < r => pc[s] # "new"
    /\ started' = [started EXCEPT ![r] = clock]
    /\ Goto(r, "mktask")
    /\ UNCHANGED <<clock, task, dir, lockfile, meta, owner, prune, hist>>

MakeTaskDir(r) ==
    /\ pc[r] = "mktask"
    /\ task' = [task EXCEPT ![TaskOf[r]] = IF @ = "none" THEN "dir" ELSE @]
    /\ Goto(r, "taskinfo")
    /\ UNCHANGED <<clock, started, dir, lockfile, meta, owner, prune, hist>>

WriteTaskInfo(r) ==
    /\ pc[r] = "taskinfo"
    /\ task' = [task EXCEPT ![TaskOf[r]] = "info"]
    /\ Goto(r, "mkdir")
    /\ UNCHANGED <<clock, started, dir, lockfile, meta, owner, prune, hist>>

\* Mutant: the metadata is written as soon as there is a directory for it.
MakeRunDirPublished(r) ==
    /\ pc[r] = "mkdir"
    /\ dir' = [dir EXCEPT ![r] = TRUE]
    /\ meta' = [meta EXCEPT ![r] = "running"]
    /\ made' = made \union {r}
    /\ Goto(r, "lockfile")
    /\ UNCHANGED <<clock, started, task, lockfile, owner, prune, published>>

MakeRunDir(r) ==
    /\ pc[r] = "mkdir"
    /\ dir' = [dir EXCEPT ![r] = TRUE]
    /\ made' = made \union {r}
    /\ Goto(r, "lockfile")
    /\ UNCHANGED <<clock, started, task, lockfile, meta, owner, prune, published>>

\* Start's error path: whatever open() made is removed again and the task runs
\* unrecorded; only the pruning that follows every execution is left.
AbandonStart(r) ==
    /\ dir' = [dir EXCEPT ![r] = FALSE]
    /\ lockfile' = [lockfile EXCEPT ![r] = FALSE]
    /\ meta' = [meta EXCEPT ![r] = "none"]
    /\ owner' = [owner EXCEPT ![r] = NoOwner]
    /\ Goto(r, "failed")
    /\ UNCHANGED <<clock, started, task, prune, hist>>

\* open(): run.lock is created ...
CreateLock(r) ==
    /\ pc[r] = "lockfile"
    /\ dir[r]
    /\ lockfile' = [lockfile EXCEPT ![r] = TRUE]
    /\ Goto(r, "trylock")
    /\ UNCHANGED <<clock, started, task, dir, meta, owner, prune, hist>>

\* ... and locked, without waiting, in a second call ...
TakeLock(r) ==
    /\ pc[r] = "trylock"
    /\ owner[r] = NoOwner
    /\ owner' = [owner EXCEPT ![r] = r]
    /\ Goto(r, "publish")
    /\ UNCHANGED <<clock, run, prune, hist>>

LockRefused(r) ==
    /\ pc[r] = "trylock"
    /\ owner[r] # NoOwner
    /\ AbandonStart(r)

\* ... and the metadata comes last.
Publish(r) ==
    /\ pc[r] = "publish"
    /\ dir[r]
    /\ meta' = [meta EXCEPT ![r] = "running"]
    /\ published' = published \union {r}
    /\ Goto(r, "running")
    /\ UNCHANGED <<clock, started, task, dir, lockfile, owner, prune, made>>

\* A file operation fails, or its directory was pruned away under it.
StartFails(r) ==
    /\ pc[r] \in {"lockfile", "publish"} \union (IF MayFail THEN Starting ELSE {})
    /\ MayFail \/ ~dir[r]
    /\ AbandonStart(r)

-----------------------------------------------------------------------------
(* Finish and Reject *)

\* close() stores the outcome before it gives up the lock.
RecordOutcome(r) ==
    /\ pc[r] = "running"
    /\ meta' = [meta EXCEPT ![r] = IF dir[r] THEN "finished" ELSE @]
    /\ Goto(r, "close")
    /\ UNCHANGED <<clock, started, task, dir, lockfile, owner, prune, hist>>

OutcomeLost(r) ==
    /\ pc[r] = "running"
    /\ MayFail
    /\ Goto(r, "close")
    /\ UNCHANGED <<clock, run, owner, prune, hist>>

CloseFiles(r) ==
    /\ pc[r] = "close"
    /\ owner' = [owner EXCEPT ![r] = IF @ = r THEN NoOwner ELSE @]
    /\ Goto(r, "scan")
    /\ UNCHANGED <<clock, run, prune, hist>>

\* An unrecorded task ends.
UnrecordedEnds(r) ==
    /\ pc[r] = "failed"
    /\ Goto(r, "scan")
    /\ UNCHANGED <<clock, run, owner, prune, hist>>

-----------------------------------------------------------------------------
(* Prune *)

\* Mutant: no run is protected as its task's newest.
ProtectedNone(refs) == {}

\* scan, and the newest run of every task that it saw.
Protected(refs) == Newest(refs)

Scan(r) ==
    /\ pc[r] = "scan"
    /\ IF MaxAge = 0 /\ MaxSize = 0
         THEN /\ Goto(r, "done")
              /\ UNCHANGED prune
         ELSE LET refs == {s \in Runs : dir[s]} IN
              /\ prune' = [prune EXCEPT ![r] =
                             [Idle EXCEPT !.now = clock, !.todo = refs, !.newest = Protected(refs)]]
              /\ Goto(r, "measure")
    /\ UNCHANGED <<clock, run, owner, hist>>

\* dirSize of the next run, oldest first; one run stored counts as one unit.
Measure(r) ==
    /\ pc[r] = "measure"
    /\ \E c \in Oldest(prune[r].todo) :
         /\ prune' = [prune EXCEPT ![r].todo = @ \ {c},
                                   ![r].at = c,
                                   ![r].counted = IF meta[c] = "none" THEN @ ELSE @ \union {c}]
         /\ Goto(r, IF dir[c] /\ c \notin prune[r].newest THEN "probe" ELSE "measure")
    /\ UNCHANGED <<clock, run, owner, hist>>

Measured(r) ==
    /\ pc[r] = "measure"
    /\ prune[r].todo = {}
    /\ Goto(r, "remove")
    /\ UNCHANGED <<clock, run, owner, prune, hist>>

\* locked(): a missing run.lock means nobody is recording, a refused TryLock
\* that somebody is; a granted one is given back by closing the file.
ProbeMissing(r) ==
    /\ pc[r] = "probe"
    /\ ~lockfile[prune[r].at]
    /\ Goto(r, "creating")
    /\ UNCHANGED <<clock, run, owner, prune, hist>>

\* Mutant: a held lock does not stop the pruner.
ProbeLockedIgnored(r) ==
    /\ pc[r] = "probe"
    /\ lockfile[prune[r].at] /\ owner[prune[r].at] # NoOwner
    /\ Goto(r, "creating")
    /\ UNCHANGED <<clock, run, owner, prune, hist>>

ProbeLocked(r) ==
    /\ pc[r] = "probe"
    /\ lockfile[prune[r].at] /\ owner[prune[r].at] # NoOwner
    /\ Goto(r, "measure")
    /\ UNCHANGED <<clock, run, owner, prune, hist>>

ProbeFree(r) ==
    /\ pc[r] = "probe"
    /\ lockfile[prune[r].at] /\ owner[prune[r].at] = NoOwner
    /\ owner' = [owner EXCEPT ![prune[r].at] = r]
    /\ Goto(r, "unprobe")
    /\ UNCHANGED <<clock, run, prune, hist>>

Unprobe(r) ==
    /\ pc[r] = "unprobe"
    /\ owner' = [owner EXCEPT ![prune[r].at] = IF @ = r THEN NoOwner ELSE @]
    /\ Goto(r, "creating")
    /\ UNCHANGED <<clock, run, prune, hist>>

\* Mutant: a run without a lock counts as abandoned at once.
IsCreatingNever(c, now) == FALSE

\* creating(): no metadata yet, and too young to have been abandoned.
IsCreating(c, now) == meta[c] = "none" /\ now - started[c] < Grace

CheckCreating(r) ==
    /\ pc[r] = "creating"
    /\ prune' = [prune EXCEPT ![r].cands =
                   IF IsCreating(prune[r].at, prune[r].now) THEN @ ELSE @ \union {prune[r].at}]
    /\ Goto(r, "measure")
    /\ UNCHANGED <<clock, run, owner, hist>>

\* Mutant: the age limit is off by one.
ExpiredEarly(r) == {c \in prune[r].cands : MaxAge > 0 /\ prune[r].now - started[c] >= MaxAge}

Expired(r) == {c \in prune[r].cands : MaxAge > 0 /\ prune[r].now - started[c] > MaxAge}

\* The candidates RemoveAll may be called on next: first the expired ones, then
\* the oldest while the measured total exceeds the limit.
NextToRemove(r) ==
    IF Expired(r) # {} THEN Oldest(Expired(r))
    ELSE IF MaxSize > 0 /\ Cardinality(prune[r].counted) > MaxSize /\ prune[r].cands # {}
         THEN Oldest(prune[r].cands)
         ELSE {}

Remove(r) ==
    /\ pc[r] = "remove"
    /\ \E c \in NextToRemove(r) :
         /\ dir' = [dir EXCEPT ![c] = FALSE]
         /\ lockfile' = [lockfile EXCEPT ![c] = FALSE]
         /\ meta' = [meta EXCEPT ![c] = "none"]
         /\ owner' = [owner EXCEPT ![c] = NoOwner]
         /\ prune' = [prune EXCEPT ![r].cands = @ \ {c}, ![r].counted = @ \ {c}]
    /\ UNCHANGED <<clock, pc, started, task, hist>>

Pruned(r) ==
    /\ pc[r] = "remove"
    /\ NextToRemove(r) = {}
    /\ prune' = [prune EXCEPT ![r] = Idle]
    /\ Goto(r, "done")
    /\ UNCHANGED <<clock, run, owner, hist>>

-----------------------------------------------------------------------------
(* The environment *)

\* The operating system drops the locks of a process that dies.
Crash(r) ==
    /\ pc[r] \notin {"new", "dead", "done"}
    /\ owner' = [s \in Runs |-> IF owner[s] = r THEN NoOwner ELSE owner[s]]
    /\ prune' = [prune EXCEPT ![r] = Idle]
    /\ Goto(r, "dead")
    /\ UNCHANGED <<clock, run, hist>>

\* Time passes; creating a run's few files takes less than the grace period.
Tick ==
    /\ clock < MaxClock
    /\ \A r \in Runs : pc[r] \in Starting \union Creating => clock + 1 - started[r] < Grace
    /\ clock' = clock + 1
    /\ UNCHANGED <<pc, run, owner, prune, hist>>

-----------------------------------------------------------------------------
Start(r)   == Begin(r) \/ MakeTaskDir(r) \/ WriteTaskInfo(r) \/ MakeRunDir(r)
Open(r)    == CreateLock(r) \/ TakeLock(r) \/ LockRefused(r) \/ Publish(r) \/ StartFails(r)
Finish(r)  == RecordOutcome(r) \/ OutcomeLost(r) \/ CloseFiles(r) \/ UnrecordedEnds(r)
Probe(r)   == ProbeMissing(r) \/ ProbeLocked(r) \/ ProbeFree(r) \/ Unprobe(r) \/ CheckCreating(r)
Prune(r)   == Scan(r) \/ Measure(r) \/ Measured(r) \/ Probe(r) \/ Remove(r) \/ Pruned(r)

Next ==
    \/ \E r \in Runs : Start(r) \/ Open(r) \/ Finish(r) \/ Prune(r) \/ Crash(r)
    \/ Tick

Spec == Init /\ [][Next]_vars

-----------------------------------------------------------------------------
(* Properties *)

\* Every variable holds values of its kind; whoever sees a run's metadata can
\* probe its run.lock, and files lie in directories.
TypeOK ==
    /\ clock \in 0..MaxClock
    /\ pc \in [Runs -> PCs]
    /\ started \in [Runs -> 0..MaxClock]
    /\ task \in [Tasks -> {"none", "dir", "info"}]
    /\ dir \in [Runs -> BOOLEAN] /\ lockfile \in [Runs -> BOOLEAN]
    /\ owner \in [Runs -> Runs \union {NoOwner}]
    /\ meta \in [Runs -> {"none", "running", "finished"}]
    /\ prune \in [Runs -> [now : 0..MaxClock, newest : SUBSET Runs, todo : SUBSET Runs,
                           at : Runs \union {0}, counted : SUBSET Runs, cands : SUBSET Runs]]
    /\ made \in SUBSET Runs /\ published \in SUBSET Runs
    /\ \A r \in Runs : (meta[r] # "none" => lockfile[r]) /\ (lockfile[r] => dir[r])

\* "Runs in progress ... are always kept": no pruner deletes the directory of
\* a run whose recorder is alive and has not stored its outcome.
LiveRunsKept == \A r \in Runs : pc[r] = "running" => dir[r]

\* A run that is still being created is kept too, although it has no lock yet
\* for a part of that time.
CreatingRunsKept == \A r \in Runs : pc[r] \in Creating => dir[r]

\* However many pruners work from lists of different ages, the directory of a
\* task's newest run is never deleted by any of them.
LatestDirKept == \A r \in Newest(made) : dir[r]

\* "The newest run of every task [is] always kept", for the newest run a
\* reader was ever shown, unless a newer one is just being created.
NewestRunKept ==
    \A r \in Newest(published) :
        \/ dir[r]
        \/ \E s \in Runs : s > r /\ TaskOf[s] = TaskOf[r] /\ pc[s] \in Starting \union Creating

\* The age limit alone deletes a run only when it is older than the limit, its
\* recorder is gone and a newer run of its task has started.
OnlyExpiredPruned ==
    [][\A r \in Runs : dir[r] /\ ~dir'[r] /\ pc'[r] # "failed" =>
          /\ clock - started[r] > MaxAge
          /\ pc[r] \notin Creating \union Recording
          /\ \E s \in made : s > r /\ TaskOf[s] = TaskOf[r]]_vars

\* The size limit stops deleting once the stored runs fit.
PruneStopsWhenItFits ==
    [][\A r \in Runs : meta[r] # "none" /\ meta'[r] = "none" =>
          Cardinality({s \in Runs : meta[s] # "none"}) > MaxSize]_vars

\* Every execution is recorded: no start is refused when no file operation
\* fails.
EveryStartRecorded == MayFail \/ \A r \in Runs : pc[r] # "failed"

\* List for a directory reads the task.json of every task, and fails on one that
\* has none.
HistoryListable == \A t \in Tasks : task[t] # "dir"
=============================================================================
