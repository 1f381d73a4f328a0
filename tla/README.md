# Verification of cron-person

TLA+ models of [cron-person](../src/README.md), a manager of per-directory
cron schedules, with TLC runs on small instances and TLAPS proofs for instances
of any size. Definitions are translated from the Go sources; `PROJECT.json` maps
each of them to the lines it models.

    tlc -workers 2 -config store_changes.cfg MCStore     # any run: its cfg, its module
    tlapm HistoryProofs.tla                              # any *Proofs.tla

## 1. The system

cron-person has no daemon. Every command is a short-lived process, started by a
user, by a shell hook or by cron, and processes meet only in the file system,
in the user's crontab and through signals and pipes.

| Component | State | Operations | What makes it correct | Modules |
|---|---|---|---|---|
| Authorization store (`internal/store`) | `allowed.json` (directory -> hash), its lock, its staged temp files | `Allow`, `Deny`, `Inspect`, `InspectAll`, `Schedulable` | a successful change survives crashes and power loss; concurrent changes do not undo each other; the file always parses | `Authorizations`, `Store`, `Schedule` |
| `.cronrc` reader (`internal/cronrc`) | none | read, parse, hash, find | one read serves check and execution; only parseable files are approved; fields are accepted as cron means them | `Store`, `Schedule`, `Weekdays` |
| Runner (`internal/runner`) | the task's process group, two pipes | `Exec`, `prepare`, `runGroup` | runs only approved bytes; records what really happened; always returns | `Store`, `Schedule`, `Group` |
| Run recording (`internal/history/recording.go`) | a run's directory: `run.lock`, `meta.json`, `output.log` | `Start`, `Finish`, `Reject`, the stream writers | every byte once and in order, within the limit; the outcome is last | `History`, `RunLog` |
| Run history (`internal/history/history.go`) | `runs/<task>/<run>/` | `Get`, `List`, `Follow`, `WriteOutput`, `Prune` | live, new and latest runs are kept; what is said and shown of a run is true | `History`, `RunLog` |
| System crontab (`internal/crontab`) | the user's crontab, `crontab.lock` | `Sync`, `Uninstall`, `Preview` | personal lines are kept; the newest authorizations win; entries reach exec as written | `Crontab`, `CronText`, `Entry`, `Schedule` |
| Manual run (`cmd/cron-person/attach.go`) | two channels, a pipe, a prompt, the run ID file | `task run`, Ctrl+C, detach | input arrives in order; signals are handled; nothing is left behind | `Attach` |
| Recorder (`cmd/cron-person/exec.go`) | - | `exec`, signals to a cancelled context | the outcome is recorded whatever is signalled | `Attach`, `Group`, `Schedule` |
| Descriptions (`internal/cronrc/description.go`) | none | `DescribeSchedule` | names the days on which cron fires | `Weekdays` |
| File locks (`internal/filelock`) | flock | `LockPath`, `TryLock` | exclusion; released by the kernel with the process | in all of them |
| Configuration, hook, display, printing commands | none | read, format | arithmetic and text | not modelled (section 5) |

Interactions:

- cron runs `exec`, which inspects the store, starts a recording, runs the task
  in a process group, stores the outcome and prunes the history of all tasks;
- `task run` starts the same `exec` as a child and relays input and signals;
- `crontab sync` reads the store and every approved `.cronrc` and replaces the
  managed block by way of `crontab -l` and `crontab -`;
- readers (`task history`, `task log`, `status`) probe the locks of live runs,
  and a probe takes the lock for an instant.

What is hard, and where the properties are aimed: calls of several processes
between any two file-system calls; kills and power loss; two reads that are
expected to agree; a lock that is also used as a liveness test; bounded channels
and pipes in front of a task that may not read; timers that race with exits; a
text that two other programs take apart before it comes back.
`PROJECT.json` lists each such place under "hazards".

## 2. The modules

A module `XProofs` holds the theorems about `X` (section 4), `LineProofs` those
about `Weekdays`, `Entry` and `CronText`.

### Authorizations, Store, MCStore, StoreProofs

`Authorizations` is the promise: one outcome per directory, visible first and
then *settled*; a power loss may undo only what is not settled.

`Store` is the code. A process walks through `pc` values that name the next
file-system call: `stat mkdir flushHome` (`createDirDurably`), `lock`, `reload`,
`stage sync rename flushDir` (`saveRecordsLocked`), `unlock`; an inspection
through `load prepare running`. `visible` is `allowed.json` as any process reads
it, `survivors` the set of contents a power loss may leave of it: a rename adds
the new content (and `Corrupt`, if the temp file was not flushed), a flush of the
directory leaves only what is visible. `Fail` is any call returning an error with
its clean-up, `Crash` a kill that leaves the temp file, `PowerLoss` picks a
survivor. `promise` and `approvals` are history variables, which no guard reads.
A `.cronrc` is one of `Contents`, absent or not a regular file; a hash is a
record around the content, so that the two cannot be confused.
`Store!ImplementsAuthorizations` is the refinement with
`approved <- visible, settled <- promise`.

### History, MCHistory, HistoryProofs

Execution `r` is the process that records run `r` and prunes afterwards. `pc`
follows `Start` (`mktask taskinfo mkdir`), `open` (`lockfile trylock publish`),
`close` and `Prune` (`scan measure probe unprobe creating remove`). The lock
probe is two steps, since it holds the lock in between; `Prune` works on the list
of its scan while others start, finish, crash and prune. Sizes are counted in
stored runs; `RemoveAll` is one step; run numbers are the order of run IDs; a tick
is a fraction of `creationGrace`, and `Tick` says that creating a run's files takes
less than it. `made` and `published` are history variables.

### RunLog, MCRunLog, RunLogProofs

One run from the moment its metadata is published: what `History` takes for one
step, and the readers it leaves out. Two copier goroutines hand writes of any
shape to `streamWriter.Write`, which splits them into lines and keeps the
unfinished one in `buf`; a line that is stored is in `queue` while the writer
holds `Recording.mu`, and leaves it one record at a time (`StoreRecord`,
`StoreFails`), as in `writeLineLocked`. A byte is known by stream, line and
column, so a record is a stretch of a line and "nothing lost, repeated or
reordered" can be said of `log` at any moment. `close` is `Flush`,
`StoreOutcome`, `Release`. A reader is one `task log`: `readRun` (`meta probe
unprobe reread`), the output (`open tail`), and with `--follow` the loop of
`Follow` (`poll unpoll copy`) with a last `readRun`. A pruner, started by a later
run, probes the same lock and removes the directory. `contested` marks that a
probe met a lock that was not the recorder's.

### Crontab, MCCrontab, CrontabProofs

The crontab is a sequence of lines: the user's, blank ones, the markers and the
entries of one version of the store. `WellFormed`, `RemoveBlock` and
`MergeCrontab` work on them as the code does on text, trailing blank lines
included. `lock preview read merge spawn feed wait unlock` are the calls of `Sync`
and `Uninstall`. `crontab -` is a child with a state of its own: it installs what
it has read when its pipe closes, even if cron-person was killed. `due` is the
version that a successful sync has put in place; `raced` marks an edit made
between `crontab -l` and `crontab -`, which the README of cron-person warns about
(it is lost, and so is damage that it did: the update does not look again);
`killed` holds where an update was killed while its `crontab -` ran.

### CronText, Entry, LineProofs

`CronText` has `quoteCronArg`, what cron does to the command of an entry (both
kinds: some crons turn `\\` into `\`, some do not), and what a shell makes of
quoted text, each as a function of how many characters have been read (`Quoting`,
`CronReading`, `ShellReading`), as the loops of the programs go. `Entry` walks an
argument through the three programs, for all short texts over the characters that
any of them treats differently. `EntrySpec` and, in `Weekdays`, `DowSpec` are these
machines by themselves, for the proofs.

### Schedule, MCSchedule, ScheduleProofs

The composition of store, sync, cron and exec: `.cronrc` files change, directories
are allowed and denied (one whose path no entry can hold gets into the store only
by hand, `EditStore`), a sync loads the store once and reads the files one after
the other, cron fires whatever is installed, and `exec` takes its arguments apart
(a `--` before the command is passed over, so a task whose command is `--` is
refused), reads the file, then the store, and starts or blocks. The store is what every
process reads of it and syncs install at once: `Authorizations` and `Crontab`
justify that. Entries are the texts of `CronText`. `ever` holds every pair of
directory and content that was ever approved, `still` the directories that were
left alone since the running sync began.

### Weekdays

`normalizeDowField` part by part, what the parser of the descriptions accepts and
which days it takes the rewritten field for, next to the days on which cron fires
the field as written.

`MCSchedule` runs `Schedule`, `Weekdays` and `Entry` in one instance: they share
no state, and two rest while the third moves.

### Attach, AttachProofs

The foreground of `task run`: `typed` is what the user typed; the variables
behind it (`read`, `taken`, `queue`, `pipe`, `got`) hold numbers of items on their
way through `readInput`, the select loop, `forwardInput`, the pipe and the task.
The loop has one action per case of the `select` and its inner switch; `loop =
"send"` is the loop blocked in `forward <- data`. `child` is the recorder,
`idfile`/`idstep` its report of the run ID. `queue` includes the line that
`forwardInput` holds, so `Backlog` is the channel's capacity plus that line.

### Group, MCGroup, GroupProofs

`Exec` around `runGroup`. `phase` is the goroutine in `Start` and `Wait`, `watch`
the goroutine in which os/exec calls `cmd.Cancel` and then kills the task after
`WaitDelay`, `escalation` the timer that kills the group. Members of the group
may ignore SIGTERM (`deaf`) or have given up the output (`silent`). `copier` is
os/exec's copying of the output into the log and, by `passthroughWriter`, to the
caller's stream; the caller may read, stall or leave, and `Wait` waits for the
copier even after the pipes were closed. Timers are untimed: an armed timer may
fire at any moment. os/exec is modelled as `runGroup` uses it: a wait that reports
`ErrWaitDelay` only for a task that exited with status 0, and no cancellation
error once the task is reaped.

Operators whose comment begins with "Mutant" are plausible mistakes in the
definition that follows them. Nothing uses them; each shows that a property fails
when its definition is replaced by the mistake.

## 3. Runs

All finish within about three minutes. Every bound is a constant in the cfg.

| Run | Properties | Bounds | Distinct states |
|---|---|---|---|
| `store_changes` | `TypeOK` `PromisesKept` `RenameCommitsOneChange` `OneStagedFile` `ImplementsAuthorizations` | 2 processes, 2 directories, 1 content, directory durable | 357 k |
| `store_inspect` | `RunsOnlyApproved` `ApprovedParses` | 2 processes, 1 directory, 3 contents, 1 of them invalid | 1.78 M |
| `store_first_use` | `CreatorFlushesHome` `LockWaitEnds` | 2 processes, 1 directory, no state directory yet; fair | 308 k |
| `history_age` | `TypeOK` `LiveRunsKept` `OnlyExpiredPruned` | 3 executions of one task, age limit 1 tick, failing file operations | 4.62 M |
| `history_size` | `CreatingRunsKept` `LatestDirKept` | 3 executions of one task, room for 1 | 2.97 M |
| `run_log` | `TypeOK` `RecordsAreTheOutput` `FinishedIsComplete` `TailNeverFails` `ShownIsComplete` `StatusIsTruthful` `FollowReturns` | 2 streams, 4 bytes of output, records of at most 2, limit 6 bytes with prefixes, 1 reader (2 while the output is at most 1 byte), 1 pruner, failures, crash; fair | 1.26 M |
| `crontab_updates` | `TypeOK` `NewestStaysInstalled` `UserLinesKept` `SyncSettles` `MalformedNotReplaced` | 2 processes, 3 store versions, 1 edit, 1 kill | 743 k |
| `attach` | `TypeOK` `InputInOrder` `IDFileRemoved` `HangUpHandled` `CommandReturns` | 3 typed items, 3 signals, channel and pipe of 1; fair | 956 k |
| `group` | `TypeOK` `SucceededUntouched` `UnwarnedIsComplete` `EndedRunReturns` | a task and 2 background processes; fair | 523 k |
| `schedule` | `TypeOK` `StartsOnlyApproved` `SyncIsExact` `QuotingRoundTrips` `WeekdaysKept` | 2 directories, 3 contents, 1 of them invalid; texts of up to 4 of 6 characters; fields of up to 2 parts, steps up to 3 | 741 k |
| `history_live_pruned` | `LiveRunsKept`, violated | as `history_size` | |
| `schedule_described` | `DescribedAsFired`, violated | fields of 1 part | |

Why these bounds are enough for the cases at hand. Lost updates, lock races and
stale temp files are interactions of two writers on two directories, and a third
process adds only another waiter (the proofs cover any number). Pruning needs three
runs of one task: the pruner's own, a victim and a newer one that takes away the
victim's protection. Four bytes make a line that is split across two records, one
that is flushed at exactly the limit, an unterminated end and the limit on the log,
in either stream. A channel of capacity 1 is full after one line, so three typed
lines fill pipe, queue and loop at once; the channel of signals holds two, so the
third that arrives unread is dropped. Two readers and a pruner are all the kinds of
probes that can meet: the recorder's lock, a reader's and a pruner's. Two background processes give one that
ignores SIGTERM beside one that obeys, and one that holds the output beside one
that does not. Four characters hold every context of `quoteCronArg`, which looks
one character back, and one character on either side; a rewritten part depends on
its neighbours in nothing, so two parts show that they do not disturb each other.

`store_changes` keeps the `.cronrc` files as they are and starts no inspections
(`ChangesOnly`): neither writes the store. `history_age` starts the second and
later executions after the clock has moved (`OneOldRun`): a run started in the
same tick cannot be older than the limit when these prune, so only the earlier
start matters to the age limit; and it lets only the first run's files fail and no
two processes be dead at once (`FewFailures`). `group` explores one of two
instances that swap the background processes (`OneOfEachPair`). `schedule` keeps
the second directory, whose path no entry can hold, to one content
and one record (`OneContentThere`). `run_log` starts the second reader only while
the output is short, and the task then writes no more (`MCNext`): whom a probe meets
does not depend on what was written. `CHECK_DEADLOCK FALSE` stands where the system ends: every
execution, recording, foreground or recorder runs once, and a field and an argument
are taken through once.

Fairness. `Store`: the kernel runs every process that can run, and a process
blocked in flock gets the lock eventually if it is free again and again (strong
fairness of `Lock`; nothing else is strong). `RunLog`: a reader that has begun goes
on, and a pruner gives back the lock it probed; nothing is assumed of the recorder,
so `FollowReturns` is about runs whose recorder has ended. It also rests on there
being finitely many probes: the pruner probes the run once, and a reader that is
granted the lock does not probe again. New commands without end, each at its probe
whenever a follower is at its own, could keep that one from returning. `Attach`: the goroutines
run, and each kind of ready case of the select is chosen in the end; a recorder
that was asked to terminate exits, which is what `Group` shows. Whether the task
reads is not assumed, it is the hypothesis of `HangUpHandled`. `Group`: goroutines
run, armed timers fire, a process that does not ignore SIGTERM exits on it; a task
that is not signalled may run forever. That the caller reads again or leaves is the
hypothesis `CallerReads` of `EndedRunReturns`.

`LiveRunsKept` holds under the age limit and fails under the size limit: a run
that goes live between the pruner's probe and its look at the metadata is a
candidate in both cases, but the age limit only takes runs older than the limit,
which is longer than any run takes to be created.

### Divergences from what the documentation says

Two are listed as findings, with a run each. `history_live_pruned`: with a size
limit, a run in progress can be deleted. `schedule_described`: a day-of-week range
with a step that ends on 7, as in `5-7/2`, is described without the Sunday on
which cron fires it, since the description uses the field as rewritten for
validation. The others have a configuration that shows the counterexample, kept
beside the runs:

| Configuration (module) | Violated property | What happens |
|---|---|---|
| `store_first_change` (MCStore) | `PromisesKept` | first use: the command that did *not* create the state directory can report success before its creator has flushed the entry; a power loss then takes the store along |
| `history_newest_pruned` (MCHistory) | `NewestRunKept` | an unpublished directory counts as the newest run, the newest published one is pruned, then the new recorder dies |
| `history_start_refused` (MCHistory) | `EveryStartRecorded` | another process's probe holds `run.lock` when the recorder takes it, and the task runs unrecorded |
| `history_unlistable` (MCHistory) | `HistoryListable` | between creating a task directory and its `task.json`, or for good if the recorder dies there, listing by directory fails |
| `history_overpruned` (MCHistory) | `PruneStopsWhenItFits` | two pruners work from the same total and remove different runs |
| `run_log_exact` (RunLog) | `OnlyLongLinesSplit` | a line of exactly the maximal length is flushed before its newline, which then makes an empty record |
| `crontab_killed_feed` (MCCrontab) | `UserLinesSurviveKills` | cron-person is killed while it feeds `crontab -`, which installs the part it has |
| `crontab_orphan` (MCCrontab) | `NewestSurvivesKills` | the `crontab -` of a killed sync installs an old block after a later sync has finished |
| `attach_not_reading` (Attach) | `HangUpHandledUnread` | a task that stops reading blocks the loop in front of a full queue, and signals are not handled |
| `attach_type_ahead` (Attach) | `AnswersFollowPrompt` | a line typed before Ctrl+C is taken as the answer to the prompt |
| `attach_detach_asked` (Attach) | `DetachedLeftRunning` | after a termination request another Ctrl+C prompts again, and "no" reports a task that keeps running |
| `attach_detach_queue` (Attach) | `QueuedInputDelivered` | detaching ends the process before `forwardInput` has written what is queued |
| `group_survivor` (Group) | `CancellationReachesAll` | the task obeys SIGTERM, a background process does not; the return stops the escalation and the process survives |
| `group_early_cancel` (Group) | `GracefulFirst` | a signal between `Start` and `group.Store` kills the task without SIGTERM |
| `group_failed_cut` (Group) | `CutCaptureWarned` | a failed task's cut capture leaves no warning, since os/exec reports the exit status instead |
| `group_stalled_caller` (Group) | `StalledCallerForgiven` | a caller that neither reads nor leaves blocks the copier, and with it the recorder, for good |

## 4. Proofs

Each module holds for every value of the constants its component allows, under the
`ASSUME`s of the component; those name markers that are none of the values they
stand beside, finiteness, and what is said below.

| Theorem (module) | States | Assumes |
|---|---|---|
| `Invariance` (StoreProofs) | `Spec => []IInv` | - |
| `TypeCorrect` | `Spec => []TypeOK` | - |
| `RenamesCommitOneChange` | `Spec => []RenameCommitsOneChange` | - |
| `OnlyApprovedRuns` | `Spec => []RunsOnlyApproved` | - |
| `StagedFilesDoNotPileUp` | `Spec => []OneStagedFile` | - |
| `CreatorIsDurable` | `Spec => []CreatorFlushesHome` | - |
| `OnlyParseableApproved` | `Spec => []ApprovedParses` | - |
| `PromisesAreKept` | `Spec => []PromisesKept` | `InitialHome = "kept"` |
| `StoreImplementsAuthorizations` | `Spec => ImplementsAuthorizations` | `InitialHome = "kept"` |
| `TypeCorrect` (ScheduleProofs) | `Spec => []TypeOK` | - |
| `OnlyApprovedStarts` | `Spec => []StartsOnlyApproved` | - |
| `SyncsAreExact` | `Spec => SyncIsExact` | - |
| `TypeCorrect` (CrontabProofs) | `Spec => []TypeOK` | - |
| `NewestInstalled` | `Spec => []NewestStaysInstalled` | - |
| `LinesKept` | `Spec => []UserLinesKept` | - |
| `SyncsSettle` | `Spec => []SyncSettles` | - |
| `MalformedKept` | `Spec => MalformedNotReplaced` | - |
| `DaysAreKept` (LineProofs) | `DowSpec => []WeekdaysKept` | - |
| `ArgumentsRoundTrip` | `EntrySpec => []QuotingRoundTrips` | - |
| `TypeCorrect` (AttachProofs) | `Spec => []TypeOK` | - |
| `InputOrdered` | `Spec => []InputInOrder` | - |
| `IDFileGone` | `Spec => []IDFileRemoved` | - |
| `TypeCorrect` (RunLogProofs) | `Spec => []TypeOK` | - |
| `RecordsExact` | `Spec => []RecordsAreTheOutput` | - |
| `FinishedComplete` | `Spec => []FinishedIsComplete` | - |
| `TailSucceeds` | `Spec => []TailNeverFails` | - |
| `ShownComplete` | `Spec => []ShownIsComplete` | - |
| `StatusTruthful` | `Spec => []StatusIsTruthful` | - |
| `TypeCorrect` (GroupProofs) | `Spec => []TypeOK` | - |
| `SuccessesUntouched` | `Spec => []SucceededUntouched` | - |
| `UnwarnedSuccessesComplete` | `Spec => []UnwarnedIsComplete` | - |
| `TypeCorrect` (HistoryProofs) | `Spec => []TypeOK` | - |
| `CreatingKept` | `Spec => []CreatingRunsKept` | - |
| `LiveKept` | `Spec => []LiveRunsKept` | `MaxSize = 0` |
| `OnlyExpired` | `Spec => OnlyExpiredPruned` | `MaxSize = 0` |
| `LatestKept` | `Spec => []LatestDirKept` | `~MayFail` |

### Store

`PromisesAreKept` and `StoreImplementsAuthorizations` need a durable state
directory because without it `PromisesKept` is false (`store_first_change`).

The properties `IInv` is for are not inductive as they stand. It adds what the code relies on:

- `LockHeld`: a process is between reload and unlock exactly if it holds the lock,
  so there is at most one;
- `JobsFit`: what a process is doing fits where it is;
- `CopyCurrent`: between reload and rename the holder's copy of the records is the
  store everyone reads, since nobody else can rename;
- `StagedChange`: its temp file is still there, flushed or not, with that copy and
  the one change; the clean-up of another process cannot have removed it, because
  cleaning up needs the lock;
- `Renamed`: after the rename the visible store has the outcome;
- `Durable`: no survivor is torn, and on a durable directory all survivors and the
  visible store are within the promise of each directory;
- `Approved`: what an inspection has checked was approved since it began.

There is one lemma per action, one step per group of conjuncts, and `ExitFacts`
for the many ways a command ends. `RenameCommitsOneChange` follows from
`StagedChange` and `CopyCurrent`; `PromisesKept` from `Durable`; a rename is a
`Change` of the abstract module, a flush of the directory a `Settle`, a power loss
a `Lose`, and every other action a stutter.

Three invariants stand beside `IInv` and use it. `OneStagedFile` and
`CreatorFlushesHome` are inductive once the types and `IInv` are known.
`ApprovedParses` needs `JobsParse`, that a job waiting for the lock names content
that parsed when it was read, and `StoresParse`, which holds for every store a
power loss may leave.

### Schedule

Everything that is approved, loaded by a sync, readied, installed or handed to
`exec` comes from a pair in `ever`; the invariant says so of each place. For
`SyncIsExact` it says what a sync has done so far for every directory that was left
alone, which is `Ready` of it; that the table shows this needs entries of different
directories or commands to be different texts. They are, since they arrive as
different arguments: `EntryArrives`, from `ArgumentsArrive` of `LineProofs`. All
that is assumed of directories and commands is that they are texts
(`TextsAssumption`).

### A line of the crontab

`LineProofs` has what is proved of a line by itself.

The field. A part becomes parts that mean what it meant (`PartAccepted`,
`PartDaysFired`, `PartDaysNamed`). `FieldInv`: the field being written holds exactly
what the parts read so far become (`Gathered`), and the parts left are the rest of
the field (`Remaining`).

The arguments. `quoteCronArg` writes a *piece* of one to five characters for each
character. `CronPiece`: wherever the piece stands in a line, it takes cron from where
it stood behind the previous character (with a backslash pending, if that was one)
to where it stands behind this one, and cron passes on all of it but the backslash
before a percent sign. Here the pieces matter: two adjacent backslashes in the
output would let some crons swallow one, and the `''` between them is what keeps
them apart. `ShellPiece`: what was passed on takes the shell from inside the single
quotes back there, with just that character added to its word. `CronThrough` and
`ShellThrough` go through an argument piece by piece, `ArgumentsArrive` through the
two of an entry. The induction theorems of the library cannot be instantiated here;
"piece by piece" is proved from the least piece for which it would fail
(`LeastElement`, `Reaches`), and that the recursive functions of `CronText` exist at
all by `Recursion`, in the same way.

### Crontab

The first part of `CrontabProofs` is about the crontab as a sequence of lines:
what `RemoveBlock`, `Trimmed` and `MergeCrontab` make of any well-formed one, the
user's lines in particular. `SyncSettles` is such a fact. The protocol has
`IInv = TypeOK /\ Children /\ Newest /\ Kept`:

- `Children`: a `crontab -` reads exactly while its process feeds it, and outlives
  its process only after a kill;
- `Newest`: the block that a sync carries is at least as new as every success it may
  overwrite, since it was generated under the lock that later successes have yet to
  take;
- `Kept`: what is to be installed has the user's lines and was made from a
  well-formed crontab.

`NewestStaysInstalled` and `UserLinesKept` are not inductive without them: a step
that installs says nothing of where its text came from. `Kept`, and with it
`LinesKept` and `MalformedKept`, is claimed only as long as no edit was made between
the `crontab -l` and the `crontab -` of an update and no kill cut off the feeding:
in both cases the code does write over a crontab whose markers do not match.

### Attach

`IInv` adds to the types and `IDFileRemoved`: `Ordered`, what the task has read,
what is in its pipe and what is queued for it is one increasing sequence, all
behind the line the loop holds; `Complete`, together they are every line taken that
was no answer; `Ends`, the input is closed only behind the last of them.

### RunLog

Two arguments that meet only where a reader takes the recorder for gone.

- The output: what is in the log (`Logged`), what waits to be stored (`Waiting`) and
  what is buffered (`Buffering`) of a stream follow one another without a gap
  (`Linked`), so that every record that is stored continues the one before it, and
  with nothing waiting or buffered the log ends where the stream does. Failures and
  the limit end the chain (`Silenced`), and are visible in the metadata or reported.
- The readers: each knows by the lock or the metadata that the recorder will store
  nothing more (`Truthful`, `Closing`), and has then shown what there is
  (`Complete`). A run is taken for interrupted only behind a free lock followed by
  a second look at the metadata.

### Group

`IInv` follows what the cancellation leaves behind: a signalled task implies that
the watching goroutine has decided, which sets the context error, so a success
cannot be recorded; pipes that were closed early leave the context error or the
mark that the capture was cut; and once nobody holds the output, nobody comes to
hold it again.

### History

No invariant of section 3 is inductive, because a pruner acts on what it saw much
earlier. `IInv` says what of that stays true:

- `Superseding`: whatever a pruner may still remove was superseded by a newer run
  when it scanned, and always will be; so was any run whose lock somebody else holds;
- `Young` and `Candidates`: creating a run takes less than the grace period, so a
  run without metadata that is not young enough has no recorder creating it, and a
  run that is being created never becomes a candidate;
- `Locked`: a recorder holds its lock from before the metadata is written until
  after the outcome is;
- `Made`: a recorder that is about to write metadata has created `run.lock`;
- `Settled`, without a size limit: a run old enough to be removed whose lock was
  free or missing has no recorder left. With a size limit this fails, for young
  runs: that is `history_live_pruned`.

`LatestKept` adds `Latest`, that a run without its directory was superseded. It
needs `~MayFail`, because a recorder whose start fails removes its own directory.

### Only model-checked

Liveness, which is out of the prover's reach: `LockWaitEnds`, `FollowReturns`,
`HangUpHandled`, `CommandReturns`, `EndedRunReturns`. The counterexamples of the two
findings and of the configurations of section 3 are runs of TLC, too. Every
invariant and action property that a passing run checks is a theorem.

## 5. What is not modelled

- The line grammar of `.cronrc` beyond the day-of-week field, `FindCronrc` and the
  hook: text, and a walk to the root.
- Configuration and the conversion of its limits to bytes and durations.
- Deny's and List's treatment of hand-edited, non-canonical keys of `allowed.json`.
- The composition of a task's environment.
- The filters and the printing of `List`, `status`, `check`, `help`; `display`.
- The Windows files, and the scripts for releases and coverage.

Abstractions inside the modules: the state directory is one level deep; removing a
stale temp file succeeds (its failure is ignored by the code and harmless); a
`RemoveAll`, an edit of the crontab by its user and one `Write` of a reader's
output are one step; the terminal's own flushing of typed input on Ctrl+C is left
out; the relays of output are left out; a recorder's death takes its end of the
input pipe with it, although a background process of the task may still hold it.

## 6. Plan

The order follows what the system must not get wrong: authorization first, then
what is recorded, then what is installed and how a run is controlled. All modules
of the first plan are written except the composition of `Attach`, `Group` and
`RunLog` into one execution, whose joint question, exactly one outcome for every
started task, is answered in parts by `SucceededUntouched`, `EndedRunReturns` and
`FinishedIsComplete`.

What the runs check of safety is proved. Next: the divergences of section 3 say
what does hold beside each of them, under which condition, and some of that is worth
a theorem of its own: how much two pruners can remove beyond the size limit, that a
kill while `crontab -` is fed leaves a beginning of a crontab and nothing else, that
the log never exceeds its limit (`Logged` of `RunLogProofs` has it already). And
the step-by-step part of the liveness properties: that the measures they decrease
do decrease.
