-------------------------------- MODULE Store --------------------------------
(***************************************************************************)
(* The authorization store (internal/store/store.go) as several            *)
(* cron-person processes use it: `allow`, `deny` and the authorization     *)
(* check of `exec` and `run` (Store.Inspect, then runner.prepare).  One    *)
(* action per file-system call that another process, a crash or a power    *)
(* loss can separate from the next.                                        *)
(*                                                                         *)
(* A store is the content of allowed.json: one record (here its hash) per  *)
(* directory.  What other processes read is `visible`; `survivors` holds   *)
(* every content a power loss may leave, because a rename is durable only  *)
(* after the directory holding it is flushed.                              *)
(***************************************************************************)
EXTENDS Naturals, FiniteSets

CONSTANTS
    Procs,         \* concurrent cron-person processes
    Dirs,          \* directories holding a .cronrc
    Contents,      \* what a regular .cronrc can contain
    Invalid,       \* the contents cronrc.Parse rejects
    NoProc,        \* nobody holds allowed.json.lock
    InitialHome,   \* "kept": the state directory is there from the start;
                   \* "missing": this is the first use of cron-person
    Absent,        \* no .cronrc: fs.ErrNotExist
    NotRegular,    \* a .cronrc that is no regular file: cronrc.ErrNotRegular
    NoRecord,      \* a directory without a record
    NoFile,        \* no temp file
    Corrupt        \* an allowed.json whose bytes never reached the disk

\* A hash stands for the bytes it was computed from and is not those bytes.
Hashes   == [sha256 : Contents]
Outcomes == Hashes \union {NoRecord}
Records  == [Dirs -> Outcomes]

ASSUME InvalidAssumption == Invalid \subseteq Contents
ASSUME NoProcAssumption  == NoProc \notin Procs
ASSUME HomeAssumption    == InitialHome \in {"missing", "kept"}
ASSUME FileAssumption    == Absent \notin [text : Contents] /\ NotRegular \notin [text : Contents]
ASSUME RecordAssumption  == NoRecord \notin Hashes /\ Corrupt \notin Records
ASSUME TempAssumption    == NoFile \notin [data : Records, synced : BOOLEAN]

VARIABLES
    cronrc,      \* [Dirs -> what .cronrc is on disk]
    home,        \* the state directory: missing, fresh (entry not flushed), kept
    visible,     \* allowed.json as any process reads it
    survivors,   \* the contents of allowed.json a power loss may leave
    staged,      \* [Procs -> the process's temp file beside allowed.json]
    lock,        \* the holder of allowed.json.lock
    pc,          \* [Procs -> the next call of the process]
    job,         \* [Procs -> what the process was asked to do]
    mem,         \* [Procs -> Store.records]
    saw,         \* [Procs -> createDirDurably's `missing` is not empty]
    snap,        \* [Procs -> the .cronrc bytes an inspection read]
    promise,     \* history: per directory, the outcomes a caller may expect
    approvals    \* history: per process, the outcomes its directory had
                 \*          since its inspection began

disk  == <<home, visible, survivors, staged>>
local == <<pc, job, mem, saw, snap>>
ghost == <<promise, approvals>>
vars  == <<cronrc, disk, lock, local, ghost>>

-----------------------------------------------------------------------------
(* Data *)

CronrcStates == [text : Contents] \union {Absent, NotRegular}

ComputeHash(file) == [sha256 |-> file.text]

Empty  == [d \in Dirs |-> NoRecord]
Stores == Records \union {Corrupt}
Temps  == [data : Records, synced : BOOLEAN] \union {NoFile}


\* Mutant: allow does not parse what it hashes.
ParsesAnything(file) == file \in [text : Contents]

Parses(file) == file \in [text : Contents \ Invalid]

NoJob == [op |-> "none"]
Jobs  == [op : {"allow"}, dir : Dirs, hash : Hashes]
           \union [op : {"deny", "inspect"}, dir : Dirs]
           \union {NoJob}

Outcome(j) == IF j.op = "allow" THEN j.hash ELSE NoRecord

\* cloneRecordsLocked plus the one change.
Changed(records, j) == [records EXCEPT ![j.dir] = Outcome(j)]

InHome   == {"stat", "mkdir", "flushHome"}
InLock   == {"reload", "stage", "sync", "rename", "flushDir", "unlock"}
Changing == InHome \union {"lock"} \union InLock
Inspecting == {"load", "prepare", "running"}
PCs == {"off", "ready"} \union Changing \union Inspecting

\* Every store a reboot could find; a directory entry that was never flushed
\* may take everything below it along.
Possible == survivors \union (IF home = "fresh" THEN {Empty} ELSE {})


-----------------------------------------------------------------------------
(* A process starts, exits or dies *)

Init ==
    /\ cronrc \in [Dirs -> CronrcStates]
    /\ home = InitialHome
    /\ visible = Empty /\ survivors = {Empty}
    /\ staged = [p \in Procs |-> NoFile]
    /\ lock = NoProc
    /\ pc = [p \in Procs |-> "off"]
    /\ job = [p \in Procs |-> NoJob]
    /\ mem = [p \in Procs |-> Empty]
    /\ saw = [p \in Procs |-> FALSE]
    /\ snap = [p \in Procs |-> Absent]
    /\ promise = [d \in Dirs |-> {NoRecord}]
    /\ approvals = [p \in Procs |-> {}]

Goto(p, label) == pc' = [pc EXCEPT ![p] = label]

Exit(p) ==
    /\ Goto(p, "off")
    /\ job' = [job EXCEPT ![p] = NoJob]
    /\ mem' = [mem EXCEPT ![p] = Empty]
    /\ saw' = [saw EXCEPT ![p] = FALSE]
    /\ snap' = [snap EXCEPT ![p] = Absent]
    /\ approvals' = [approvals EXCEPT ![p] = {}]


\* Mutant: the lock leaks.
ReleasedNever(p) == lock

\* release(), deferred by withFileLock or done by the kernel for a dead process.
Released(p) == IF lock = p THEN NoProc ELSE lock

\* NewStore; a file that does not unmarshal ends the process here.
Open(p) ==
    /\ pc[p] = "off"
    /\ visible \in Records
    /\ mem' = [mem EXCEPT ![p] = visible]
    /\ Goto(p, "ready")
    /\ UNCHANGED <<cronrc, disk, lock, job, saw, snap, ghost>>

\* Any call that can fail does: the error path removes the temp file it
\* staged, releases the lock and ends the command without a promise.
Fail(p) ==
    /\ pc[p] \in PCs \ {"off", "unlock", "running"}
    /\ staged' = IF pc[p] \in {"sync", "rename"}
                   THEN [staged EXCEPT ![p] = NoFile] ELSE staged
    /\ lock' = Released(p)
    /\ Exit(p)
    /\ UNCHANGED <<cronrc, home, visible, survivors, promise>>

\* A kill leaves the staged file behind.
Crash(p) ==
    /\ pc[p] # "off"
    /\ lock' = Released(p)
    /\ Exit(p)
    /\ UNCHANGED <<cronrc, disk, promise>>

-----------------------------------------------------------------------------
(* Allow and Deny *)

\* Allow reads, parses and hashes one snapshot before it takes the lock.
BeginAllow(p, d) ==
    /\ pc[p] = "ready"
    /\ Parses(cronrc[d])
    /\ job' = [job EXCEPT ![p] = [op |-> "allow", dir |-> d, hash |-> ComputeHash(cronrc[d])]]
    /\ Goto(p, "stat")
    /\ UNCHANGED <<cronrc, disk, lock, mem, saw, snap, ghost>>

BeginDeny(p, d) ==
    /\ pc[p] = "ready"
    /\ job' = [job EXCEPT ![p] = [op |-> "deny", dir |-> d]]
    /\ Goto(p, "stat")
    /\ UNCHANGED <<cronrc, disk, lock, mem, saw, snap, ghost>>

\* createDirDurably: which entries are missing ...
StatHome(p) ==
    /\ pc[p] = "stat"
    /\ saw' = [saw EXCEPT ![p] = (home = "missing")]
    /\ Goto(p, "mkdir")
    /\ UNCHANGED <<cronrc, disk, lock, job, mem, snap, ghost>>

\* ... MkdirAll ...
MkdirHome(p) ==
    /\ pc[p] = "mkdir"
    /\ home' = IF home = "missing" THEN "fresh" ELSE home
    /\ Goto(p, "flushHome")
    /\ UNCHANGED <<cronrc, visible, survivors, staged, lock, job, mem, saw, snap, ghost>>


\* Mutant: createDirDurably is os.MkdirAll.
FlushesNothing(p) == FALSE

\* ... and the entries *it* found missing are flushed into their parents.
Flushes(p) == saw[p]

FlushHome(p) ==
    /\ pc[p] = "flushHome"
    /\ home' = IF Flushes(p) THEN "kept" ELSE home
    /\ Goto(p, "lock")
    /\ UNCHANGED <<cronrc, visible, survivors, staged, lock, job, mem, saw, snap, ghost>>


\* Mutant: the store is saved without its lock.
MayLockAlways(p) == TRUE

MayLock(p) == lock = NoProc

\* filelock.LockPath blocks until no other process holds the lock.
Lock(p) ==
    /\ pc[p] = "lock"
    /\ MayLock(p)
    /\ lock' = p
    /\ Goto(p, "reload")
    /\ UNCHANGED <<cronrc, disk, job, mem, saw, snap, ghost>>


\* Mutant: the records loaded by NewStore are trusted.
ReloadedNot(p) == mem[p]

\* reloadLocked: a change starts from the store as it is under the lock.
Reloaded(p) == visible

Reload(p) ==
    /\ pc[p] = "reload"
    /\ visible \in Records
    /\ mem' = [mem EXCEPT ![p] = Reloaded(p)]
    /\ Goto(p, "stage")
    /\ UNCHANGED <<cronrc, disk, lock, job, saw, snap, ghost>>


\* Mutant: abandoned temp files are left alone.
ClearedNot == staged

\* removeStaleTempFilesLocked: everyone's staged files, on the assumption that
\* nobody else can be writing one.
Cleared == [p \in Procs |-> NoFile]

\* saveRecordsLocked up to the write of the temp file.
Stage(p) ==
    /\ pc[p] = "stage"
    /\ staged' = [Cleared EXCEPT ![p] = [data |-> Changed(mem[p], job[p]), synced |-> FALSE]]
    /\ Goto(p, "sync")
    /\ UNCHANGED <<cronrc, home, visible, survivors, lock, job, mem, saw, snap, ghost>>


\* Mutant: the temp file is not flushed before it is renamed.
SyncTempNot(p) ==
    /\ pc[p] = "sync"
    /\ staged[p] # NoFile
    /\ Goto(p, "rename")
    /\ UNCHANGED <<cronrc, disk, lock, job, mem, saw, snap, ghost>>

\* tmpFile.Sync
SyncTemp(p) ==
    /\ pc[p] = "sync"
    /\ staged[p] # NoFile
    /\ staged' = [staged EXCEPT ![p] = [data |-> @.data, synced |-> TRUE]]
    /\ Goto(p, "rename")
    /\ UNCHANGED <<cronrc, home, visible, survivors, lock, job, mem, saw, snap, ghost>>

\* What a power loss may leave of a file renamed into place.
Leftovers(temp) == {temp.data} \union (IF temp.synced THEN {} ELSE {Corrupt})

\* os.Rename is the commit point; s.records follows the disk.
Rename(p) ==
    /\ pc[p] = "rename"
    /\ staged[p] # NoFile
    /\ visible' = staged[p].data
    /\ survivors' = survivors \union Leftovers(staged[p])
    /\ staged' = [staged EXCEPT ![p] = NoFile]
    /\ mem' = [mem EXCEPT ![p] = Changed(mem[p], job[p])]
    /\ promise' = [promise EXCEPT ![job[p].dir] = @ \union {Outcome(job[p])}]
    /\ approvals' = [q \in Procs |-> IF pc[q] \in Inspecting
                                       THEN approvals[q] \union {visible'[job[q].dir]}
                                       ELSE approvals[q]]
    /\ Goto(p, "flushDir")
    /\ UNCHANGED <<cronrc, home, lock, job, saw, snap>>


\* Mutant: the directory is not flushed after the rename.
FlushedNot == survivors

\* syncDir settles which allowed.json the directory entry names, not its bytes.
Flushed == {visible} \union (survivors \intersect {Corrupt})

\* With the directory flushed the command will report success.
FlushDir(p) ==
    /\ pc[p] = "flushDir"
    /\ survivors' = Flushed
    /\ promise' = [promise EXCEPT ![job[p].dir] = {Outcome(job[p])}]
    /\ Goto(p, "unlock")
    /\ UNCHANGED <<cronrc, home, visible, staged, lock, job, mem, saw, snap, approvals>>

Unlock(p) ==
    /\ pc[p] = "unlock"
    /\ lock' = Released(p)
    /\ Exit(p)
    /\ UNCHANGED <<cronrc, disk, promise>>

-----------------------------------------------------------------------------
(* Inspect and what runner.prepare makes of it *)

\* Inspect reads the .cronrc first, without any lock ...
BeginInspect(p, d) ==
    /\ pc[p] = "ready"
    /\ snap' = [snap EXCEPT ![p] = cronrc[d]]
    /\ job' = [job EXCEPT ![p] = [op |-> "inspect", dir |-> d]]
    /\ approvals' = [approvals EXCEPT ![p] = IF visible \in Records THEN {visible[d]} ELSE {}]
    /\ Goto(p, "load")
    /\ UNCHANGED <<cronrc, disk, lock, mem, saw, promise>>

Classify(file, record) ==
    CASE file = Absent     -> IF record = NoRecord THEN "missing_cronrc" ELSE "orphan"
      [] file = NotRegular -> "missing_cronrc"
      [] OTHER             -> IF record = NoRecord THEN "unauthorized"
                              ELSE IF record # ComputeHash(file) THEN "changed" ELSE "allowed"

\* ... then reloads the store and classifies the snapshot against it.
Load(p) ==
    /\ pc[p] = "load"
    /\ visible \in Records
    /\ IF Classify(snap[p], Reloaded(p)[job[p].dir]) = "allowed"
         THEN /\ mem' = [mem EXCEPT ![p] = Reloaded(p)]
              /\ Goto(p, "prepare")
              /\ UNCHANGED <<job, saw, snap, approvals>>
         ELSE Exit(p)
    /\ UNCHANGED <<cronrc, disk, lock, promise>>


\* Mutant: prepare reads the .cronrc again.
CheckedAgain(p) == cronrc[job[p].dir]

\* prepare parses the snapshot that was checked, not the file as it is now.
Checked(p) == snap[p]

Prepare(p) ==
    /\ pc[p] = "prepare"
    /\ Parses(Checked(p))
    /\ snap' = [snap EXCEPT ![p] = Checked(p)]
    /\ Goto(p, "running")
    /\ UNCHANGED <<cronrc, disk, lock, job, mem, saw, ghost>>

Finish(p) ==
    /\ pc[p] = "running"
    /\ Exit(p)
    /\ UNCHANGED <<cronrc, disk, lock, promise>>

-----------------------------------------------------------------------------
(* The environment *)

EditCronrc(d) ==
    /\ cronrc' \in {[cronrc EXCEPT ![d] = f] : f \in CronrcStates}
    /\ UNCHANGED <<disk, lock, local, ghost>>

\* Sync's own lock and a run's record create the state directory without
\* flushing its entry.
OtherMkdir ==
    /\ home = "missing"
    /\ home' = "fresh"
    /\ UNCHANGED <<cronrc, visible, survivors, staged, lock, local, ghost>>

PowerLoss ==
    /\ \/ /\ home # "missing"
          /\ home' = "kept"
          /\ visible' \in survivors
          /\ staged' \in {staged, Cleared}
       \/ /\ home = "fresh"
          /\ home' = "missing"
          /\ visible' = Empty
          /\ staged' = Cleared
    /\ survivors' = {visible'}
    /\ lock' = NoProc
    /\ pc' = [p \in Procs |-> "off"]
    /\ job' = [p \in Procs |-> NoJob]
    /\ mem' = [p \in Procs |-> Empty]
    /\ saw' = [p \in Procs |-> FALSE]
    /\ snap' = [p \in Procs |-> Absent]
    /\ approvals' = [p \in Procs |-> {}]
    /\ UNCHANGED <<cronrc, promise>>

-----------------------------------------------------------------------------
HomeStep(p)   == StatHome(p) \/ MkdirHome(p) \/ FlushHome(p)
SaveStep(p)   == Stage(p) \/ SyncTemp(p) \/ Rename(p) \/ FlushDir(p)
ChangeStep(p) == HomeStep(p) \/ Reload(p) \/ SaveStep(p) \/ Unlock(p)
Begin(p) == Open(p) \/ \E d \in Dirs : BeginAllow(p, d) \/ BeginDeny(p, d) \/ BeginInspect(p, d)
Execute(p) == Load(p) \/ Prepare(p) \/ Finish(p)

Next ==
    \/ \E p \in Procs : Begin(p) \/ ChangeStep(p) \/ Lock(p) \/ Execute(p) \/ Fail(p) \/ Crash(p)
    \/ \E d \in Dirs : EditCronrc(d)
    \/ OtherMkdir
    \/ PowerLoss

Spec == Init /\ [][Next]_vars

\* The kernel schedules every runnable process, and flock wakes a waiter
\* each time the lock is released.
Fairness == \A p \in Procs : WF_vars(ChangeStep(p)) /\ SF_vars(Lock(p))
FairSpec == Spec /\ Fairness

-----------------------------------------------------------------------------
(* Properties *)

\* Every variable holds values of its kind, and allowed.json always unmarshals.
TypeOK ==
    /\ cronrc \in [Dirs -> CronrcStates]
    /\ home \in {"missing", "fresh", "kept"}
    /\ visible \in Records
    /\ survivors \in SUBSET Stores
    /\ staged \in [Procs -> Temps]
    /\ lock \in Procs \union {NoProc}
    /\ pc \in [Procs -> PCs]
    /\ job \in [Procs -> Jobs]
    /\ mem \in [Procs -> Records]
    /\ saw \in [Procs -> BOOLEAN]
    /\ snap \in [Procs -> CronrcStates]
    /\ promise \in [Dirs -> SUBSET Outcomes]
    /\ approvals \in [Procs -> SUBSET Outcomes]

\* "Once allow or deny succeeds the change survives a crash or power loss":
\* what is visible, and every store a power loss could leave, holds for each
\* directory the outcome of the last successful change or of a later one that
\* is not settled; no change of one directory undoes that of another.
PromisesKept ==
    \A s \in {visible} \union Possible :
        s \in Records /\ \A d \in Dirs : s[d] \in promise[d]

\* A save finds at its rename the file it staged, with the one change it was
\* asked for applied to the store everyone reads: no other process's clean-up
\* of abandoned temp files removed it, no other save slipped in between.
RenameCommitsOneChange ==
    \A p \in Procs : pc[p] = "rename" =>
        staged[p] = [data |-> Changed(visible, job[p]), synced |-> TRUE]

\* However many writers died between staging and renaming, their temp files do
\* not pile up beside allowed.json.
OneStagedFile ==
    \A p, q \in Procs : staged[p] # NoFile /\ staged[q] # NoFile => p = q

\* A task starts only on .cronrc bytes that were approved at some moment after
\* its inspection began: neither an edit nor a deny that was complete before
\* then lets an unapproved file run, whatever is edited meanwhile.
RunsOnlyApproved ==
    \A p \in Procs : pc[p] = "running" =>
        snap[p] \in [text : Contents] /\ ComputeHash(snap[p]) \in approvals[p]

\* Nothing cron-person cannot parse is ever approved, on disk or after a
\* power loss, although the file may change while allow waits for the lock.
ApprovedParses ==
    \A s \in ({visible} \union survivors) \intersect Records, d \in Dirs :
        s[d] # NoRecord => \E c \in Contents \ Invalid : s[d] = ComputeHash([text |-> c])

\* The process that creates the state directory flushes its entry before it
\* touches the store.
CreatorFlushesHome ==
    \A p \in Procs : saw[p] /\ pc[p] \in {"lock"} \union InLock => home = "kept"

\* A command waiting for the store lock finishes, in success or in error.
LockWaitEnds == \A p \in Procs : pc[p] = "lock" ~> pc[p] = "off"

\* The store implements its promise.
Abstract == INSTANCE Authorizations WITH approved <- visible, settled <- promise
ImplementsAuthorizations == Abstract!Spec
=============================================================================
