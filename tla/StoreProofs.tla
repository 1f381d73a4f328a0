----------------------------- MODULE StoreProofs -----------------------------
(***************************************************************************)
(* For any number of processes, directories and .cronrc contents: type     *)
(* correctness, RenameCommitsOneChange, RunsOnlyApproved, OneStagedFile,   *)
(* CreatorFlushesHome and ApprovedParses; and, once the state directory is *)
(* durable, PromisesKept and the refinement of Authorizations.             *)
(*                                                                         *)
(* The argument is one inductive invariant.  Only the lock holder is       *)
(* between reload and unlock (LockHeld), so from reload to rename its copy *)
(* of the records is the store everyone reads (CopyCurrent) and its temp   *)
(* file holds that copy with its one change (StagedChange); hence a rename *)
(* changes one directory, and flushing the directory leaves only stores    *)
(* that agree with every promise (Durable).                                *)
(***************************************************************************)
EXTENDS Store, TLAPS

ChangeJobs  == [op : {"allow"}, dir : Dirs, hash : Hashes] \union [op : {"deny"}, dir : Dirs]
InspectJobs == [op : {"inspect"}, dir : Dirs]

LockHeld == \A p \in Procs : pc[p] \in InLock <=> lock = p

JobsFit ==
    \A p \in Procs :
        /\ pc[p] \in Changing => job[p] \in ChangeJobs
        /\ pc[p] \in Inspecting => job[p] \in InspectJobs

CopyCurrent == \A p \in Procs : pc[p] \in {"stage", "sync", "rename"} => mem[p] = visible

StagedChange ==
    \A p \in Procs :
        /\ pc[p] = "sync" =>
             staged[p] = [data |-> Changed(mem[p], job[p]), synced |-> FALSE]
        /\ pc[p] = "rename" =>
             staged[p] = [data |-> Changed(mem[p], job[p]), synced |-> TRUE]

Renamed == \A p \in Procs : pc[p] = "flushDir" => visible[job[p].dir] = Outcome(job[p])

Durable ==
    /\ survivors \subseteq Records
    /\ InitialHome = "kept" =>
         /\ home = "kept"
         /\ \A d \in Dirs : visible[d] \in promise[d] /\ \A s \in survivors : s[d] \in promise[d]

Approved ==
    \A p \in Procs :
        /\ pc[p] \in Inspecting => visible[job[p].dir] \in approvals[p]
        /\ pc[p] \in {"prepare", "running"} =>
             snap[p] \in [text : Contents] /\ ComputeHash(snap[p]) \in approvals[p]

IInv ==
    TypeOK /\ LockHeld /\ JobsFit /\ CopyCurrent /\ StagedChange /\ Renamed /\ Durable /\ Approved
-----------------------------------------------------------------------------
(* Data *)

\* A change names a tracked directory and leaves it an outcome.
LEMMA ChangeJobFacts ==
    ASSUME NEW j \in ChangeJobs
    PROVE  j \in Jobs /\ j.dir \in Dirs /\ Outcome(j) \in Outcomes
BY DEF ChangeJobs, Jobs, Outcome, Outcomes

\* Applying a change gives records that differ in the job's directory only.
LEMMA ChangedFacts ==
    ASSUME NEW r \in Records, NEW j \in ChangeJobs
    PROVE  /\ Changed(r, j) \in Records
           /\ Changed(r, j)[j.dir] = Outcome(j)
           /\ \A d \in Dirs \ {j.dir} : Changed(r, j)[d] = r[d]
BY ChangeJobFacts DEF Changed, Records

\* What a process that has exited holds is well typed.
LEMMA Blank == Empty \in Records /\ NoJob \in Jobs /\ Absent \in CronrcStates
BY DEF Empty, Records, Outcomes, Jobs, CronrcStates

\* A process that exits, in success, in error or by a kill, leaves the lock to
\* somebody else and takes none of its own state along.
LEMMA ExitFacts ==
    ASSUME IInv, NEW p \in Procs, Exit(p), lock' = Released(p), visible' = visible,
           \A q \in Procs \ {p} : staged'[q] = staged[q]
    PROVE  /\ LockHeld' /\ JobsFit' /\ CopyCurrent' /\ StagedChange' /\ Renamed' /\ Approved'
           /\ lock' \in Procs \union {NoProc} /\ pc' \in [Procs -> PCs]
           /\ job' \in [Procs -> Jobs] /\ mem' \in [Procs -> Records]
           /\ saw' \in [Procs -> BOOLEAN] /\ snap' \in [Procs -> CronrcStates]
           /\ approvals' \in [Procs -> SUBSET Outcomes]
<1> USE DEF IInv, TypeOK, Exit, Goto, Released, PCs, Changing, Inspecting, InHome, InLock
<1>1. pc' \in [Procs -> PCs] /\ lock' \in Procs \union {NoProc}
  OBVIOUS
<1>2. job' \in [Procs -> Jobs] /\ mem' \in [Procs -> Records] /\ snap' \in [Procs -> CronrcStates]
  BY Blank
<1>3. saw' \in [Procs -> BOOLEAN] /\ approvals' \in [Procs -> SUBSET Outcomes]
  OBVIOUS
<1>4. LockHeld'
  BY NoProcAssumption DEF LockHeld
<1>5. JobsFit'
  BY DEF JobsFit
<1>6. CopyCurrent' /\ Renamed' /\ Approved'
  BY DEF CopyCurrent, Renamed, Approved
<1>7. StagedChange'
  BY DEF StagedChange
<1>8. QED BY <1>1, <1>2, <1>3, <1>4, <1>5, <1>6, <1>7

-----------------------------------------------------------------------------
(* Each action preserves the invariant *)

\* NewStore reads the store.
LEMMA OpenStep ==
    ASSUME IInv, NEW p \in Procs, Open(p)
    PROVE  IInv'
<1> USE DEF IInv, TypeOK, Open, PCs, Changing, Inspecting, InHome, InLock
<1>1. TypeOK'
  BY DEF Goto, disk, ghost
<1>2. LockHeld' /\ JobsFit'
  BY DEF LockHeld, JobsFit, Goto, disk, ghost
<1>3. CopyCurrent' /\ StagedChange' /\ Renamed'
  BY DEF CopyCurrent, StagedChange, Renamed, Goto, disk, ghost
<1>4. Durable' /\ Approved'
  BY DEF Durable, Approved, Goto, disk, ghost
<1>5. QED BY <1>1, <1>2, <1>3, <1>4

\* Allow hashes parseable content.
LEMMA BeginAllowStep ==
    ASSUME IInv, NEW p \in Procs, NEW d \in Dirs, BeginAllow(p, d)
    PROVE  IInv'
<1> USE DEF IInv, TypeOK, BeginAllow, PCs, Changing, Inspecting, InHome, InLock
<1>1. TypeOK'
  BY DEF Goto, disk, ghost, Parses, ComputeHash, Jobs, ChangeJobs, Hashes
<1>2. LockHeld' /\ JobsFit'
  BY DEF LockHeld, JobsFit, Goto, disk, ghost, Parses, ComputeHash, Jobs, ChangeJobs, Hashes
<1>3. CopyCurrent' /\ StagedChange' /\ Renamed'
  BY DEF CopyCurrent, StagedChange, Renamed, Goto, disk, ghost, Parses, ComputeHash, Jobs, ChangeJobs, Hashes
<1>4. Durable' /\ Approved'
  BY DEF Durable, Approved, Goto, disk, ghost, Parses, ComputeHash, Jobs, ChangeJobs, Hashes
<1>5. QED BY <1>1, <1>2, <1>3, <1>4

\* Deny reads nothing.
LEMMA BeginDenyStep ==
    ASSUME IInv, NEW p \in Procs, NEW d \in Dirs, BeginDeny(p, d)
    PROVE  IInv'
<1> USE DEF IInv, TypeOK, BeginDeny, PCs, Changing, Inspecting, InHome, InLock
<1>1. TypeOK'
  BY DEF Goto, disk, ghost, Jobs, ChangeJobs
<1>2. LockHeld'
  BY DEF LockHeld, Goto, disk, ghost, Jobs, ChangeJobs
<1>3. JobsFit'
  BY DEF JobsFit, Goto, disk, ghost, Jobs, ChangeJobs
<1>4. CopyCurrent' /\ StagedChange' /\ Renamed'
  BY DEF CopyCurrent, StagedChange, Renamed, Goto, disk, ghost, Jobs, ChangeJobs
<1>5. Durable' /\ Approved'
  BY DEF Durable, Approved, Goto, disk, ghost, Jobs, ChangeJobs
<1>6. QED BY <1>1, <1>2, <1>3, <1>4, <1>5

\* The directory is looked up ...
LEMMA StatHomeStep ==
    ASSUME IInv, NEW p \in Procs, StatHome(p)
    PROVE  IInv'
<1> USE DEF IInv, TypeOK, StatHome, PCs, Changing, Inspecting, InHome, InLock
<1>1. TypeOK'
  BY DEF Goto, disk, ghost
<1>2. LockHeld' /\ JobsFit'
  BY DEF LockHeld, JobsFit, Goto, disk, ghost
<1>3. CopyCurrent' /\ StagedChange' /\ Renamed'
  BY DEF CopyCurrent, StagedChange, Renamed, Goto, disk, ghost
<1>4. Durable' /\ Approved'
  BY DEF Durable, Approved, Goto, disk, ghost
<1>5. QED BY <1>1, <1>2, <1>3, <1>4

\* ... created if it is missing ...
LEMMA MkdirHomeStep ==
    ASSUME IInv, NEW p \in Procs, MkdirHome(p)
    PROVE  IInv'
<1> USE DEF IInv, TypeOK, MkdirHome, PCs, Changing, Inspecting, InHome, InLock
<1>1. TypeOK'
  BY DEF Goto, disk, ghost
<1>2. LockHeld' /\ JobsFit'
  BY DEF LockHeld, JobsFit, Goto, disk, ghost
<1>3. CopyCurrent' /\ StagedChange' /\ Renamed'
  BY DEF CopyCurrent, StagedChange, Renamed, Goto, disk, ghost
<1>4. Durable' /\ Approved'
  BY DEF Durable, Approved, Goto, disk, ghost
<1>5. QED BY <1>1, <1>2, <1>3, <1>4

\* ... and flushed by whoever found it missing.
LEMMA FlushHomeStep ==
    ASSUME IInv, NEW p \in Procs, FlushHome(p)
    PROVE  IInv'
<1> USE DEF IInv, TypeOK, FlushHome, PCs, Changing, Inspecting, InHome, InLock
<1>1. TypeOK'
  BY DEF Goto, disk, ghost, Flushes
<1>2. LockHeld' /\ JobsFit'
  BY DEF LockHeld, JobsFit, Goto, disk, ghost, Flushes
<1>3. CopyCurrent' /\ StagedChange' /\ Renamed'
  BY DEF CopyCurrent, StagedChange, Renamed, Goto, disk, ghost, Flushes
<1>4. Durable' /\ Approved'
  BY DEF Durable, Approved, Goto, disk, ghost, Flushes
<1>5. QED BY <1>1, <1>2, <1>3, <1>4

\* Nobody else is inside when the lock is free.
LEMMA LockStep ==
    ASSUME IInv, NEW p \in Procs, Lock(p)
    PROVE  IInv'
<1> USE DEF IInv, TypeOK, Lock, PCs, Changing, Inspecting, InHome, InLock
<1>1. TypeOK'
  BY NoProcAssumption DEF Goto, disk, ghost, MayLock
<1>2. LockHeld' /\ JobsFit'
  BY NoProcAssumption DEF LockHeld, JobsFit, Goto, disk, ghost, MayLock
<1>3. CopyCurrent' /\ StagedChange' /\ Renamed'
  BY NoProcAssumption DEF CopyCurrent, StagedChange, Renamed, Goto, disk, ghost, MayLock
<1>4. Durable' /\ Approved'
  BY NoProcAssumption DEF Durable, Approved, Goto, disk, ghost, MayLock
<1>5. QED BY <1>1, <1>2, <1>3, <1>4

\* The copy becomes the store.
LEMMA ReloadStep ==
    ASSUME IInv, NEW p \in Procs, Reload(p)
    PROVE  IInv'
<1> USE DEF IInv, TypeOK, Reload, PCs, Changing, Inspecting, InHome, InLock
<1>1. TypeOK'
  BY DEF Goto, disk, ghost, Reloaded
<1>2. LockHeld' /\ JobsFit'
  BY DEF LockHeld, JobsFit, Goto, disk, ghost, Reloaded
<1>3. CopyCurrent' /\ StagedChange' /\ Renamed'
  BY DEF CopyCurrent, StagedChange, Renamed, Goto, disk, ghost, Reloaded
<1>4. Durable' /\ Approved'
  BY DEF Durable, Approved, Goto, disk, ghost, Reloaded
<1>5. QED BY <1>1, <1>2, <1>3, <1>4

\* Staging wipes only temp files nobody will rename.
LEMMA StageStep ==
    ASSUME IInv, NEW p \in Procs, Stage(p)
    PROVE  IInv'
<1> USE DEF IInv, TypeOK, Stage, PCs, Changing, Inspecting, InHome, InLock
<1>1. TypeOK'
  <2>1. Changed(mem[p], job[p]) \in Records
    BY ChangedFacts DEF JobsFit
  <2>2. QED
    BY <2>1 DEF Goto, ghost, Cleared, Temps
<1>2. LockHeld' /\ JobsFit'
  BY DEF LockHeld, JobsFit, Goto, disk, ghost
<1>3. CopyCurrent' /\ Renamed'
  BY DEF CopyCurrent, Renamed, Goto, disk, ghost
<1>4. StagedChange'
  <2>1. \A q \in Procs \ {p} : pc[q] \notin {"sync", "rename"}
    BY DEF LockHeld
  <2>2. QED
    BY <2>1 DEF StagedChange, Goto, Cleared
<1>5. Durable'
  BY DEF Durable, Goto, disk, ghost
<1>6. Approved'
  BY DEF Approved, Goto, disk, ghost
<1>7. QED BY <1>1, <1>2, <1>3, <1>4, <1>5, <1>6

\* Flushing the temp file leaves its data.
LEMMA SyncTempStep ==
    ASSUME IInv, NEW p \in Procs, SyncTemp(p)
    PROVE  IInv'
<1> USE DEF IInv, TypeOK, SyncTemp, PCs, Changing, Inspecting, InHome, InLock
<1>1. TypeOK'
  <2>1. staged[p].data \in Records
    BY DEF Temps
  <2>2. QED
    BY <2>1 DEF Goto, ghost, Temps
<1>2. LockHeld' /\ JobsFit'
  BY DEF LockHeld, JobsFit, Goto, disk, ghost
<1>3. CopyCurrent' /\ Renamed'
  BY DEF CopyCurrent, Renamed, Goto, disk, ghost
<1>4. StagedChange'
  <2>1. staged'[p] = [data |-> Changed(mem[p], job[p]), synced |-> TRUE]
    <3>1. staged[p] = [data |-> Changed(mem[p], job[p]), synced |-> FALSE]
      BY DEF StagedChange
    <3>2. staged'[p] = [data |-> staged[p].data, synced |-> TRUE]
      OBVIOUS
    <3>3. QED BY <3>1, <3>2
  <2>2. \A q \in Procs \ {p} : staged'[q] = staged[q]
    OBVIOUS
  <2>3. QED
    BY <2>1, <2>2 DEF StagedChange, Goto
<1>5. Durable' /\ Approved'
  BY DEF Durable, Approved, Goto, disk, ghost
<1>6. QED BY <1>1, <1>2, <1>3, <1>4, <1>5

\* The commit point: one directory of the store changes, and the caller's
\* expectations of that directory widen by the same outcome.
LEMMA RenameStep ==
    ASSUME IInv, NEW p \in Procs, Rename(p)
    PROVE  IInv'
<1> USE DEF IInv, TypeOK, Rename, PCs, Changing, Inspecting, InHome, InLock
<1> DEFINE new == Changed(visible, job[p])
<1>1. job[p] \in ChangeJobs /\ job[p].dir \in Dirs /\ Outcome(job[p]) \in Outcomes
  BY ChangeJobFacts DEF JobsFit
<1>2. mem[p] = visible /\ staged[p] = [data |-> new, synced |-> TRUE]
  BY DEF CopyCurrent, StagedChange
<1>3. visible' = new /\ survivors' = survivors \union {new} /\ mem' = [mem EXCEPT ![p] = new]
  BY <1>2 DEF Leftovers
<1>4. new \in Records /\ new[job[p].dir] = Outcome(job[p])
      /\ \A d \in Dirs \ {job[p].dir} : new[d] = visible[d]
  BY <1>1, ChangedFacts
<1> HIDE DEF new
<1>5. \A q \in Procs \ {p} : pc[q] \notin InLock
  BY DEF LockHeld
<1>6. \A q \in Procs : pc[q] \in Inspecting => new[job[q].dir] \in Outcomes
  BY <1>4 DEF JobsFit, InspectJobs, Records
<1>7. promise' \in [Dirs -> SUBSET Outcomes] /\ approvals' \in [Procs -> SUBSET Outcomes]
  BY <1>1, <1>3, <1>6
<1>8. TypeOK'
  BY <1>3, <1>4, <1>7 DEF Goto, Stores, Temps
<1>9. LockHeld' /\ JobsFit'
  BY DEF LockHeld, JobsFit, Goto
<1>10. CopyCurrent' /\ StagedChange'
  BY <1>5 DEF CopyCurrent, StagedChange, Goto
<1>11. Renamed'
  BY <1>3, <1>4, <1>5 DEF Renamed, Goto
<1>12. Durable'
  <2>1. \A d \in Dirs : promise[d] \subseteq promise'[d]
    OBVIOUS
  <2>2. InitialHome = "kept" => \A d \in Dirs : new[d] \in promise'[d]
    BY <1>1, <1>4 DEF Durable
  <2>3. QED
    BY <1>3, <1>4, <2>1, <2>2 DEF Durable
<1>13. Approved'
  BY <1>3 DEF Approved, Goto
<1>14. QED BY <1>8, <1>9, <1>10, <1>11, <1>12, <1>13

\* Once the directory is flushed nothing but the visible store can survive.
LEMMA FlushDirStep ==
    ASSUME IInv, NEW p \in Procs, FlushDir(p)
    PROVE  IInv'
<1> USE DEF IInv, TypeOK, FlushDir, PCs, Changing, Inspecting, InHome, InLock
<1>1. job[p].dir \in Dirs /\ Outcome(job[p]) \in Outcomes
  BY ChangeJobFacts DEF JobsFit
<1>2. visible[job[p].dir] = Outcome(job[p])
  BY DEF Renamed
<1>3. survivors' = {visible}
  BY RecordAssumption DEF Durable, Flushed
<1>4. promise' \in [Dirs -> SUBSET Outcomes]
  BY <1>1
<1>5. TypeOK'
  BY <1>3, <1>4 DEF Goto, Stores
<1>6. LockHeld' /\ JobsFit'
  BY DEF LockHeld, JobsFit, Goto
<1>7. CopyCurrent' /\ StagedChange' /\ Renamed'
  BY DEF CopyCurrent, StagedChange, Renamed, Goto
<1>8. Durable'
  BY <1>1, <1>2, <1>3 DEF Durable
<1>9. Approved'
  BY DEF Approved, Goto
<1>10. QED BY <1>5, <1>6, <1>7, <1>8, <1>9

\* A successful command ends.
LEMMA UnlockStep ==
    ASSUME IInv, NEW p \in Procs, Unlock(p)
    PROVE  IInv'
<1> USE DEF Unlock
<1>1. staged' \in [Procs -> Temps] /\ \A q \in Procs \ {p} : staged'[q] = staged[q]
  BY DEF IInv, TypeOK, disk
<1>2. Durable'
  BY DEF IInv, Durable, disk
<1>3. QED
  BY <1>1, <1>2, ExitFacts DEF IInv, TypeOK, disk

\* A failed one removes at most its own temp file.
LEMMA FailStep ==
    ASSUME IInv, NEW p \in Procs, Fail(p)
    PROVE  IInv'
<1> USE DEF Fail
<1>1. staged' \in [Procs -> Temps] /\ \A q \in Procs \ {p} : staged'[q] = staged[q]
  BY DEF IInv, TypeOK, Temps
<1>2. Durable'
  BY DEF IInv, Durable, disk
<1>3. QED
  BY <1>1, <1>2, ExitFacts DEF IInv, TypeOK, disk

\* A killed one removes nothing.
LEMMA CrashStep ==
    ASSUME IInv, NEW p \in Procs, Crash(p)
    PROVE  IInv'
<1> USE DEF Crash
<1>1. staged' \in [Procs -> Temps] /\ \A q \in Procs \ {p} : staged'[q] = staged[q]
  BY DEF IInv, TypeOK, disk
<1>2. Durable'
  BY DEF IInv, Durable, disk
<1>3. QED
  BY <1>1, <1>2, ExitFacts DEF IInv, TypeOK, disk

\* An exit that never held the lock releases nothing.
LEMMA IdleExit ==
    ASSUME IInv, NEW p \in Procs, pc[p] \in Inspecting, Exit(p), UNCHANGED <<cronrc, disk, lock, promise>>
    PROVE  IInv'
<1>1. lock' = Released(p)
  BY NoProcAssumption DEF IInv, LockHeld, Released, Inspecting, InLock
<1>2. Durable' /\ visible' = visible /\ staged' = staged
  BY DEF IInv, Durable, disk
<1>3. QED
  BY <1>1, <1>2, ExitFacts DEF IInv, TypeOK, disk

\* A task that ends.
LEMMA FinishStep ==
    ASSUME IInv, NEW p \in Procs, Finish(p)
    PROVE  IInv'
BY IdleExit DEF Finish, Inspecting

\* The verdict "allowed" means the snapshot's hash is the record, and the
\* record is what the directory holds at this moment.
LEMMA LoadStep ==
    ASSUME IInv, NEW p \in Procs, Load(p)
    PROVE  IInv'
<1>1. CASE Exit(p)
  BY <1>1, IdleExit DEF Load, Inspecting
<1>2. CASE ~Exit(p)
  <2> USE <1>2 DEF IInv, TypeOK, Load, PCs, Changing, Inspecting, InHome, InLock
  <2>1. Classify(snap[p], visible[job[p].dir]) = "allowed"
    BY DEF Reloaded
  <2>2. snap[p] \in [text : Contents] /\ ComputeHash(snap[p]) = visible[job[p].dir]
    BY <2>1 DEF Classify, CronrcStates
  <2>3. TypeOK'
    BY DEF Goto, disk, Reloaded
  <2>4. LockHeld' /\ JobsFit'
    BY DEF LockHeld, JobsFit, Goto
  <2>5. CopyCurrent' /\ StagedChange' /\ Renamed'
    BY DEF CopyCurrent, StagedChange, Renamed, Goto, disk
  <2>6. Durable'
    BY DEF Durable, disk
  <2>7. Approved'
    BY <2>2 DEF Approved, Goto, disk
  <2>8. QED BY <2>3, <2>4, <2>5, <2>6, <2>7
<1>3. QED BY <1>1, <1>2

\* prepare keeps the snapshot that was checked.
LEMMA PrepareStep ==
    ASSUME IInv, NEW p \in Procs, Prepare(p)
    PROVE  IInv'
<1> USE DEF IInv, TypeOK, Prepare, PCs, Changing, Inspecting, InHome, InLock
<1>1. TypeOK'
  BY DEF Goto, disk, ghost, Parses, Checked
<1>2. LockHeld' /\ JobsFit'
  BY DEF LockHeld, JobsFit, Goto, disk, ghost, Parses, Checked
<1>3. CopyCurrent' /\ StagedChange' /\ Renamed'
  BY DEF CopyCurrent, StagedChange, Renamed, Goto, disk, ghost, Parses, Checked
<1>4. Durable' /\ Approved'
  BY DEF Durable, Approved, Goto, disk, ghost, Parses, Checked
<1>5. QED BY <1>1, <1>2, <1>3, <1>4

\* An inspection expects what its directory holds when it starts.
LEMMA BeginInspectStep ==
    ASSUME IInv, NEW p \in Procs, NEW d \in Dirs, BeginInspect(p, d)
    PROVE  IInv'
<1> USE DEF IInv, TypeOK, BeginInspect, PCs, Changing, Inspecting, InHome, InLock
<1>1. TypeOK'
  BY DEF Goto, disk, ghost, Jobs, InspectJobs, Records
<1>2. LockHeld' /\ JobsFit'
  BY DEF LockHeld, JobsFit, Goto, disk, ghost, Jobs, InspectJobs, Records
<1>3. CopyCurrent' /\ StagedChange' /\ Renamed'
  BY DEF CopyCurrent, StagedChange, Renamed, Goto, disk, ghost, Jobs, InspectJobs, Records
<1>4. Durable' /\ Approved'
  BY DEF Durable, Approved, Goto, disk, ghost, Jobs, InspectJobs, Records
<1>5. QED BY <1>1, <1>2, <1>3, <1>4

\* An editor reaches neither the store nor any snapshot.
LEMMA EditCronrcStep ==
    ASSUME IInv, NEW d \in Dirs, EditCronrc(d)
    PROVE  IInv'
<1> USE DEF IInv, TypeOK, EditCronrc, PCs, Changing, Inspecting, InHome, InLock
<1>1. TypeOK'
  BY DEF Goto, disk, ghost, local
<1>2. LockHeld' /\ JobsFit'
  BY DEF LockHeld, JobsFit, Goto, disk, ghost, local
<1>3. CopyCurrent' /\ StagedChange' /\ Renamed'
  BY DEF CopyCurrent, StagedChange, Renamed, Goto, disk, ghost, local
<1>4. Durable' /\ Approved'
  BY DEF Durable, Approved, Goto, disk, ghost, local
<1>5. QED BY <1>1, <1>2, <1>3, <1>4

\* A reboot finds one of the stores that could survive, and no process.
LEMMA PowerLossStep ==
    ASSUME IInv, PowerLoss
    PROVE  IInv'
<1> USE DEF IInv, TypeOK, PowerLoss
<1>1. survivors' = {visible'} /\ home' \in {"missing", "kept"}
  OBVIOUS
<1>2. visible' \in Records
  BY Blank DEF Durable
<1>3. staged' \in [Procs -> Temps]
  BY DEF Cleared, Temps, Durable
<1>4. TypeOK'
  BY <1>1, <1>2, <1>3, Blank DEF Stores, PCs
<1>5. LockHeld'
  BY NoProcAssumption DEF LockHeld, InLock
<1>6. JobsFit' /\ CopyCurrent' /\ StagedChange' /\ Renamed' /\ Approved'
  BY DEF JobsFit, CopyCurrent, StagedChange, Renamed, Approved, Changing, Inspecting, InHome, InLock
<1>7. Durable'
  <2>1. ASSUME InitialHome = "kept"
        PROVE  home' = "kept" /\ \A d \in Dirs : visible'[d] \in promise[d]
    BY <2>1 DEF Durable
  <2>2. QED BY <1>1, <1>2, <2>1 DEF Durable
<1>8. QED BY <1>4, <1>5, <1>6, <1>7

\* A durable state directory is not there to be created by anybody else.
LEMMA OtherMkdirStep ==
    ASSUME IInv, OtherMkdir
    PROVE  IInv'
<1> USE DEF IInv, OtherMkdir
<1>1. TypeOK' /\ LockHeld' /\ JobsFit' /\ Approved'
  BY DEF TypeOK, LockHeld, JobsFit, Approved, local, ghost
<1>2. CopyCurrent' /\ StagedChange' /\ Renamed' /\ Durable'
  BY DEF CopyCurrent, StagedChange, Renamed, Durable, local, ghost
<1>3. QED BY <1>1, <1>2

\* The invariant holds at the start, ...
LEMMA InitIInv ==
    ASSUME Init
    PROVE  IInv
<1> USE HomeAssumption DEF Init
<1>1. TypeOK
  BY Blank DEF TypeOK, Stores, Temps, PCs, Outcomes
<1>2. LockHeld
  BY NoProcAssumption DEF LockHeld, InLock
<1>3. Durable
  BY Blank DEF Durable, Empty
<1>4. JobsFit /\ CopyCurrent /\ StagedChange /\ Renamed /\ Approved
  BY DEF JobsFit, CopyCurrent, StagedChange, Renamed, Approved, Changing, Inspecting, InHome, InLock
<1>5. QED BY <1>1, <1>2, <1>3, <1>4 DEF IInv

\* ... when nothing changes ...
LEMMA StutterIInv ==
    ASSUME IInv, UNCHANGED vars
    PROVE  IInv'
BY DEF IInv, vars, disk, local, ghost, TypeOK, LockHeld, JobsFit, CopyCurrent, StagedChange,
       Renamed, Durable, Approved

\* ... and after every step.
LEMMA NextIInv ==
    ASSUME IInv, [Next]_vars
    PROVE  IInv'
<1>1. ASSUME NEW p \in Procs, Begin(p) PROVE IInv'
  BY <1>1, OpenStep, BeginAllowStep, BeginDenyStep, BeginInspectStep DEF Begin
<1>2. ASSUME NEW p \in Procs, ChangeStep(p) PROVE IInv'
  BY <1>2, StatHomeStep, MkdirHomeStep, FlushHomeStep, ReloadStep, StageStep, SyncTempStep,
     RenameStep, FlushDirStep, UnlockStep DEF ChangeStep, HomeStep, SaveStep
<1>3. ASSUME NEW p \in Procs, Execute(p) PROVE IInv'
  BY <1>3, LoadStep, PrepareStep, FinishStep DEF Execute
<1>4. ASSUME NEW p \in Procs, Lock(p) \/ Fail(p) \/ Crash(p) PROVE IInv'
  BY <1>4, LockStep, FailStep, CrashStep
<1>5. ASSUME NEW d \in Dirs, EditCronrc(d) PROVE IInv'
  BY <1>5, EditCronrcStep
<1>6. QED
  BY <1>1, <1>2, <1>3, <1>4, <1>5, OtherMkdirStep, PowerLossStep, StutterIInv DEF Next

-----------------------------------------------------------------------------
(* Theorems *)

\* The invariant holds in every reachable state.
THEOREM Invariance == Spec => []IInv
<1>1. Init => IInv
  BY InitIInv
<1>2. IInv /\ [Next]_vars => IInv'
  BY NextIInv
<1>3. QED BY <1>1, <1>2, PTL DEF Spec

\* allowed.json always unmarshals and every variable has its type.
THEOREM TypeCorrect == Spec => []TypeOK
BY Invariance, PTL DEF IInv

\* A successful allow or deny survives crashes, power losses and every
\* concurrent change of other directories.
THEOREM PromisesAreKept ==
    ASSUME InitialHome = "kept"
    PROVE  Spec => []PromisesKept
<1>1. IInv => PromisesKept
  BY DEF IInv, TypeOK, Durable, PromisesKept, Possible
<1>2. QED BY <1>1, Invariance, PTL

\* No writer's clean-up removes a file another writer is about to rename, and
\* no writer renames over a change it has not read.
THEOREM RenamesCommitOneChange == Spec => []RenameCommitsOneChange
<1>1. IInv => RenameCommitsOneChange
  BY DEF IInv, CopyCurrent, StagedChange, RenameCommitsOneChange
<1>2. QED BY <1>1, Invariance, PTL

\* Whatever is edited, denied or re-allowed around an inspection, a task runs
\* only bytes that were approved while it was being inspected.
THEOREM OnlyApprovedRuns == Spec => []RunsOnlyApproved
<1>1. IInv => RunsOnlyApproved
  BY DEF IInv, Approved, RunsOnlyApproved
<1>2. QED BY <1>1, Invariance, PTL

\* Every step of the store is a step of Authorizations or changes neither the
\* visible store nor what a caller may expect of it.
LEMMA StepRefines ==
    ASSUME InitialHome = "kept", IInv, IInv', [Next]_vars
    PROVE  [Abstract!Next]_(Abstract!vars)
<1> USE DEF Abstract!vars
<1>1. ASSUME NEW p \in Procs, Rename(p) PROVE Abstract!Next
  <2>1. job[p].dir \in Dirs /\ Outcome(job[p]) \in Outcomes
    BY ChangeJobFacts, <1>1 DEF IInv, JobsFit, Rename, Changing, InLock
  <2>2. visible' = [visible EXCEPT ![job[p].dir] = Outcome(job[p])]
    <3>1. staged[p] = [data |-> Changed(visible, job[p]), synced |-> TRUE]
      BY <1>1 DEF IInv, CopyCurrent, StagedChange, Rename
    <3>2. QED BY <1>1, <3>1 DEF Rename, Changed
  <2>3. Abstract!Change(job[p].dir, Outcome(job[p]))
    BY <1>1, <2>2 DEF Rename, Abstract!Change
  <2>4. QED BY <2>1, <2>3 DEF Abstract!Next
<1>2. ASSUME NEW p \in Procs, FlushDir(p) PROVE Abstract!Next
  <2>1. job[p].dir \in Dirs
    BY ChangeJobFacts, <1>2 DEF IInv, JobsFit, FlushDir, Changing, InLock
  <2>2. Abstract!Settle(job[p].dir)
    BY <1>2 DEF IInv, Renamed, FlushDir, Abstract!Settle
  <2>3. QED BY <2>1, <2>2 DEF Abstract!Next
<1>3. ASSUME PowerLoss PROVE Abstract!Next
  <2>1. visible' \in Records /\ \A d \in Dirs : visible'[d] \in promise[d]
    BY <1>3 DEF IInv, TypeOK, Durable, PowerLoss
  <2>2. QED BY <1>3, <2>1 DEF PowerLoss, Records, Abstract!Lose, Abstract!Next
<1>4. ASSUME NEW p \in Procs, Begin(p) PROVE UNCHANGED <<visible, promise>>
  BY <1>4 DEF Begin, Open, BeginAllow, BeginDeny, BeginInspect, disk, ghost
<1>5. ASSUME NEW p \in Procs, HomeStep(p) \/ Lock(p) \/ Reload(p) \/ Stage(p) \/ SyncTemp(p) \/ Unlock(p)
      PROVE  UNCHANGED <<visible, promise>>
  BY <1>5 DEF HomeStep, StatHome, MkdirHome, FlushHome, Lock, Reload, Stage, SyncTemp, Unlock, disk, ghost
<1>6. ASSUME NEW p \in Procs, Execute(p) \/ Fail(p) \/ Crash(p) PROVE UNCHANGED <<visible, promise>>
  BY <1>6 DEF Execute, Load, Prepare, Finish, Fail, Crash, disk, ghost
<1>7. ASSUME OtherMkdir \/ (\E d \in Dirs : EditCronrc(d)) \/ UNCHANGED vars
      PROVE  UNCHANGED <<visible, promise>>
  BY <1>7 DEF OtherMkdir, EditCronrc, vars, disk, ghost
<1>8. QED
  BY <1>1, <1>2, <1>3, <1>4, <1>5, <1>6, <1>7 DEF Next, ChangeStep, SaveStep

\* The store implements its promise: each change alters one directory, becomes
\* settled before success is reported, and only unsettled changes can be lost.
THEOREM StoreImplementsAuthorizations ==
    ASSUME InitialHome = "kept"
    PROVE  Spec => ImplementsAuthorizations
<1>1. Init => Abstract!Init
  BY Blank DEF Init, Records, Empty, Abstract!Init
<1>2. IInv /\ IInv' /\ [Next]_vars => [Abstract!Next]_(Abstract!vars)
  BY StepRefines
<1>3. QED BY <1>1, <1>2, Invariance, PTL DEF Spec, Abstract!Spec, ImplementsAuthorizations
-----------------------------------------------------------------------------
(* Invariants beside the inductive one *)

\* Temp files do not pile up: whoever stages one first removes all others.
THEOREM StagedFilesDoNotPileUp == Spec => []OneStagedFile
<1> USE DEF OneStagedFile
<1>1. Init => OneStagedFile
  BY DEF Init
<1>2. ASSUME IInv, OneStagedFile, [Next]_vars PROVE OneStagedFile'
  <2> USE <1>2 DEF IInv, TypeOK
  <2>1. ASSUME NEW p \in Procs, Stage(p) PROVE OneStagedFile'
    <3>1. \A q \in Procs \ {p} : staged'[q] = NoFile
      BY <2>1 DEF Stage, Cleared
    <3>2. QED BY <3>1
  <2>2. ASSUME NEW p \in Procs, SyncTemp(p) \/ Rename(p) \/ Fail(p) PROVE OneStagedFile'
    <3>1. \A q \in Procs : staged'[q] # NoFile => staged[q] # NoFile
      BY <2>2 DEF SyncTemp, Rename, Fail
    <3>2. QED BY <3>1
  <2>3. ASSUME PowerLoss PROVE OneStagedFile'
    <3>1. staged' \in {staged, Cleared}
      BY <2>3 DEF PowerLoss
    <3>2. QED BY <3>1 DEF Cleared
  <2>4. ASSUME NEW p \in Procs,
               Begin(p) \/ HomeStep(p) \/ Lock(p) \/ Reload(p) \/ FlushDir(p) \/ Unlock(p)
        PROVE  staged' = staged
    BY <2>4 DEF Begin, Open, BeginAllow, BeginDeny, BeginInspect, HomeStep, StatHome, MkdirHome,
                FlushHome, Lock, Reload, FlushDir, Unlock, disk
  <2>5. ASSUME NEW p \in Procs, Execute(p) \/ Crash(p) PROVE staged' = staged
    BY <2>5 DEF Execute, Load, Prepare, Finish, Crash, disk
  <2>6. ASSUME OtherMkdir \/ (\E d \in Dirs : EditCronrc(d)) \/ UNCHANGED vars PROVE staged' = staged
    BY <2>6 DEF OtherMkdir, EditCronrc, vars, disk
  <2>7. QED
    BY <2>1, <2>2, <2>3, <2>4, <2>5, <2>6 DEF Next, ChangeStep, SaveStep
<1>3. QED BY <1>1, <1>2, Invariance, PTL DEF Spec

\* Nobody who found the state directory missing reaches the store before the
\* directory's entry is durable.
THEOREM CreatorIsDurable == Spec => []CreatorFlushesHome
<1> USE DEF CreatorFlushesHome, InLock
<1>1. Init => CreatorFlushesHome
  BY DEF Init
<1>2. ASSUME IInv, CreatorFlushesHome, [Next]_vars PROVE CreatorFlushesHome'
  <2> USE <1>2 DEF IInv, TypeOK, Goto
  <2>1. ASSUME NEW p \in Procs, Begin(p) PROVE CreatorFlushesHome'
    <3>1. home' = home /\ saw' = saw /\ \E l \in {"ready", "stat", "load"} : pc' = [pc EXCEPT ![p] = l]
      BY <2>1 DEF Begin, Open, BeginAllow, BeginDeny, BeginInspect, disk
    <3>2. QED BY <3>1
  <2>2. ASSUME NEW p \in Procs, StatHome(p) \/ MkdirHome(p) PROVE CreatorFlushesHome'
    BY <2>2 DEF StatHome, MkdirHome, disk
  <2>3. ASSUME NEW p \in Procs, FlushHome(p) PROVE CreatorFlushesHome'
    BY <2>3 DEF FlushHome, Flushes
  <2>4. ASSUME NEW p \in Procs, Lock(p) \/ Reload(p) \/ SaveStep(p) PROVE CreatorFlushesHome'
    <3>1. home' = home /\ saw' = saw /\ pc[p] \in {"lock"} \union InLock
          /\ \E l \in InLock : pc' = [pc EXCEPT ![p] = l]
      BY <2>4 DEF Lock, Reload, SaveStep, Stage, SyncTemp, Rename, FlushDir, disk
    <3>2. QED BY <3>1
  <2>5. ASSUME NEW p \in Procs, Unlock(p) \/ Fail(p) \/ Crash(p) \/ Finish(p) PROVE CreatorFlushesHome'
    <3>1. home' = home /\ Exit(p)
      BY <2>5 DEF Unlock, Fail, Crash, Finish, disk
    <3>2. QED BY <3>1 DEF Exit
  <2>6. ASSUME NEW p \in Procs, Load(p) \/ Prepare(p) PROVE CreatorFlushesHome'
    <3>1. home' = home /\ (Exit(p) \/ (saw' = saw /\ \E l \in {"prepare", "running"} : pc' = [pc EXCEPT ![p] = l]))
      BY <2>6 DEF Load, Prepare, disk
    <3>2. QED BY <3>1 DEF Exit
  <2>7. ASSUME OtherMkdir \/ (\E d \in Dirs : EditCronrc(d)) \/ UNCHANGED vars PROVE CreatorFlushesHome'
    BY <2>7 DEF OtherMkdir, EditCronrc, vars, disk, local
  <2>8. ASSUME PowerLoss PROVE CreatorFlushesHome'
    BY <2>8 DEF PowerLoss
  <2>9. QED
    BY <2>1, <2>2, <2>3, <2>4, <2>5, <2>6, <2>7, <2>8 DEF Next, ChangeStep, HomeStep, Execute
<1>3. QED BY <1>1, <1>2, Invariance, PTL DEF Spec

\* What allow hashed before it took the lock was parseable then.
JobsParse ==
    \A p \in Procs : job[p] \in ChangeJobs /\ job[p].op = "allow" =>
        \E c \in Contents \ Invalid : job[p].hash = ComputeHash([text |-> c])

Parseable(r) ==
    \A d \in Dirs : r[d] # NoRecord => \E c \in Contents \ Invalid : r[d] = ComputeHash([text |-> c])

StoresParse == Parseable(visible) /\ \A s \in survivors : Parseable(s)

\* An allow keeps parseable records parseable.
LEMMA ChangedParses ==
    ASSUME NEW r \in Records, NEW j \in ChangeJobs, Parseable(r),
           j.op = "allow" => \E c \in Contents \ Invalid : j.hash = ComputeHash([text |-> c])
    PROVE  Parseable(Changed(r, j))
<1>1. Outcome(j) # NoRecord => \E c \in Contents \ Invalid : Outcome(j) = ComputeHash([text |-> c])
  BY DEF Outcome
<1>2. QED BY <1>1, ChangedFacts DEF Parseable

\* Only allow makes a job that names a hash.
LEMMA JobsParseStep ==
    ASSUME IInv, JobsParse, [Next]_vars
    PROVE  JobsParse'
<1> USE DEF IInv, TypeOK, JobsParse
<1> DEFINE GoesOn(p) == job'[p] = job[p] \/ job'[p].op # "allow"
<1>1. ASSUME NEW p \in Procs, NEW d \in Dirs, BeginAllow(p, d) PROVE JobsParse'
  <2>1. PICK c \in Contents \ Invalid : cronrc[d] = [text |-> c]
    BY <1>1 DEF BeginAllow, Parses
  <2>2. job' = [job EXCEPT ![p] = [op |-> "allow", dir |-> d, hash |-> ComputeHash([text |-> c])]]
    BY <1>1, <2>1 DEF BeginAllow
  <2>3. QED BY <2>2
<1>2. ASSUME NEW p \in Procs, Open(p) \/ (\E d \in Dirs : BeginDeny(p, d) \/ BeginInspect(p, d))
      PROVE  \A q \in Procs : GoesOn(q)
  BY <1>2 DEF Open, BeginDeny, BeginInspect
<1>3. ASSUME NEW p \in Procs, HomeStep(p) \/ Lock(p) \/ Reload(p) \/ SaveStep(p) \/ Prepare(p)
      PROVE  job' = job
  BY <1>3 DEF HomeStep, StatHome, MkdirHome, FlushHome, Lock, Reload, SaveStep, Stage, SyncTemp,
              Rename, FlushDir, Prepare
<1>4. ASSUME NEW p \in Procs, Load(p) \/ Finish(p) \/ Unlock(p) \/ Fail(p) \/ Crash(p)
      PROVE  \A q \in Procs : GoesOn(q)
  <2>1. Exit(p) \/ job' = job
    BY <1>4 DEF Load, Finish, Unlock, Fail, Crash
  <2>2. QED BY <2>1 DEF Exit, NoJob
<1>5. ASSUME OtherMkdir \/ (\E d \in Dirs : EditCronrc(d)) \/ UNCHANGED vars PROVE job' = job
  BY <1>5 DEF OtherMkdir, EditCronrc, vars, local
<1>6. ASSUME PowerLoss PROVE \A q \in Procs : GoesOn(q)
  BY <1>6 DEF PowerLoss, NoJob
<1>7. (\A q \in Procs : GoesOn(q)) => JobsParse'
  OBVIOUS
<1>8. job' = job => JobsParse'
  OBVIOUS
<1> HIDE DEF JobsParse, GoesOn
<1>9. QED
  BY <1>1, <1>2, <1>3, <1>4, <1>5, <1>6, <1>7, <1>8 DEF Next, Begin, ChangeStep, Execute

\* A power loss, too, leaves only stores that are parseable already.
LEMMA StoresParseStep ==
    ASSUME IInv, JobsParse, StoresParse, [Next]_vars
    PROVE  StoresParse'
<1> USE DEF IInv, TypeOK
<1>1. ASSUME NEW p \in Procs, Rename(p) PROVE StoresParse'
  <2> DEFINE new == Changed(visible, job[p])
  <2>1. job[p] \in ChangeJobs
    BY <1>1 DEF JobsFit, Rename, Changing, InLock
  <2>2. staged[p] = [data |-> new, synced |-> TRUE]
    BY <1>1 DEF CopyCurrent, StagedChange, Rename
  <2>3. visible' = new /\ survivors' = survivors \union {new}
    BY <1>1, <2>2 DEF Rename, Leftovers
  <2>4. Parseable(new)
    BY <2>1, ChangedParses DEF JobsParse, StoresParse
  <2> HIDE DEF new
  <2>5. QED BY <2>3, <2>4 DEF StoresParse, Parseable
<1>2. ASSUME NEW p \in Procs, FlushDir(p) PROVE StoresParse'
  BY <1>2 DEF FlushDir, Flushed, StoresParse, Parseable
<1>3. ASSUME PowerLoss PROVE StoresParse'
  <2>1. visible' \in survivors \union {Empty} /\ survivors' = {visible'}
    BY <1>3 DEF PowerLoss
  <2>2. Parseable(Empty)
    BY DEF Parseable, Empty
  <2>3. Parseable(visible')
    BY <2>1, <2>2 DEF StoresParse
  <2>4. QED BY <2>1, <2>3 DEF StoresParse, Parseable
<1>4. ASSUME NEW p \in Procs,
             Begin(p) \/ HomeStep(p) \/ Lock(p) \/ Reload(p) \/ Stage(p) \/ SyncTemp(p) \/ Unlock(p)
      PROVE  UNCHANGED <<visible, survivors>>
  BY <1>4 DEF Begin, Open, BeginAllow, BeginDeny, BeginInspect, HomeStep, StatHome, MkdirHome,
              FlushHome, Lock, Reload, Stage, SyncTemp, Unlock, disk
<1>5. ASSUME NEW p \in Procs, Execute(p) \/ Fail(p) \/ Crash(p) PROVE UNCHANGED <<visible, survivors>>
  BY <1>5 DEF Execute, Load, Prepare, Finish, Fail, Crash, disk
<1>6. ASSUME OtherMkdir \/ (\E d \in Dirs : EditCronrc(d)) \/ UNCHANGED vars
      PROVE  UNCHANGED <<visible, survivors>>
  BY <1>6 DEF OtherMkdir, EditCronrc, vars, disk
<1>7. UNCHANGED <<visible, survivors>> => StoresParse'
  BY DEF StoresParse, Parseable
<1>8. QED
  BY <1>1, <1>2, <1>3, <1>4, <1>5, <1>6, <1>7 DEF Next, ChangeStep, SaveStep

\* An approval names content cron-person can parse, whatever happens to the
\* file between its snapshot and the save, and whatever a power loss brings back.
THEOREM OnlyParseableApproved == Spec => []ApprovedParses
<1>1. Init => JobsParse /\ StoresParse
  BY DEF Init, JobsParse, ChangeJobs, NoJob, StoresParse, Parseable, Empty
<1>2. IInv /\ JobsParse /\ StoresParse /\ [Next]_vars => (JobsParse /\ StoresParse)'
  BY JobsParseStep, StoresParseStep
<1>3. StoresParse => ApprovedParses
  BY DEF StoresParse, Parseable, ApprovedParses
<1>4. QED BY <1>1, <1>2, <1>3, Invariance, PTL DEF Spec

=============================================================================
