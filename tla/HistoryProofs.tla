----------------------------- MODULE HistoryProofs -----------------------------
(***************************************************************************)
(* For any finite set of runs and tasks: type correctness and              *)
(* CreatingRunsKept; LatestDirKept, as long as no file operation fails;    *)
(* and, without a size limit, LiveRunsKept and OnlyExpiredPruned, which    *)
(* the size limit breaks (history_live_pruned.cfg).                        *)
(*                                                                         *)
(* What a pruner may still remove was superseded by a newer run when it    *)
(* scanned and always will be (Superseding).  It was not being created     *)
(* when its metadata was looked for (Candidates), since creating takes     *)
(* less than the grace period (Young).  And if it is old enough to have    *)
(* expired, a free lock meant that its recorder was gone for good          *)
(* (Settled): a recorder holds its lock from before the metadata is        *)
(* written until after the outcome is (Locked).                            *)
(***************************************************************************)
EXTENDS History, TLAPS

Live    == {"publish", "running", "close"}     \* the recorder holds its lock
Probing == {"probe", "unprobe", "creating"}
Before  == {"new"} \union Starting \union Creating \union Recording

Superseded(c) == \E s \in made : TaskOf[s] = TaskOf[c] /\ s > c

Made ==
    \A r \in Runs :
        /\ dir[r] => r \in made
        /\ r \in made => pc[r] \notin {"new"} \union Starting
        /\ pc[r] \in Creating => dir[r] /\ meta[r] = "none"
        /\ pc[r] \in {"trylock", "publish"} => lockfile[r]
        /\ pc[r] = "running" /\ dir[r] => lockfile[r]

Young == \A r \in Runs : pc[r] \in Starting \union Creating => clock - started[r] < Grace

\* What pruner r knows of the runs it has still to measure or may remove.
Informed(r) ==
    /\ prune[r].now <= clock /\ prune[r].todo \subseteq made /\ prune[r].cands \subseteq made
    /\ \A c \in prune[r].todo \ prune[r].newest : Superseded(c)
    /\ \A c \in prune[r].cands : Superseded(c)
    /\ pc[r] \in Probing => prune[r].at \in made /\ Superseded(prune[r].at)

Superseding ==
    /\ \A r \in Runs : Informed(r)
    /\ \A c \in Runs : owner[c] \notin {NoOwner, c} => Superseded(c)

Candidates == \A r \in Runs : \A c \in prune[r].cands : pc[c] \notin Creating

Old(r, c) == MaxAge > 0 /\ prune[r].now - started[c] > MaxAge

Settled ==
    \A r \in Runs :
        /\ \A c \in prune[r].cands : Old(r, c) => pc[c] \notin Before
        /\ pc[r] \in {"unprobe", "creating"} /\ Old(r, prune[r].at) => pc[prune[r].at] \notin Before

Locked ==
    \A c \in Runs :
        /\ owner[c] = c => pc[c] \in Live \/ (pc[c] = "unprobe" /\ prune[c].at = c)
        /\ MaxSize = 0 /\ pc[c] \in Live => dir[c] /\ lockfile[c] /\ owner[c] = c

IInv == TypeOK /\ Made /\ Young /\ Superseding /\ Candidates /\ Locked /\ (MaxSize = 0 => Settled)

Latest == \A r \in made : dir[r] \/ Superseded(r)

-----------------------------------------------------------------------------

\* The invariant holds at the start ...
LEMMA InitInvariant == Init => IInv
<1> SUFFICES ASSUME Init PROVE IInv
  OBVIOUS
<1> USE RunsAssumption, OwnerAssumption, LimitAssumption DEF Init, Idle
<1>1. TypeOK
  BY DEF TypeOK, PCs
<1>2. Made /\ Young /\ Superseding /\ Candidates /\ Locked /\ Settled
  BY DEF Made, Young, Superseding, Informed, Candidates, Locked, Settled, Starting, Creating, Probing, Live, Superseded
<1>3. QED BY <1>1, <1>2 DEF IInv

\* The program counters by phase.
LEMMA Labels ==
    /\ {"new", "failed", "dead", "done"} \subseteq PCs
    /\ Starting \subseteq PCs /\ Creating \subseteq PCs /\ Recording \subseteq PCs /\ Pruning \subseteq PCs
    /\ Starting = {"mktask", "taskinfo", "mkdir"}
    /\ Creating = {"lockfile", "trylock", "publish"}
    /\ Recording = {"running", "close"}
    /\ Pruning = {"scan", "measure", "probe", "unprobe", "creating", "remove"}
BY DEF PCs, Starting, Creating, Recording, Pruning

\* The steps of a start keep the types, ...
LEMMA StartTypes ==
    ASSUME TypeOK, NEW r \in Runs, Start(r) PROVE TypeOK'
<1> USE TaskAssumption, Labels DEF run, hist, Goto, TypeOK
<1>1. CASE Begin(r)
  BY <1>1 DEF Begin
<1>2. CASE MakeTaskDir(r)
  BY <1>2 DEF MakeTaskDir
<1>3. CASE WriteTaskInfo(r)
  BY <1>3 DEF WriteTaskInfo
<1>4. CASE MakeRunDir(r)
  BY <1>4 DEF MakeRunDir
<1>5. QED BY <1>1, <1>2, <1>3, <1>4 DEF Start

\* ... so do those of opening and finishing, ...
LEMMA OpenTypes ==
    ASSUME TypeOK, Made, NEW r \in Runs, Open(r) \/ Finish(r) PROVE TypeOK'
<1> USE OwnerAssumption, Labels DEF run, hist, Goto, TypeOK
<1>1. CASE CreateLock(r)
  BY <1>1 DEF CreateLock
<1>2. CASE TakeLock(r)
  BY <1>2 DEF TakeLock
<1>3. CASE LockRefused(r) \/ StartFails(r)
  <2>1. AbandonStart(r)
    BY <1>3 DEF LockRefused, StartFails
  <2>2. QED BY <2>1 DEF AbandonStart
<1>4. CASE Publish(r)
  BY <1>4 DEF Publish, Made
<1>5. CASE RecordOutcome(r)
  BY <1>5 DEF RecordOutcome, Made
<1>6. CASE OutcomeLost(r) \/ UnrecordedEnds(r)
  BY <1>6 DEF OutcomeLost, UnrecordedEnds
<1>7. CASE CloseFiles(r)
  BY <1>7 DEF CloseFiles
<1>8. QED BY <1>1, <1>2, <1>3, <1>4, <1>5, <1>6, <1>7 DEF Open, Finish

Locals == [now : 0..MaxClock, newest : SUBSET Runs, todo : SUBSET Runs,
           at : Runs \union {0}, counted : SUBSET Runs, cands : SUBSET Runs]

\* A step of a pruner keeps the types if it only looks.
LEMMA LookTypes ==
    ASSUME TypeOK, NEW r \in Runs, NEW label \in PCs, Goto(r, label),
           NEW locals \in Locals, prune' = [prune EXCEPT ![r] = locals],
           UNCHANGED <<clock, run, owner, hist>>
    PROVE  TypeOK'
BY DEF Goto, TypeOK, Locals, run, hist

\* ... and those of pruning.
LEMMA PruneTypes ==
    ASSUME TypeOK, Superseding, NEW r \in Runs, Prune(r) \/ Crash(r) PROVE TypeOK'
<1> USE RunsAssumption, OwnerAssumption, LimitAssumption, Labels
<1>0. /\ prune[r] \in Locals /\ Idle \in Locals /\ prune \in [Runs -> Locals]
      /\ clock \in 0..MaxClock
      /\ pc[r] \in Probing => prune[r].at \in Runs
  BY DEF TypeOK, Idle, Locals, Superseding, Informed
<1>1. CASE Scan(r)
  <2> DEFINE refs == {s \in Runs : dir[s]}
  <2>1. CASE MaxAge = 0 /\ MaxSize = 0
    BY <1>1, <2>1 DEF Scan, TypeOK, Goto, run, hist
  <2>2. CASE ~(MaxAge = 0 /\ MaxSize = 0)
    <3> DEFINE locals == [Idle EXCEPT !.now = clock, !.todo = refs, !.newest = Protected(refs)]
    <3>1. locals \in Locals
      BY <1>0 DEF Protected, Newest, Idle, Locals
    <3>2. prune' = [prune EXCEPT ![r] = locals] /\ Goto(r, "measure")
      BY <1>1, <2>2 DEF Scan
    <3>3. UNCHANGED <<clock, run, owner, hist>>
      BY <1>1 DEF Scan
    <3> HIDE DEF locals
    <3>4. QED BY <3>1, <3>2, <3>3, LookTypes
  <2>3. QED BY <2>1, <2>2
<1>2. CASE Measure(r)
  <2>1. PICK c \in Oldest(prune[r].todo) :
           /\ prune' = [prune EXCEPT ![r].todo = @ \ {c}, ![r].at = c,
                          ![r].counted = IF meta[c] = "none" THEN @ ELSE @ \union {c}]
           /\ Goto(r, IF dir[c] /\ c \notin prune[r].newest THEN "probe" ELSE "measure")
    BY <1>2 DEF Measure
  <2> DEFINE locals == [prune[r] EXCEPT !.todo = @ \ {c}, !.at = c,
                          !.counted = IF meta[c] = "none" THEN @ ELSE @ \union {c}]
  <2>2. locals \in Locals
    BY <1>0 DEF Locals, Oldest
  <2>3. prune' = [prune EXCEPT ![r] = locals]
    BY <2>1, <1>0
  <2>4. UNCHANGED <<clock, run, owner, hist>>
    BY <1>2 DEF Measure
  <2> HIDE DEF locals
  <2>5. QED BY <2>1, <2>2, <2>3, <2>4, LookTypes
<1>3. CASE Measured(r) \/ ProbeMissing(r) \/ ProbeLocked(r)
  <2>1. /\ \E label \in PCs : Goto(r, label)
        /\ prune' = prune /\ UNCHANGED <<clock, run, owner, hist>>
    BY <1>3 DEF Measured, ProbeMissing, ProbeLocked
  <2>2. QED BY <2>1 DEF TypeOK, Goto, run, hist
<1>4. CASE ProbeFree(r) \/ Unprobe(r)
  <2>1. /\ \E label \in PCs : Goto(r, label)
        /\ \E o \in Runs \union {NoOwner} : owner' = [owner EXCEPT ![prune[r].at] = o]
        /\ UNCHANGED <<clock, run, prune, hist>>
    <3>1. CASE ProbeFree(r)
      BY <3>1 DEF ProbeFree
    <3>2. CASE Unprobe(r)
      <4>1. prune[r].at \in Runs
        BY <3>2, <1>0 DEF Unprobe, Probing
      <4>2. QED BY <3>2, <4>1 DEF Unprobe, TypeOK
    <3>3. QED BY <1>4, <3>1, <3>2
  <2>2. PICK o \in Runs \union {NoOwner} : owner' = [owner EXCEPT ![prune[r].at] = o]
    BY <2>1
  <2>3. owner' \in [Runs -> Runs \union {NoOwner}]
    BY <2>2 DEF TypeOK
  <2>4. pc' \in [Runs -> PCs]
    BY <2>1 DEF TypeOK, Goto
  <2>5. QED BY <2>1, <2>3, <2>4 DEF TypeOK, run, hist
<1>5. CASE CheckCreating(r)
  <2> DEFINE locals == [prune[r] EXCEPT !.cands =
                          IF IsCreating(prune[r].at, prune[r].now) THEN @ ELSE @ \union {prune[r].at}]
  <2>1. locals \in Locals
    BY <1>0, <1>5 DEF Locals, CheckCreating, Probing
  <2>2. prune' = [prune EXCEPT ![r] = locals]
    BY <1>5, <1>0 DEF CheckCreating
  <2>3. Goto(r, "measure") /\ UNCHANGED <<clock, run, owner, hist>>
    BY <1>5 DEF CheckCreating
  <2> HIDE DEF locals
  <2>4. QED BY <2>1, <2>2, <2>3, LookTypes
<1>6. CASE Remove(r)
  <2>1. PICK c \in NextToRemove(r) :
         /\ dir' = [dir EXCEPT ![c] = FALSE]
         /\ lockfile' = [lockfile EXCEPT ![c] = FALSE]
         /\ meta' = [meta EXCEPT ![c] = "none"]
         /\ owner' = [owner EXCEPT ![c] = NoOwner]
         /\ prune' = [prune EXCEPT ![r].cands = @ \ {c}, ![r].counted = @ \ {c}]
    BY <1>6 DEF Remove
  <2>2. prune' \in [Runs -> Locals]
    <3>1. [prune[r] EXCEPT !.cands = @ \ {c}, !.counted = @ \ {c}] \in Locals
      BY <1>0 DEF Locals
    <3>2. prune' = [prune EXCEPT ![r] = [prune[r] EXCEPT !.cands = @ \ {c}, !.counted = @ \ {c}]]
      BY <2>1, <1>0
    <3>3. QED BY <3>1, <3>2, <1>0
  <2>3. UNCHANGED <<clock, pc, started, task, hist>>
    BY <1>6 DEF Remove
  <2>4. QED BY SMT, ZenonT(40), <2>1, <2>2, <2>3 DEF TypeOK, Locals, hist
<1>7. CASE Pruned(r)
  BY <1>7, <1>0, LookTypes DEF Pruned
<1>8. CASE Crash(r)
  <2>1. prune' \in [Runs -> Locals]
    BY <1>8, <1>0 DEF Crash
  <2>2. QED BY <1>8, <2>1 DEF Crash, TypeOK, Locals, Goto, run, hist
<1>9. QED BY <1>1, <1>2, <1>3, <1>4, <1>5, <1>6, <1>7, <1>8 DEF Prune, Probe

-----------------------------------------------------------------------------
\* A step of process r that touches no file of a run and leads it on to its end.
Quiet(r) ==
    /\ clock' = clock /\ started' = started /\ dir' = dir /\ lockfile' = lockfile
    /\ meta' = meta /\ made' = made
    /\ \A c \in Runs : c # r => pc'[c] = pc[c]
    /\ pc'[r] \in Pruning \union {"close", "done", "dead"}
    /\ pc'[r] = "close" => pc[r] = "running"
    /\ pc[r] # "new"

\* Most steps make no directory and publish nothing.
LEMMA QuietSteps ==
    ASSUME TypeOK, NEW r \in Runs,
           \/ OutcomeLost(r) \/ CloseFiles(r) \/ UnrecordedEnds(r)
           \/ Scan(r) \/ Measure(r) \/ Measured(r) \/ Probe(r) \/ Pruned(r) \/ Crash(r)
    PROVE  Quiet(r)
<1> USE Labels DEF Quiet, Goto, TypeOK, run, hist
<1>1. CASE OutcomeLost(r) \/ CloseFiles(r) \/ UnrecordedEnds(r)
  BY <1>1 DEF OutcomeLost, CloseFiles, UnrecordedEnds
<1>2. CASE Scan(r)
  BY <1>2 DEF Scan
<1>3. CASE Measure(r)
  <2>1. pc' = [pc EXCEPT ![r] = "probe"] \/ pc' = [pc EXCEPT ![r] = "measure"]
    BY <1>3 DEF Measure
  <2>2. pc[r] = "measure" /\ UNCHANGED <<clock, run, owner, hist>>
    BY <1>3 DEF Measure
  <2>3. QED BY <2>1, <2>2
<1>4. CASE Measured(r) \/ Pruned(r)
  BY <1>4 DEF Measured, Pruned
<1>5. CASE Crash(r)
  BY <1>5 DEF Crash
<1>6. CASE Probe(r)
  BY <1>6 DEF Probe, ProbeMissing, ProbeLocked, ProbeFree, Unprobe, CheckCreating
<1>7. QED BY <1>1, <1>2, <1>3, <1>4, <1>5, <1>6

\* Such a step keeps Made and Young.
LEMMA QuietMade ==
    ASSUME Made, Young, NEW r \in Runs, Quiet(r)
    PROVE  Made' /\ Young'
<1> USE Labels DEF Quiet
<1>1. Made'
  BY DEF Made
<1>2. Young'
  BY DEF Young
<1>3. QED BY <1>1, <1>2

\* Runs are made once, and creating one takes less than the grace period.
LEMMA MadeSteps ==
    ASSUME TypeOK, Made, Young, Candidates, NEW r \in Runs,
           Start(r) \/ Open(r) \/ Finish(r) \/ Prune(r) \/ Crash(r)
    PROVE  Made' /\ Young'
<1> USE Labels DEF Goto, TypeOK, run, hist, Made, Young
<1>1. CASE Begin(r)
  BY <1>1, LimitAssumption DEF Begin
<1>2. CASE MakeTaskDir(r)
  BY <1>2 DEF MakeTaskDir
<1>3. CASE WriteTaskInfo(r)
  BY <1>3 DEF WriteTaskInfo
<1>4. CASE MakeRunDir(r)
  BY <1>4 DEF MakeRunDir
<1>5. CASE CreateLock(r)
  BY <1>5 DEF CreateLock
<1>6. CASE TakeLock(r)
  BY <1>6 DEF TakeLock
<1>7. CASE LockRefused(r) \/ StartFails(r)
  <2>1. AbandonStart(r)
    BY <1>7 DEF LockRefused, StartFails
  <2>2. QED BY <2>1 DEF AbandonStart
<1>8. CASE Publish(r)
  BY <1>8 DEF Publish
<1>9. CASE RecordOutcome(r)
  BY <1>9 DEF RecordOutcome
<1>10. CASE Remove(r)
  <2>1. PICK c \in NextToRemove(r) :
         /\ dir' = [dir EXCEPT ![c] = FALSE]
         /\ lockfile' = [lockfile EXCEPT ![c] = FALSE]
         /\ meta' = [meta EXCEPT ![c] = "none"]
    BY <1>10 DEF Remove
  <2>2. pc[c] \notin Creating
    BY DEF Candidates, NextToRemove, Expired, Oldest
  <2>3. UNCHANGED <<clock, pc, started, hist>>
    BY <1>10 DEF Remove
  <2>4. QED BY <2>1, <2>2, <2>3
<1>11. CASE \/ OutcomeLost(r) \/ CloseFiles(r) \/ UnrecordedEnds(r)
            \/ Scan(r) \/ Measure(r) \/ Measured(r) \/ Probe(r) \/ Pruned(r) \/ Crash(r)
  <2>1. Quiet(r)
    BY <1>11, QuietSteps
  <2>2. QED BY <2>1, QuietMade
<1>12. QED BY <1>1, <1>2, <1>3, <1>4, <1>5, <1>6, <1>7, <1>8, <1>9, <1>10, <1>11
             DEF Start, Open, Finish, Prune

-----------------------------------------------------------------------------
\* What every step does to the labels, the clock and the runs made.
Onward ==
    /\ made \subseteq made' /\ clock <= clock'
    /\ \A c \in Runs :
         /\ pc'[c] \in Before => pc[c] \in Before
         /\ pc'[c] \in Creating => pc[c] \in Creating \union {"mkdir"}
         /\ started'[c] = started[c] \/ pc[c] = "new"

\* No step takes a run back to an earlier phase.
LEMMA OnwardSteps ==
    ASSUME TypeOK, NEW r \in Runs,
           Start(r) \/ Open(r) \/ Finish(r) \/ Prune(r) \/ Crash(r)
    PROVE  Onward
<1> USE Labels DEF Onward, Before
<1>0. clock \in Int /\ clock <= clock
  BY LimitAssumption DEF TypeOK
<1>1. CASE Start(r)
  BY <1>0, <1>1 DEF Start, Begin, MakeTaskDir, WriteTaskInfo, MakeRunDir, Goto, TypeOK, hist
<1>2. CASE CreateLock(r) \/ TakeLock(r) \/ Publish(r)
  BY <1>0, <1>2 DEF CreateLock, TakeLock, Publish, Goto, TypeOK, run, hist
<1>3. CASE LockRefused(r) \/ StartFails(r)
  <2>1. AbandonStart(r)
    BY <1>3 DEF LockRefused, StartFails
  <2>2. QED BY <1>0, <2>1 DEF AbandonStart, Goto, TypeOK, hist
<1>4. CASE RecordOutcome(r)
  BY <1>0, <1>4 DEF RecordOutcome, Goto, TypeOK, hist
<1>5. CASE Remove(r)
  BY <1>0, <1>5 DEF Remove, hist
<1>6. CASE \/ OutcomeLost(r) \/ CloseFiles(r) \/ UnrecordedEnds(r)
           \/ Scan(r) \/ Measure(r) \/ Measured(r) \/ Probe(r) \/ Pruned(r) \/ Crash(r)
  <2>1. Quiet(r)
    BY <1>6, QuietSteps
  <2>2. QED BY <1>0, <2>1 DEF Quiet
<1>7. QED BY <1>1, <1>2, <1>3, <1>4, <1>5, <1>6 DEF Open, Finish, Prune

\* Being superseded is for ever, so what a pruner knows stays true.
LEMMA SupersedingKept ==
    ASSUME TypeOK, TypeOK', Superseding, Onward,
           \A q \in Runs : \/ prune'[q] = prune[q] /\ (pc'[q] = pc[q] \/ pc'[q] \notin Probing)
                           \/ Informed(q)',
           \A c \in Runs : owner'[c] \in {owner[c], NoOwner, c} \/ Superseded(c)
    PROVE  Superseding'
<1>1. \A c \in Runs : Superseded(c) => Superseded(c)'
  BY DEF Superseded, Onward
<1>2. ASSUME NEW q \in Runs PROVE Informed(q)'
  <2>1. CASE prune'[q] = prune[q] /\ (pc'[q] = pc[q] \/ pc'[q] \notin Probing)
    <3>1. Informed(q) /\ made \subseteq made' /\ made \subseteq Runs
      BY DEF Superseding, Onward, TypeOK
    <3>2. prune[q].now <= clock'
      BY <3>1, LimitAssumption DEF Informed, Onward, TypeOK
    <3>3. QED BY <1>1, <2>1, <3>1, <3>2 DEF Informed
  <2>2. QED BY <2>1
<1>3. ASSUME NEW c \in Runs, owner'[c] \notin {NoOwner, c} PROVE Superseded(c)'
  BY <1>1, <1>3 DEF Superseding
<1>4. QED BY <1>2, <1>3 DEF Superseding

\* Recording keeps Superseding, ...
LEMMA RecordingSuperseding ==
    ASSUME TypeOK, TypeOK', Superseding, Onward, NEW r \in Runs, Start(r) \/ Open(r) \/ Finish(r)
    PROVE  Superseding'
<1>1. prune' = prune
  BY DEF Start, Begin, MakeTaskDir, WriteTaskInfo, MakeRunDir, Open, CreateLock, TakeLock, LockRefused,
         Publish, StartFails, AbandonStart, Finish, RecordOutcome, OutcomeLost, CloseFiles, UnrecordedEnds
<1>2. \A q \in Runs : pc'[q] = pc[q] \/ pc'[q] \notin Probing
  BY DEF Start, Begin, MakeTaskDir, WriteTaskInfo, MakeRunDir, Open, CreateLock, TakeLock, LockRefused,
         Publish, StartFails, AbandonStart, Finish, RecordOutcome, OutcomeLost, CloseFiles, UnrecordedEnds,
         Goto, TypeOK, Probing
<1>3. \A c \in Runs : owner'[c] \in {owner[c], NoOwner, c}
  BY DEF Start, Begin, MakeTaskDir, WriteTaskInfo, MakeRunDir, Open, CreateLock, TakeLock, LockRefused,
         Publish, StartFails, AbandonStart, Finish, RecordOutcome, OutcomeLost, CloseFiles, UnrecordedEnds,
         TypeOK
<1>4. QED BY <1>1, <1>2, <1>3, SupersedingKept

\* ... looking at the history does, ...
LEMMA LookingSuperseding ==
    ASSUME TypeOK, TypeOK', Made, Superseding, Onward, NEW r \in Runs,
           Scan(r) \/ Measure(r) \/ CheckCreating(r)
    PROVE  Superseding'
<1> USE Labels DEF Probing
<1>0. /\ Informed(r) /\ clock \in Int /\ clock' \in Int /\ prune[r].now \in Int
      /\ prune[r].todo \subseteq Runs /\ prune[r].cands \subseteq Runs /\ made \subseteq Runs
  BY LimitAssumption DEF Superseding, TypeOK
<1>1. \A c \in Runs : Superseded(c) => Superseded(c)'
  BY DEF Superseded, Onward
<1>2. /\ owner' = owner /\ clock' = clock /\ made' = made
      /\ \A q \in Runs : q # r => prune'[q] = prune[q] /\ pc'[q] = pc[q]
  <2>1. CASE Scan(r)
    BY <2>1 DEF Scan, hist, Goto, TypeOK
  <2>2. CASE Measure(r)
    <3>1. pc' = [pc EXCEPT ![r] = "probe"] \/ pc' = [pc EXCEPT ![r] = "measure"]
      BY <2>2 DEF Measure, Goto
    <3>2. \A q \in Runs : q # r => prune'[q] = prune[q]
      BY SMT, ZenonT(40), <2>2 DEF Measure, TypeOK
    <3>3. owner' = owner /\ clock' = clock /\ made' = made
      BY <2>2 DEF Measure, hist
    <3>4. QED BY <3>1, <3>2, <3>3 DEF TypeOK
  <2>3. CASE CheckCreating(r)
    BY <2>3 DEF CheckCreating, hist, Goto, TypeOK
  <2>4. QED BY <2>1, <2>2, <2>3
<1>3. Informed(r)' \/ (prune'[r] = prune[r] /\ pc'[r] \notin Probing)
  <2>1. CASE Scan(r)
    <3>1. CASE MaxAge = 0 /\ MaxSize = 0
      BY <2>1, <3>1 DEF Scan, Goto, TypeOK
    <3>2. CASE ~(MaxAge = 0 /\ MaxSize = 0)
      <4> DEFINE refs == {s \in Runs : dir[s]}
      <4>1. prune'[r] = [Idle EXCEPT !.now = clock, !.todo = refs, !.newest = Newest(refs)] /\ pc'[r] = "measure"
        BY <2>1, <3>2 DEF Scan, Goto, TypeOK, Protected
      <4>2. refs \subseteq made
        BY DEF Made
      <4>3. ASSUME NEW c \in refs \ Newest(refs) PROVE Superseded(c)
        <5>1. PICK s \in refs : TaskOf[s] = TaskOf[c] /\ ~(s <= c)
          BY <4>3 DEF Newest
        <5>2. s > c
          BY <5>1, RunsAssumption
        <5>3. QED BY <4>2, <5>1, <5>2 DEF Superseded
      <4> HIDE DEF refs
      <4>4. /\ prune'[r].now = clock /\ prune'[r].todo = refs /\ prune'[r].newest = Newest(refs)
            /\ prune'[r].cands = {}
        BY <4>1 DEF Idle
      <4>5. refs \subseteq Runs
        BY <4>2, <1>0
      <4>6. QED BY <1>0, <1>1, <1>2, <4>1, <4>2, <4>3, <4>4, <4>5 DEF Informed
    <3>3. QED BY <3>1, <3>2
  <2>2. CASE Measure(r)
    <3>1. PICK c \in Oldest(prune[r].todo) :
            /\ prune' = [prune EXCEPT ![r].todo = @ \ {c}, ![r].at = c,
                           ![r].counted = IF meta[c] = "none" THEN @ ELSE @ \union {c}]
            /\ Goto(r, IF dir[c] /\ c \notin prune[r].newest THEN "probe" ELSE "measure")
      BY <2>2 DEF Measure
    <3>2. /\ prune'[r].now = prune[r].now /\ prune'[r].newest = prune[r].newest
          /\ prune'[r].todo = prune[r].todo \ {c} /\ prune'[r].at = c
          /\ prune'[r].cands = prune[r].cands
      BY <3>1 DEF TypeOK
    <3>3. c \in prune[r].todo
      BY DEF Oldest
    <3>4. pc'[r] = "measure" \/ (pc'[r] = "probe" /\ c \notin prune[r].newest)
      BY <3>1 DEF Goto, TypeOK
    <3>5. QED BY <1>0, <1>1, <1>2, <3>2, <3>3, <3>4 DEF Informed
  <2>3. CASE CheckCreating(r)
    <3>1. /\ prune'[r].now = prune[r].now /\ prune'[r].newest = prune[r].newest
          /\ prune'[r].todo = prune[r].todo
          /\ prune'[r].cands \subseteq prune[r].cands \union {prune[r].at}
          /\ pc[r] = "creating" /\ pc'[r] = "measure"
      BY <2>3 DEF CheckCreating, Goto, TypeOK
    <3>2. QED BY <1>0, <1>1, <1>2, <3>1 DEF Informed
  <2>4. QED BY <2>1, <2>2, <2>3
<1>4. QED BY <1>2, <1>3, SupersedingKept

\* ... and so does pruning it.
LEMMA PruningSuperseding ==
    ASSUME TypeOK, TypeOK', Made, Superseding, Onward, NEW r \in Runs, Prune(r) \/ Crash(r)
    PROVE  Superseding'
<1> USE Labels DEF Probing
<1>0. /\ Informed(r) /\ clock \in Int /\ clock' \in Int /\ prune[r].now \in Int
      /\ prune[r].todo \subseteq Runs /\ prune[r].cands \subseteq Runs /\ made \subseteq Runs
  BY LimitAssumption DEF Superseding, TypeOK
<1>1. \A c \in Runs : Superseded(c) => Superseded(c)'
  BY DEF Superseded, Onward
<1>2. CASE Scan(r) \/ Measure(r) \/ CheckCreating(r)
  BY <1>2, LookingSuperseding
<1>3. CASE Measured(r) \/ ProbeLocked(r)
  <2>1. prune' = prune /\ owner' = owner /\ \A q \in Runs : pc'[q] = pc[q] \/ pc'[q] \notin Probing
    BY <1>3 DEF Measured, ProbeLocked, Goto, TypeOK
  <2>2. QED BY <2>1, SupersedingKept
<1>4. CASE ProbeMissing(r) \/ ProbeFree(r) \/ Unprobe(r)
  <2>1. /\ prune' = prune /\ clock' = clock /\ made' = made /\ pc[r] \in Probing
        /\ \A q \in Runs : q # r => pc'[q] = pc[q]
    BY <1>4 DEF ProbeMissing, ProbeFree, Unprobe, hist, Goto, TypeOK
  <2>2. Informed(r)'
    BY <1>0, <1>1, <2>1 DEF Informed
  <2>3. Superseded(prune[r].at)
    BY <1>0, <2>1 DEF Informed
  <2>4. \A c \in Runs : owner'[c] \in {owner[c], NoOwner} \/ c = prune[r].at
    <3>1. CASE ProbeMissing(r)
      BY <3>1 DEF ProbeMissing
    <3>2. CASE ProbeFree(r)
      BY <3>2 DEF ProbeFree, TypeOK
    <3>3. CASE Unprobe(r)
      BY <3>3 DEF Unprobe, TypeOK
    <3>4. QED BY <1>4, <3>1, <3>2, <3>3
  <2>5. QED BY <2>1, <2>2, <2>3, <2>4, SupersedingKept
<1>5. CASE Remove(r)
  <2>1. PICK c \in NextToRemove(r) :
         /\ owner' = [owner EXCEPT ![c] = NoOwner]
         /\ prune' = [prune EXCEPT ![r].cands = @ \ {c}, ![r].counted = @ \ {c}]
    BY <1>5 DEF Remove
  <2>2. /\ prune'[r].now = prune[r].now /\ prune'[r].newest = prune[r].newest
        /\ prune'[r].todo = prune[r].todo /\ prune'[r].cands \subseteq prune[r].cands
        /\ \A q \in Runs : q # r => prune'[q] = prune[q]
        /\ \A q \in Runs : owner'[q] \in {owner[q], NoOwner}
    BY <2>1 DEF TypeOK
  <2>3. pc' = pc /\ pc[r] = "remove" /\ clock' = clock /\ made' = made
    BY <1>5 DEF Remove, hist
  <2>4. Informed(r)'
    BY <1>0, <1>1, <2>2, <2>3 DEF Informed
  <2>5. QED BY <2>2, <2>3, <2>4, SupersedingKept
<1>6. CASE Pruned(r) \/ Crash(r)
  <2>1. /\ \A q \in Runs : q # r => prune'[q] = prune[q] /\ pc'[q] = pc[q]
        /\ prune'[r] = Idle /\ pc'[r] \in {"done", "dead"} /\ clock' = clock
        /\ \A c \in Runs : owner'[c] \in {owner[c], NoOwner}
    BY <1>6 DEF Pruned, Crash, Goto, TypeOK
  <2>2. Informed(r)'
    BY <1>0, <2>1, LimitAssumption DEF Informed, Idle, TypeOK
  <2>3. QED BY <2>1, <2>2, SupersedingKept
<1>7. QED BY <1>2, <1>3, <1>4, <1>5, <1>6 DEF Prune, Probe

-----------------------------------------------------------------------------
\* What scanning leaves of the pruner's variables.
LEMMA ScanLocals ==
    ASSUME TypeOK, NEW r \in Runs, Scan(r)
    PROVE  /\ \A q \in Runs : q # r => prune'[q] = prune[q] /\ pc'[q] = pc[q]
           /\ pc'[r] \in {"done", "measure"}
           /\ prune'[r] = prune[r] \/ prune'[r].cands = {}
<1>1. CASE MaxAge = 0 /\ MaxSize = 0
  BY <1>1 DEF Scan, Goto, TypeOK
<1>2. CASE ~(MaxAge = 0 /\ MaxSize = 0)
  <2> DEFINE refs == {s \in Runs : dir[s]}
             locals == [Idle EXCEPT !.now = clock, !.todo = refs, !.newest = Protected(refs)]
  <2>1. prune' = [prune EXCEPT ![r] = locals] /\ Goto(r, "measure")
    BY <1>2 DEF Scan
  <2>2. locals.cands = {}
    BY DEF Idle
  <2> HIDE DEF locals
  <2>3. QED BY <2>1, <2>2 DEF Goto, TypeOK
<1>3. QED BY <1>1, <1>2

\* Candidates are only added when their creation has been looked at.
LEMMA CandsShrink ==
    ASSUME TypeOK, NEW r \in Runs, Start(r) \/ Open(r) \/ Finish(r) \/ Prune(r) \/ Crash(r),
           NEW q \in Runs
    PROVE  \/ prune'[q].cands \subseteq prune[q].cands
           \/ q = r /\ CheckCreating(r)
<1>1. CASE Start(r) \/ Open(r) \/ Finish(r)
  BY <1>1 DEF Start, Begin, MakeTaskDir, WriteTaskInfo, MakeRunDir, Open, CreateLock, TakeLock,
         LockRefused, Publish, StartFails, AbandonStart, Finish, RecordOutcome, OutcomeLost, CloseFiles,
         UnrecordedEnds
<1>2. CASE Scan(r)
  BY <1>2, ScanLocals
<1>3. CASE Measure(r)
  BY <1>3 DEF Measure, TypeOK
<1>4. CASE Measured(r) \/ ProbeMissing(r) \/ ProbeLocked(r) \/ ProbeFree(r) \/ Unprobe(r)
  BY <1>4 DEF Measured, ProbeMissing, ProbeLocked, ProbeFree, Unprobe
<1>5. CASE Remove(r)
  BY <1>5 DEF Remove, TypeOK
<1>6. CASE Pruned(r) \/ Crash(r)
  BY <1>6 DEF Pruned, Crash, TypeOK, Idle
<1>7. CASE CheckCreating(r)
  BY <1>7 DEF CheckCreating, TypeOK
<1>8. QED BY <1>1, <1>2, <1>3, <1>4, <1>5, <1>6, <1>7 DEF Prune, Probe

\* No candidate is a run being created.
LEMMA CandidatesSteps ==
    ASSUME TypeOK, TypeOK', Made, Young, Superseding, Candidates, Onward, NEW r \in Runs,
           Start(r) \/ Open(r) \/ Finish(r) \/ Prune(r) \/ Crash(r)
    PROVE  Candidates'
<1> SUFFICES ASSUME NEW q \in Runs, NEW c \in prune'[q].cands, pc'[c] \in Creating PROVE FALSE
  BY DEF Candidates
<1>0. c \in Runs /\ Informed(q)
  BY DEF TypeOK, Superseding
<1>1. pc[c] \in Creating \union {"mkdir"}
  BY <1>0 DEF Onward
<1>2. CASE c \in prune[q].cands
  BY <1>0, <1>1, <1>2, Labels DEF Candidates, Made, Informed
<1>3. CASE c \notin prune[q].cands
  <2>1. q = r /\ CheckCreating(r)
    BY <1>3, CandsShrink
  <2>2. c = prune[r].at /\ ~IsCreating(c, prune[r].now) /\ pc[r] \in Probing
    BY <1>3, <2>1 DEF CheckCreating, TypeOK, Probing
  <2>3. c \in made
    BY <1>0, <2>1, <2>2 DEF Informed
  <2>4. pc[c] \in Creating /\ meta[c] = "none"
    BY <1>0, <1>1, <2>3, Labels DEF Made
  <2>5. clock - started[c] < Grace /\ prune[r].now <= clock
    BY <1>0, <2>1, <2>4 DEF Young, Informed
  <2>6. prune[r].now - started[c] < Grace
    BY <1>0, <2>5, LimitAssumption DEF TypeOK
  <2>7. QED BY <2>2, <2>4, <2>6 DEF IsCreating
<1>4. QED BY <1>2, <1>3

\* What is expired, no recorder is left of: it would hold the lock, or be young.
LEMMA Unattended ==
    ASSUME TypeOK, Made, Young, Superseding, Locked, MaxSize = 0, NEW r \in Runs,
           ProbeMissing(r) \/ ProbeFree(r), Old(r, prune[r].at)
    PROVE  pc[prune[r].at] \notin Before
<1> DEFINE c == prune[r].at
<1>1. c \in Runs /\ c \in made /\ prune[r].now <= clock
  BY DEF Superseding, Informed, ProbeMissing, ProbeFree, Probing, TypeOK
<1>2. pc[c] \notin {"new"} \union Starting
  BY <1>1 DEF Made
<1>3. pc[c] \notin Creating
  <2>1. SUFFICES ASSUME pc[c] \in Creating PROVE FALSE
    OBVIOUS
  <2>2. clock - started[c] < Grace
    BY <1>1, <2>1 DEF Young
  <2>3. QED BY <1>1, <2>2, LimitAssumption DEF Old, TypeOK
<1>4. pc[c] \notin Recording
  BY <1>1, OwnerAssumption, Labels DEF ProbeMissing, ProbeFree, Locked, Live
<1>5. QED BY <1>2, <1>3, <1>4 DEF Before

\* A pruner's clock stands still, except when it begins or ends.
LEMMA NowKept ==
    ASSUME TypeOK, NEW r \in Runs, Start(r) \/ Open(r) \/ Finish(r) \/ Prune(r) \/ Crash(r),
           NEW q \in Runs
    PROVE  /\ prune'[q].cands = {} \/ prune'[q].now = prune[q].now
           /\ pc'[q] \in {"unprobe", "creating"} =>
                 /\ prune'[q] = prune[q]
                 /\ \/ pc[q] \in {"unprobe", "creating"}
                    \/ q = r /\ (ProbeMissing(r) \/ ProbeFree(r))
<1>1. CASE Start(r) \/ Open(r) \/ Finish(r)
  BY <1>1 DEF Start, Begin, MakeTaskDir, WriteTaskInfo, MakeRunDir, Open, CreateLock, TakeLock,
         LockRefused, Publish, StartFails, AbandonStart, Finish, RecordOutcome, OutcomeLost, CloseFiles,
         UnrecordedEnds, Goto, TypeOK
<1>2. CASE Scan(r)
  BY <1>2, ScanLocals
<1>3. CASE Measure(r)
  <2>1. pc' = [pc EXCEPT ![r] = "probe"] \/ pc' = [pc EXCEPT ![r] = "measure"]
    BY <1>3 DEF Measure, Goto
  <2>2. prune'[q].now = prune[q].now /\ (q # r => prune'[q] = prune[q])
    BY <1>3 DEF Measure, TypeOK
  <2>3. QED BY <2>1, <2>2 DEF TypeOK
<1>4. CASE Measured(r) \/ ProbeMissing(r) \/ ProbeLocked(r) \/ ProbeFree(r) \/ Unprobe(r)
  BY <1>4 DEF Measured, ProbeMissing, ProbeLocked, ProbeFree, Unprobe, Goto, TypeOK
<1>5. CASE Remove(r)
  BY <1>5 DEF Remove, TypeOK
<1>6. CASE Pruned(r) \/ Crash(r)
  BY <1>6 DEF Pruned, Crash, Goto, TypeOK, Idle
<1>7. CASE CheckCreating(r)
  BY <1>7 DEF CheckCreating, Goto, TypeOK
<1>8. QED BY <1>1, <1>2, <1>3, <1>4, <1>5, <1>6, <1>7 DEF Prune, Probe

\* Without a size limit, what is too old is past recording.
LEMMA SettledSteps ==
    ASSUME TypeOK, TypeOK', Made, Young, Superseding, Locked, Settled, Onward, MaxSize = 0,
           NEW r \in Runs, Start(r) \/ Open(r) \/ Finish(r) \/ Prune(r) \/ Crash(r)
    PROVE  Settled'
<1>1. ASSUME NEW q \in Runs, NEW c \in prune'[q].cands, Old(q, c)' PROVE pc'[c] \notin Before
  <2>0. c \in Runs /\ prune'[q].now = prune[q].now /\ Informed(q)
    BY <1>1, NowKept DEF TypeOK, Superseding
  <2>1. started'[c] = started[c] \/ pc[c] = "new"
    BY <2>0 DEF Onward
  <2>2. CASE c \in prune[q].cands
    <3>1. Old(q, c)
      BY <1>1, <2>0, <2>1, <2>2, Labels DEF Old, Informed, Made
    <3>2. QED BY <2>0, <2>2, <3>1 DEF Settled, Onward
  <2>3. CASE c \notin prune[q].cands
    <3>1. q = r /\ CheckCreating(r)
      BY <2>3, CandsShrink
    <3>2. c = prune[q].at /\ pc[q] = "creating"
      BY <2>3, <3>1 DEF CheckCreating, TypeOK
    <3>3. c \in made
      BY <2>0, <3>2 DEF Informed, Probing
    <3>4. Old(q, c)
      BY <1>1, <2>0, <2>1, <3>3, Labels DEF Old, Made
    <3>5. QED BY <2>0, <3>2, <3>4 DEF Settled, Onward
  <2>4. QED BY <2>2, <2>3
<1>2. ASSUME NEW q \in Runs, pc'[q] \in {"unprobe", "creating"}, Old(q, prune[q].at)'
      PROVE  pc'[prune'[q].at] \notin Before
  <2>0. /\ prune'[q] = prune[q] /\ Informed(q)
        /\ \/ pc[q] \in {"unprobe", "creating"}
           \/ q = r /\ (ProbeMissing(r) \/ ProbeFree(r))
    BY <1>2, NowKept DEF Superseding
  <2>1. prune[q].at \in Runs /\ prune[q].at \in made
    BY <2>0 DEF Informed, Probing, ProbeMissing, ProbeFree, TypeOK
  <2>2. Old(q, prune[q].at)
    BY <1>2, <2>0, <2>1, Labels DEF Old, Made, Onward
  <2>3. pc[prune[q].at] \notin Before
    <3>1. CASE pc[q] \in {"unprobe", "creating"}
      BY <2>2, <3>1 DEF Settled
    <3>2. CASE q = r /\ (ProbeMissing(r) \/ ProbeFree(r))
      BY <2>2, <3>2, Unattended
    <3>3. QED BY <2>0, <3>1, <3>2
  <2>4. QED BY <2>0, <2>1, <2>3 DEF Onward
<1>3. QED BY <1>1, <1>2 DEF Settled

\* A recorder holds its lock as long as it is live.
LEMMA LockedSteps ==
    ASSUME TypeOK, Made, Superseding, Locked, MaxSize = 0 => Settled, NEW r \in Runs,
           Start(r) \/ Open(r) \/ Finish(r) \/ Prune(r) \/ Crash(r)
    PROVE  Locked'
<1> USE OwnerAssumption, Labels DEF Goto, TypeOK, run, hist, Locked, Live
<1>1. CASE Start(r)
  <2>1. CASE Begin(r)
    BY <2>1 DEF Begin
  <2>2. CASE MakeTaskDir(r)
    BY <2>2 DEF MakeTaskDir
  <2>3. CASE WriteTaskInfo(r)
    BY <2>3 DEF WriteTaskInfo
  <2>4. CASE MakeRunDir(r)
    BY <2>4 DEF MakeRunDir
  <2>5. QED BY <1>1, <2>1, <2>2, <2>3, <2>4 DEF Start
<1>2. CASE CreateLock(r)
  BY <1>2 DEF CreateLock
<1>3. CASE TakeLock(r)
  BY <1>3 DEF TakeLock, Made
<1>4. CASE LockRefused(r) \/ StartFails(r)
  <2>1. AbandonStart(r)
    BY <1>4 DEF LockRefused, StartFails
  <2>2. QED BY <2>1 DEF AbandonStart
<1>5. CASE Publish(r)
  BY <1>5 DEF Publish
<1>6. CASE RecordOutcome(r)
  BY <1>6 DEF RecordOutcome
<1>7. CASE OutcomeLost(r) \/ UnrecordedEnds(r)
  BY <1>7 DEF OutcomeLost, UnrecordedEnds
<1>8. CASE CloseFiles(r)
  BY <1>8 DEF CloseFiles
<1>9. CASE Scan(r)
  <2>1. /\ \A q \in Runs : q # r => prune'[q] = prune[q] /\ pc'[q] = pc[q]
        /\ pc[r] = "scan" /\ pc'[r] \in {"done", "measure"} /\ UNCHANGED <<run, owner>>
    BY <1>9 DEF Scan
  <2>2. QED BY <2>1
<1>10. CASE Measure(r)
  <2>1. pc' = [pc EXCEPT ![r] = "probe"] \/ pc' = [pc EXCEPT ![r] = "measure"]
    BY <1>10 DEF Measure
  <2>2. \A q \in Runs : q # r => prune'[q] = prune[q]
    BY <1>10 DEF Measure
  <2>3. pc[r] = "measure" /\ UNCHANGED <<run, owner>>
    BY <1>10 DEF Measure
  <2>4. QED BY <2>1, <2>2, <2>3
<1>11. CASE Measured(r) \/ ProbeMissing(r) \/ ProbeLocked(r)
  BY <1>11 DEF Measured, ProbeMissing, ProbeLocked
<1>12. CASE ProbeFree(r)
  BY <1>12 DEF ProbeFree
<1>13. CASE Unprobe(r)
  BY <1>13 DEF Unprobe
<1>14. CASE CheckCreating(r)
  BY <1>14 DEF CheckCreating
<1>15. CASE Remove(r)
  <2>1. PICK c \in NextToRemove(r) :
         /\ dir' = [dir EXCEPT ![c] = FALSE]
         /\ lockfile' = [lockfile EXCEPT ![c] = FALSE]
         /\ owner' = [owner EXCEPT ![c] = NoOwner]
         /\ prune' = [prune EXCEPT ![r].cands = @ \ {c}, ![r].counted = @ \ {c}]
    BY <1>15 DEF Remove
  <2>2. pc' = pc /\ \A q \in Runs : prune'[q].at = prune[q].at
    BY <1>15, <2>1 DEF Remove
  <2>3. MaxSize = 0 => pc[c] \notin Live
    BY DEF NextToRemove, Expired, Oldest, Settled, Old, Before
  <2>4. QED BY <2>1, <2>2, <2>3
<1>16. CASE Pruned(r)
  BY <1>16 DEF Pruned
<1>17. CASE Crash(r)
  BY <1>17 DEF Crash
<1>18. QED BY <1>1, <1>2, <1>3, <1>4, <1>5, <1>6, <1>7, <1>8, <1>9, <1>10, <1>11, <1>12, <1>13,
              <1>14, <1>15, <1>16, <1>17 DEF Open, Finish, Prune, Probe

-----------------------------------------------------------------------------

\* The clock changes nothing else.
LEMMA TickInvariant == ASSUME IInv, Tick PROVE IInv'
<1> USE LimitAssumption DEF IInv, Tick, run, hist, TypeOK
<1>1. clock' = clock + 1 /\ clock' \in 0..MaxClock
      /\ UNCHANGED <<pc, started, task, dir, lockfile, meta, owner, prune, made, published>>
  OBVIOUS
<1>2. TypeOK'
  BY <1>1
<1>3. Made'
  BY <1>1 DEF Made
<1>4. Young'
  BY <1>1 DEF Young
<1>5. Superseding'
  BY <1>1 DEF Superseding, Informed, Superseded
<1>6. Candidates' /\ Locked' /\ (MaxSize = 0 => Settled')
  BY <1>1 DEF Candidates, Locked, Settled, Old
<1>7. QED BY <1>2, <1>3, <1>4, <1>5, <1>6

\* Every step of an execution keeps the invariant.
LEMMA StepInvariant ==
    ASSUME IInv, NEW r \in Runs, Start(r) \/ Open(r) \/ Finish(r) \/ Prune(r) \/ Crash(r)
    PROVE  IInv'
<1> USE DEF IInv
<1>1. TypeOK'
  BY StartTypes, OpenTypes, PruneTypes
<1>2. Onward
  BY OnwardSteps
<1>3. Made' /\ Young'
  BY MadeSteps
<1>4. Superseding'
  BY <1>1, <1>2, RecordingSuperseding, PruningSuperseding
<1>5. Candidates'
  BY <1>1, <1>2, CandidatesSteps
<1>6. Locked'
  BY LockedSteps
<1>7. MaxSize = 0 => Settled'
  BY <1>1, <1>2, SettledSteps
<1>8. QED BY <1>1, <1>3, <1>4, <1>5, <1>6, <1>7

\* ... and after every step.
LEMMA NextInvariant == IInv /\ [Next]_vars => IInv'
<1> SUFFICES ASSUME IInv, [Next]_vars PROVE IInv'
  OBVIOUS
<1>1. CASE Next
  BY <1>1, TickInvariant, StepInvariant DEF Next
<1>2. CASE UNCHANGED vars
  <2>1. UNCHANGED <<clock, pc, started, task, dir, lockfile, meta, owner, prune, made, published>>
    BY <1>2 DEF vars, run, hist
  <2>2. TypeOK' /\ Made' /\ Young'
    BY <2>1 DEF IInv, TypeOK, Made, Young
  <2>3. Superseding' /\ Candidates' /\ Locked' /\ (MaxSize = 0 => Settled')
    BY <2>1 DEF IInv, Superseding, Informed, Superseded, Candidates, Locked, Settled, Old
  <2>4. QED BY <2>2, <2>3 DEF IInv
<1>3. QED BY <1>1, <1>2

\* The inductive invariant holds throughout.
LEMMA Invariance == Spec => []IInv
BY InitInvariant, NextInvariant, PTL DEF Spec

\* Every variable holds values of its kind, and files lie in directories, however
\* many executions there are.
THEOREM TypeCorrect == Spec => []TypeOK
<1>1. IInv => TypeOK
  BY DEF IInv
<1>2. QED BY <1>1, Invariance, PTL

\* A run that is being created, locked or not yet, is never pruned: any number of
\* pruners, both limits.
THEOREM CreatingKept == Spec => []CreatingRunsKept
<1>1. IInv => CreatingRunsKept
  BY DEF IInv, Made, CreatingRunsKept
<1>2. QED BY <1>1, Invariance, PTL

\* Without a size limit no pruner deletes the directory of a run in progress.
THEOREM LiveKept == ASSUME MaxSize = 0 PROVE Spec => []LiveRunsKept
<1>1. IInv => LiveRunsKept
  BY DEF IInv, Locked, Live, LiveRunsKept
<1>2. QED BY <1>1, Invariance, PTL

-----------------------------------------------------------------------------
\* Without a size limit only runs go that are older than the age limit, have no
\* recorder left and were superseded.
THEOREM OnlyExpired == ASSUME MaxSize = 0 PROVE Spec => OnlyExpiredPruned
<1> DEFINE Right == \A r \in Runs : dir[r] /\ ~dir'[r] /\ pc'[r] # "failed" =>
              /\ clock - started[r] > MaxAge
              /\ pc[r] \notin Creating \union Recording
              /\ \E s \in made : s > r /\ TaskOf[s] = TaskOf[r]
<1>1. ASSUME IInv, Next PROVE Right
  <2> SUFFICES ASSUME NEW c \in Runs, dir[c], ~dir'[c], pc'[c] # "failed"
               PROVE  /\ clock - started[c] > MaxAge
                      /\ pc[c] \notin Creating \union Recording
                      /\ \E s \in made : s > c /\ TaskOf[s] = TaskOf[c]
    OBVIOUS
  <2>1. PICK r \in Runs : Start(r) \/ Open(r) \/ Finish(r) \/ Prune(r) \/ Crash(r)
    BY <1>1 DEF Next, Tick, run
  <2>2. Remove(r)
    <3>1. ~Quiet(r)
      BY DEF Quiet
    <3>2. ~(Start(r) \/ CreateLock(r) \/ TakeLock(r) \/ Publish(r) \/ RecordOutcome(r))
      BY <1>1 DEF Start, Begin, MakeTaskDir, WriteTaskInfo, MakeRunDir, CreateLock, TakeLock, Publish,
                  RecordOutcome, run, IInv, TypeOK
    <3>3. ~(LockRefused(r) \/ StartFails(r))
      <4>1. ~AbandonStart(r)
        BY <1>1 DEF AbandonStart, Goto, IInv, TypeOK
      <4>2. QED BY <4>1 DEF LockRefused, StartFails
    <3>4. QED BY <1>1, <2>1, <3>1, <3>2, <3>3, QuietSteps DEF IInv, Open, Finish, Prune
  <2>3. c \in NextToRemove(r)
    BY <1>1, <2>2 DEF Remove, IInv, TypeOK
  <2>4. c \in prune[r].cands /\ Old(r, c)
    BY <2>3 DEF NextToRemove, Expired, Oldest, Old
  <2>5. pc[c] \notin Before /\ Superseded(c) /\ prune[r].now <= clock
    BY <1>1, <2>4 DEF IInv, Settled, Superseding, Informed
  <2>6. clock - started[c] > MaxAge
    BY <1>1, <2>4, <2>5, LimitAssumption DEF Old, IInv, TypeOK
  <2>7. QED BY <2>5, <2>6 DEF Before, Superseded
<1>2. ASSUME UNCHANGED vars PROVE Right
  BY <1>2 DEF vars, run
<1>3. IInv /\ [Next]_vars => [Right]_vars
  BY <1>1, <1>2
<1>4. QED BY <1>3, Invariance, PTL DEF Spec, OnlyExpiredPruned

\* While no file operation fails, a run without its directory was superseded.
LEMMA LatestStep ==
    ASSUME ~MayFail, IInv, IInv', Latest, [Next]_vars PROVE Latest'
<1> SUFFICES ASSUME NEW c \in made', ~dir'[c] PROVE Superseded(c)'
  BY DEF Latest
<1>0. c \in Runs /\ TypeOK /\ Made
  BY DEF IInv, TypeOK
<1>1. CASE UNCHANGED vars
  BY <1>1 DEF vars, run, hist, Latest, Superseded
<1>2. CASE Tick
  BY <1>2 DEF Tick, run, hist, Latest, Superseded
<1>3. ASSUME NEW r \in Runs, Start(r) \/ Open(r) \/ Finish(r) \/ Prune(r) \/ Crash(r)
      PROVE  Superseded(c)'
  <2>1. Superseded(c) => Superseded(c)'
    BY <1>0, <1>3, OnwardSteps DEF Onward, Superseded
  <2>2. CASE Quiet(r)
    BY <2>1, <2>2 DEF Quiet, Latest
  <2>3. CASE Start(r) \/ CreateLock(r) \/ TakeLock(r) \/ Publish(r) \/ RecordOutcome(r)
    <3>1. c \in made /\ ~dir[c]
      BY <1>0, <2>3 DEF Start, Begin, MakeTaskDir, WriteTaskInfo, MakeRunDir, CreateLock, TakeLock, Publish,
                  RecordOutcome, run, hist, TypeOK
    <3>2. QED BY <2>1, <3>1 DEF Latest
  <2>4. CASE StartFails(r)
    BY <1>0, <2>4, Labels DEF StartFails, Made
  <2>5. CASE LockRefused(r)
    <3>1. CASE c = r
      <4>1. owner[r] \notin {NoOwner, r}
        BY <2>5, OwnerAssumption DEF LockRefused, IInv, Locked, Live
      <4>2. QED BY <2>1, <3>1, <4>1 DEF IInv, Superseding
    <3>2. CASE c # r
      BY <1>0, <2>1, <2>5, <3>2 DEF LockRefused, AbandonStart, hist, Latest, TypeOK
    <3>3. QED BY <3>1, <3>2
  <2>6. CASE Remove(r)
    <3>1. PICK d \in NextToRemove(r) : dir' = [dir EXCEPT ![d] = FALSE]
      BY <2>6 DEF Remove
    <3>2. made' = made
      BY <2>6 DEF Remove, hist
    <3>3. CASE c = d
      BY <2>1, <3>3 DEF NextToRemove, Expired, Oldest, IInv, Superseding, Informed
    <3>4. CASE c # d
      BY <1>0, <2>1, <3>1, <3>2, <3>4 DEF Latest, TypeOK
    <3>5. QED BY <3>3, <3>4
  <2>7. QED BY <1>0, <1>3, <2>2, <2>3, <2>4, <2>5, <2>6, QuietSteps DEF Open, Finish, Prune
<1>4. QED BY <1>1, <1>2, <1>3 DEF Next

\* While no file operation fails, the directory of a task's newest run stays,
\* whatever the limits and however many pruners disagree about which run it is.
THEOREM LatestKept == ASSUME ~MayFail PROVE Spec => []LatestDirKept
<1>1. Init => Latest
  BY DEF Init, Latest
<1>2. IInv /\ IInv' /\ Latest /\ [Next]_vars => Latest'
  BY LatestStep
<1>3. IInv /\ Latest => LatestDirKept
  BY RunsAssumption DEF IInv, TypeOK, Latest, Superseded, LatestDirKept, Newest
<1>4. QED BY <1>1, <1>2, <1>3, Invariance, PTL DEF Spec

=============================================================================
