------------------------------- MODULE Schedule -------------------------------
(***************************************************************************)
(* From an approval to a process: the authorization store, `crontab sync`  *)
(* (internal/store Schedulable, internal/crontab Preview and               *)
(* GenerateBlock), cron, and the `exec` an entry starts (internal/runner). *)
(* The store is what every process reads of it (Authorizations), syncs     *)
(* exclude each other and install at once (Crontab); here the question is  *)
(* what reaches the crontab and from there a shell, while .cronrc files    *)
(* change and directories are allowed and denied.                          *)
(*                                                                         *)
(* A .cronrc's content stands for its bytes and for the hash of them.      *)
(***************************************************************************)
EXTENDS CronText

CONSTANTS
    Dirs,          \* directory paths, as texts
    Contents,      \* .cronrc contents
    Valid,         \* the contents Parse accepts
    Commands,      \* [Contents -> the commands of its tasks, as texts]
    Missing,       \* no .cronrc, or no regular file
    Unreadable,    \* a .cronrc that cannot be read
    NoRecord,      \* an untracked directory
    Collapse       \* whether this cron turns two backslashes into one

ASSUME ContentsAssumption ==
    /\ Valid \subseteq Contents /\ Missing \notin Contents /\ Unreadable \notin Contents
    /\ NoRecord \notin Contents \union {Missing, Unreadable} /\ Missing # Unreadable

ASSUME TextsAssumption ==
    /\ \A t \in Dirs \union UNION {Commands[v] : v \in Valid} : t \in Seq(ToSet(t))
    /\ Collapse \in BOOLEAN

VARIABLES
    cronrc,     \* [Dirs -> its .cronrc]
    approved,   \* [Dirs -> the content its record in allowed.json names]
    sync,       \* a `crontab sync`
    table,      \* the entries of the installed block
    exec,       \* an `exec` that cron has started
    ever,       \* history: <<directory, content>> pairs that were approved
    still       \* history: directories whose .cronrc and record have stayed as
                \* they were when the running sync loaded the store

vars == <<cronrc, approved, sync, table, exec, ever, still>>

-----------------------------------------------------------------------------
(* Data *)

Files   == Contents \union {Missing, Unreadable}

NoSync == [pc |-> "idle", records |-> [d \in Dirs |-> NoRecord], todo |-> {}, ready |-> {},
           result |-> "none"]
NoExec == [pc |-> "idle", dir |-> <<>>, command |-> <<>>, read |-> Missing, result |-> "none"]

\* unschedulablePathChars
Schedulable(d) == \A i \in DOMAIN d : d[i] \notin {"\r", "\n"}

\* classify; a directory without .cronrc blocks alike, tracked or not.
Status(file, record) ==
    CASE file = Unreadable -> "unreadable"
      [] file = Missing    -> "orphan"
      [] record = NoRecord -> "unauthorized"
      [] file # record     -> "changed"
      [] OTHER             -> "allowed"

Ready(d) == Schedulable(d) /\ Status(cronrc[d], approved[d]) = "allowed" /\ cronrc[d] \in Valid

\* The entries of directories with the contents that were approved for them.
Entries(pairs) == UNION {{EntryText(p[1], c) : c \in Commands[p[2]]} : p \in pairs}

Pairs(records) == {<<d, records[d]>> : d \in {d \in Dirs : records[d] # NoRecord}}

Init ==
    /\ cronrc \in [Dirs -> Files]
    /\ approved = [d \in Dirs |-> NoRecord]
    /\ sync = NoSync /\ exec = NoExec /\ table = {}
    /\ ever = {} /\ still = {}

\* What a step leaves of the histories.
Witness ==
    /\ ever' = ever \union Pairs(approved')
    /\ still' = {d \in still : cronrc'[d] = cronrc[d] /\ approved'[d] = approved[d]}

-----------------------------------------------------------------------------
(* Files and approvals *)

EditCronrc(d, file) ==
    /\ cronrc[d] # file
    /\ cronrc' = [cronrc EXCEPT ![d] = file]
    /\ UNCHANGED <<approved, sync, table, exec>> /\ Witness

\* Mutant: what does not parse is approved too.
AllowUnparsed(d) ==
    /\ Schedulable(d) /\ cronrc[d] \in Contents
    /\ approved' = [approved EXCEPT ![d] = cronrc[d]]
    /\ UNCHANGED <<cronrc, sync, table, exec>> /\ Witness

\* allow approves what it read, if it parses and an entry can hold the path.
Allow(d) ==
    /\ Schedulable(d) /\ cronrc[d] \in Valid
    /\ approved' = [approved EXCEPT ![d] = cronrc[d]]
    /\ UNCHANGED <<cronrc, sync, table, exec>> /\ Witness

\* A path that allow refuses is in the store only if allowed.json was edited.
EditStore(d, v) ==
    /\ ~Schedulable(d)
    /\ approved' = [approved EXCEPT ![d] = v]
    /\ UNCHANGED <<cronrc, sync, table, exec>> /\ Witness

Deny(d) ==
    /\ approved[d] # NoRecord
    /\ approved' = [approved EXCEPT ![d] = NoRecord]
    /\ UNCHANGED <<cronrc, sync, table, exec>> /\ Witness

-----------------------------------------------------------------------------
(* crontab sync *)

\* InspectAll loads the store once ...
BeginSync ==
    /\ sync.pc = "idle"
    /\ sync' = [NoSync EXCEPT !.pc = "inspect", !.records = approved,
                              !.todo = {d \in Dirs : approved[d] # NoRecord}]
    /\ still' = Dirs
    /\ UNCHANGED <<cronrc, approved, table, exec, ever>>

\* Mutant: a .cronrc that changed since it was approved is scheduled as it is.
ReadiedUnchecked(d, file, record) ==
    IF Schedulable(d) /\ file \in Valid THEN {<<d, file>>} ELSE {}

\* ... and reads every directory's .cronrc later, one after the other; assess
\* leaves out what may not run, and the snapshot that was checked is parsed.
Readied(d, file, record) ==
    IF Schedulable(d) /\ Status(file, record) = "allowed" /\ file \in Valid
      THEN {<<d, file>>} ELSE {}

InspectNext ==
    /\ sync.pc = "inspect" /\ sync.todo # {}
    /\ LET d == CHOOSE d \in sync.todo : TRUE IN
         sync' = [sync EXCEPT !.todo = @ \ {d},
                              !.ready = @ \union Readied(d, cronrc[d], sync.records[d])]
    /\ UNCHANGED <<cronrc, approved, table, exec>> /\ Witness

\* GenerateBlock writes an entry for every task of every ready directory.
Install ==
    /\ sync.pc = "inspect" /\ sync.todo = {}
    /\ table' = Entries(sync.ready)
    /\ sync' = [NoSync EXCEPT !.result = "installed"]
    /\ UNCHANGED <<cronrc, approved, exec>> /\ Witness

\* The store, crontab(1) or a path fails; what is installed stays.
SyncFails ==
    /\ sync.pc = "inspect"
    /\ sync' = [NoSync EXCEPT !.result = "failed"]
    /\ UNCHANGED <<cronrc, approved, table, exec>> /\ Witness

Uninstall ==
    /\ sync.pc = "idle" /\ table # {}
    /\ table' = {}
    /\ UNCHANGED <<cronrc, approved, sync, exec>> /\ Witness

-----------------------------------------------------------------------------
(* cron and exec *)

\* cron starts an entry: exec takes its first argument for the directory, passes
\* over "--" before the command, and joins the others with blanks.
Dashes == <<"-", "-">>
Joined(words) ==
    LET out[i \in 1..Len(words)] ==
          IF i = 1 THEN words[1] ELSE out[i - 1] \o <<Blank>> \o words[i]
    IN  out[Len(words)]

Fire(line) ==
    /\ exec.pc = "idle" /\ line \in table
    /\ LET words == Arrives(Collapse, line)
           rest  == IF words[2] = Dashes THEN Tail(Tail(words)) ELSE Tail(words)
       IN  exec' = IF Len(words) < 2 \/ rest = <<>> THEN [NoExec EXCEPT !.result = "refused"]
                   ELSE [NoExec EXCEPT !.pc = "read", !.dir = words[1], !.command = Joined(rest)]
    /\ UNCHANGED <<cronrc, approved, sync, table>> /\ Witness

\* Inspect reads the .cronrc of the directory, then the store.
ReadCronrc ==
    /\ exec.pc = "read"
    /\ exec' = [exec EXCEPT !.pc = "check",
                            !.read = IF exec.dir \in Dirs THEN cronrc[exec.dir] ELSE Missing]
    /\ UNCHANGED <<cronrc, approved, sync, table>> /\ Witness

MayStart ==
    /\ exec.dir \in Dirs /\ Status(exec.read, approved[exec.dir]) = "allowed"
    /\ exec.read \in Valid

\* prepare: the command is started or the run recorded as blocked.
CheckAndStart ==
    /\ exec.pc = "check"
    /\ exec' = [exec EXCEPT !.pc = "ended", !.result = IF MayStart THEN "started" ELSE "blocked"]
    /\ UNCHANGED <<cronrc, approved, sync, table>> /\ Witness

Ended ==
    /\ exec.pc = "ended"
    /\ exec' = NoExec
    /\ UNCHANGED <<cronrc, approved, sync, table>> /\ Witness

-----------------------------------------------------------------------------
Authorize ==
    \E d \in Dirs :
        \/ Allow(d) \/ Deny(d)
        \/ \E v \in Valid : EditStore(d, v)
        \/ \E file \in Files : EditCronrc(d, file)
Sync      == BeginSync \/ InspectNext \/ Install \/ SyncFails
Exec      == (\E line \in table : Fire(line)) \/ ReadCronrc \/ CheckAndStart \/ Ended

Next == Authorize \/ Sync \/ Uninstall \/ Exec

Spec == Init /\ [][Next]_vars

-----------------------------------------------------------------------------
(* Properties *)

TypeOK ==
    /\ cronrc \in [Dirs -> Files] /\ approved \in [Dirs -> Valid \union {NoRecord}]
    /\ sync \in [pc : {"idle", "inspect"}, records : [Dirs -> Valid \union {NoRecord}],
                 todo : SUBSET Dirs, ready : SUBSET (Dirs \X Valid),
                 result : {"none", "installed", "failed"}]
    /\ ever \subseteq Dirs \X Valid /\ still \subseteq Dirs
    /\ exec \in [pc : {"idle", "read", "check", "ended"}, dir : {exec.dir},
                 command : {exec.command}, read : Files,
                 result : {"none", "refused", "started", "blocked"}]

\* What cron starts in a directory is, character for character, a command of a
\* .cronrc that was approved for that directory, although entries outlive the
\* approval they come from and the file and the approval may both have changed
\* since.  exec itself checks the .cronrc of the moment, not where the command
\* it was given comes from.
StartsOnlyApproved ==
    exec.result = "started" =>
        \E p \in ever : p[1] = exec.dir /\ exec.command \in Commands[p[2]]

\* A sync installs the entries of exactly the directories whose tasks may run:
\* of one that was left alone while it worked, all of them if its approved
\* .cronrc is in place, and none otherwise (README.md:41).
EntriesOf(d) == {EntryText(d, c) : c \in UNION {Commands[v] : v \in Valid}}

SyncIsExact ==
    [][sync.pc = "inspect" /\ sync'.result = "installed" =>
         \A d \in still :
            table' \intersect EntriesOf(d)
              = IF Ready(d) THEN Entries({<<d, cronrc[d]>>}) ELSE {}]_vars
=============================================================================
