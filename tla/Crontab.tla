------------------------------- MODULE Crontab -------------------------------
(***************************************************************************)
(* `crontab sync` and `crontab uninstall` (internal/crontab/crontab.go):   *)
(* the read-modify-write of the user's crontab through crontab(1), by      *)
(* several cron-person processes that share a state directory, while       *)
(* directories are allowed and denied and the user edits the crontab.      *)
(*                                                                         *)
(* The crontab is a sequence of lines: the user's own, by the number of    *)
(* the edit that wrote them, blank ones, the two markers, and the entries  *)
(* generated from one version of the store, as a line.  `crontab -` is a   *)
(* child process of its own: it installs what it has read from its pipe    *)
(* when the pipe closes, whether or not the process that started it is     *)
(* still there.                                                            *)
(***************************************************************************)
EXTENDS Integers, FiniteSets, SequencesExt

CONSTANTS
    Procs,        \* concurrent cron-person processes
    NoProc,       \* nobody holds crontab.lock
    MaxVersion,   \* bound on changes of the authorization store
    MaxEdits,     \* bound on edits of the crontab by its user
    MaxKills      \* bound on kills while a `crontab -` runs

ASSUME NoProcAssumption == NoProc \notin Procs
ASSUME BoundAssumption  == MaxVersion \in Nat \ {0} /\ MaxEdits \in Nat /\ MaxKills \in Nat

VARIABLES
    store,     \* version of the authorization store
    table,     \* the installed crontab
    lock,      \* holder of crontab.lock
    pc,        \* [Procs -> the next call of the process]
    op,        \* [Procs -> "sync" or "uninstall"]
    block,     \* [Procs -> managedBlock, from Preview]
    text,      \* [Procs -> the crontab read, then the one to install]
    child,     \* [Procs -> the `crontab -` the process started]
    need,      \* history: the store version when the process began
    due,       \* history: the version the installed block must reach
    personal,  \* history: the user's lines as the user last left them
    edits,     \* history: how often the user edited the crontab
    raced,     \* history: an edit was made during an update
    killed     \* history: where cron-person was killed with a `crontab -` running

own   == <<pc, op, block, text, child>>
ghost == <<need, due, personal, edits, raced, killed>>
vars  == <<store, table, lock, own, ghost>>

-----------------------------------------------------------------------------
(* Data *)

Line(kind, n) == [kind |-> kind, n |-> n]
Blank      == Line("blank", 0)
BlockStart == Line("start", 0)
BlockEnd   == Line("end", 0)
Lines      == [kind : {"user", "entry", "blank", "start", "end"}, n : Nat]

NoBlock  == 0
Block(v) == IF v = NoBlock THEN <<>> ELSE <<BlockStart, Line("entry", v), BlockEnd>>

Idle   == [state |-> "none", input |-> <<>>]
Update == {"preview", "read", "merge", "spawn", "feed", "wait", "unlock"}
Installing == {"feed", "wait"}
PCs    == {"off", "lock"} \union Update

At(t, line)  == {i \in DOMAIN t : t[i] = line}
HasBlock(t)  == At(t, BlockStart) # {}

\* Mutant: an end marker is found without looking for more of them.
WellFormedLoosely(t) ==
    \/ At(t, BlockStart) = {}
    \/ \E i \in At(t, BlockStart), j \in At(t, BlockEnd) : i < j /\ At(t, BlockStart) = {i}

\* RemoveBlock refuses a crontab unless it has no marker or one block.
WellFormed(t) ==
    \/ At(t, BlockStart) = {} /\ At(t, BlockEnd) = {}
    \/ \E i, j \in DOMAIN t : i < j /\ At(t, BlockStart) = {i} /\ At(t, BlockEnd) = {j}

\* It takes the block out from marker to marker, and nothing else.
RemoveBlock(t) ==
    IF ~HasBlock(t) THEN t
    ELSE LET start == CHOOSE i \in DOMAIN t : t[i] = BlockStart
             end   == CHOOSE j \in DOMAIN t : t[j] = BlockEnd
         IN  SubSeq(t, 1, start - 1) \o SubSeq(t, end + 1, Len(t))

\* Mutant: the blank lines an earlier block leaves behind pile up.
TrimmedNot(t) == t

\* strings.TrimRight of line ends.
Trimmed(t) ==
    SubSeq(t, 1, CHOOSE n \in 0..Len(t) :
                     /\ \A i \in (n + 1)..Len(t) : t[i] = Blank
                     /\ n > 0 => t[n] # Blank)

MergeCrontab(t, managed) ==
    LET cleaned == Trimmed(RemoveBlock(t)) IN
    IF cleaned = <<>> THEN managed ELSE cleaned \o <<Blank>> \o managed

Updated(p) == IF op[p] = "sync" THEN MergeCrontab(text[p], Block(block[p])) ELSE RemoveBlock(text[p])

\* What is the user's in a crontab: everything outside the markers, but for line
\* ends behind it.
Personal(t) == Trimmed(IF WellFormed(t) THEN RemoveBlock(t) ELSE t)

\* The version of the store a whole block was generated from.
Generated(t) ==
    {i \in DOMAIN t : /\ t[i].kind = "entry"
                      /\ \E s \in At(t, BlockStart), e \in At(t, BlockEnd) : s < i /\ i < e}
Version(t) ==
    LET v == {t[i].n : i \in Generated(t)} IN
    IF WellFormed(t) /\ v # {} THEN CHOOSE n \in v : \A m \in v : n <= m ELSE NoBlock

Goto(p, label) == pc' = [pc EXCEPT ![p] = label]

Init ==
    /\ store = 1
    /\ table = <<Line("user", 1)>> /\ personal = table
    /\ lock = NoProc
    /\ pc = [p \in Procs |-> "off"]
    /\ op = [p \in Procs |-> "sync"]
    /\ block = [p \in Procs |-> NoBlock]
    /\ text = [p \in Procs |-> <<>>]
    /\ child = [p \in Procs |-> Idle]
    /\ need = [p \in Procs |-> 0]
    /\ due = 0 /\ edits = 1 /\ raced = FALSE /\ killed = {}

-----------------------------------------------------------------------------
(* Sync and Uninstall *)

\* Mutant: the lock leaks.
ReleasedNever(p) == lock

Released(p) == IF lock = p THEN NoProc ELSE lock

\* The command ends, and its lock with it.
Exit(p) ==
    /\ Goto(p, "off")
    /\ lock' = Released(p)
    /\ op' = [op EXCEPT ![p] = "sync"]
    /\ block' = [block EXCEPT ![p] = NoBlock]
    /\ text' = [text EXCEPT ![p] = <<>>]
    /\ need' = [need EXCEPT ![p] = 0]

Begin(p) ==
    /\ pc[p] = "off" /\ child[p] = Idle
    /\ op' \in {[op EXCEPT ![p] = o] : o \in {"sync", "uninstall"}}
    /\ need' = [need EXCEPT ![p] = store]
    /\ Goto(p, "lock")
    /\ UNCHANGED <<store, table, lock, block, text, child, due, personal, edits, raced, killed>>

\* Mutant: updates are not serialized.
MayLockAlways(p) == TRUE

MayLock(p) == lock = NoProc

\* lockUpdates; Uninstall goes straight to the crontab.
Lock(p) ==
    /\ pc[p] = "lock"
    /\ MayLock(p)
    /\ lock' = p
    /\ Goto(p, IF op[p] = "sync" THEN "preview" ELSE "read")
    /\ UNCHANGED <<store, table, op, block, text, child, ghost>>

\* Preview loads the store once, under the lock.
Preview(p) ==
    /\ pc[p] = "preview"
    /\ block' = [block EXCEPT ![p] = store]
    /\ Goto(p, "read")
    /\ UNCHANGED <<store, table, lock, op, text, child, ghost>>

\* Mutant: a `crontab -l` that fails counts as no crontab.
ReadSystemCrontabLoosely(p) ==
    /\ pc[p] = "read"
    /\ text' \in {[text EXCEPT ![p] = t] : t \in {table, <<>>}}
    /\ Goto(p, "merge")
    /\ UNCHANGED <<store, table, lock, op, block, child, ghost>>

ReadSystemCrontab(p) ==
    /\ pc[p] = "read"
    /\ text' = [text EXCEPT ![p] = table]
    /\ Goto(p, "merge")
    /\ UNCHANGED <<store, table, lock, op, block, child, ghost>>

Merge(p) ==
    /\ pc[p] = "merge"
    /\ WellFormed(text[p])
    /\ text' = [text EXCEPT ![p] = Updated(p)]
    /\ Goto(p, "spawn")
    /\ UNCHANGED <<store, table, lock, op, block, child, ghost>>

\* WriteSystemCrontab starts `crontab -` ...
Spawn(p) ==
    /\ pc[p] = "spawn"
    /\ child' = [child EXCEPT ![p] = [state |-> "reading", input |-> <<>>]]
    /\ Goto(p, "feed")
    /\ UNCHANGED <<store, table, lock, op, block, text, ghost>>

\* ... writes the text into its pipe and closes it ...
Feed(p) ==
    /\ pc[p] = "feed"
    /\ child' = [child EXCEPT ![p] = [state |-> "closed", input |-> text[p]]]
    /\ Goto(p, "wait")
    /\ UNCHANGED <<store, table, lock, op, block, text, ghost>>

\* ... and waits for it to end.
Wait(p) ==
    /\ pc[p] = "wait"
    /\ child[p] = Idle
    /\ Goto(p, "unlock")
    /\ UNCHANGED <<store, table, lock, op, block, text, child, ghost>>

Unlock(p) ==
    /\ pc[p] = "unlock"
    /\ Exit(p)
    /\ UNCHANGED <<store, table, child, due, personal, edits, raced, killed>>

\* Preview, `crontab -l`, the merge or the start of `crontab -` fails; a
\* malformed crontab always fails the merge.
Fail(p) ==
    /\ pc[p] \in {"lock", "preview", "read", "merge", "spawn"}
    /\ Exit(p)
    /\ UNCHANGED <<store, table, child, due, personal, edits, raced, killed>>

\* A killed process closes its end of the pipe, whatever it had written by then.
Kill(p) ==
    /\ pc[p] # "off"
    /\ pc[p] \in Installing => Cardinality(killed) < MaxKills
    /\ killed' = killed \union ({pc[p]} \cap Installing)
    /\ IF child[p].state = "reading"
         THEN \E n \in 0..Len(text[p]) :
                child' = [child EXCEPT ![p] = [state |-> "closed", input |-> SubSeq(text[p], 1, n)]]
         ELSE UNCHANGED child
    /\ Exit(p)
    /\ UNCHANGED <<store, table, due, personal, edits, raced>>

-----------------------------------------------------------------------------
(* crontab(1), the store and the user *)

\* A sync that will report success leaves a block no older than what the store
\* held when it began; taking the block out or breaking it lifts that.
ChildInstalls(p) ==
    /\ child[p].state = "closed"
    /\ table' = child[p].input
    /\ child' = [child EXCEPT ![p] = Idle]
    /\ due' = IF Version(table') = NoBlock THEN 0
              ELSE IF pc[p] = "wait" /\ need[p] > due THEN need[p] ELSE due
    /\ UNCHANGED <<store, lock, pc, op, block, text, need, personal, edits, raced, killed>>

ChildFails(p) ==
    /\ child[p].state = "closed"
    /\ pc[p] = "wait"
    /\ child' = [child EXCEPT ![p] = Idle]
    /\ Exit(p)
    /\ UNCHANGED <<store, table, due, personal, edits, raced, killed>>

\* An allow or a deny.
Authorize ==
    /\ store < MaxVersion
    /\ store' = store + 1
    /\ UNCHANGED <<table, lock, own, ghost>>

\* An update is in flight between its `crontab -l` and its `crontab -`.
InFlight(p) == pc[p] \in {"merge", "spawn", "feed", "wait"} \/ child[p] # Idle

\* The user adds a line before or after the block, takes the block out, damages
\* it by taking out a marker, or pastes it a second time.
Edits(t, n) ==
    {<<Line("user", n)>> \o t, t \o <<Line("user", n)>>, t \o Block(1)}
      \union {RemoveAt(t, i) : i \in At(t, BlockStart) \union At(t, BlockEnd)}
      \union (IF WellFormed(t) THEN {RemoveBlock(t)} ELSE {})

EditCrontab ==
    /\ edits <= MaxEdits
    /\ edits' = edits + 1
    /\ table' \in Edits(table, edits + 1) \ {table}
    /\ personal' = Personal(table')
    /\ due' = IF Version(table') = Version(table) THEN due ELSE 0
    /\ raced' = (raced \/ \E p \in Procs : InFlight(p))
    /\ UNCHANGED <<store, lock, own, need, killed>>

-----------------------------------------------------------------------------
UpdateStep(p) == Preview(p) \/ ReadSystemCrontab(p) \/ Merge(p) \/ Spawn(p) \/ Feed(p) \/ Wait(p)
                   \/ Unlock(p)
External(p) == ChildInstalls(p) \/ ChildFails(p)

Next ==
    \/ \E p \in Procs : Begin(p) \/ Lock(p) \/ UpdateStep(p) \/ Fail(p) \/ Kill(p) \/ External(p)
    \/ Authorize
    \/ EditCrontab

Spec == Init /\ [][Next]_vars

-----------------------------------------------------------------------------
(* Properties *)

\* Every variable holds values of its kind, and the lock is held exactly while
\* an update is under way.
TypeOK ==
    /\ store \in 1..MaxVersion
    /\ table \in Seq(Lines) /\ personal \in Seq(Lines)
    /\ lock \in Procs \union {NoProc}
    /\ pc \in [Procs -> PCs]
    /\ op \in [Procs -> {"sync", "uninstall"}]
    /\ block \in [Procs -> 0..MaxVersion]
    /\ text \in [Procs -> Seq(Lines)]
    /\ child \in [Procs -> [state : {"none", "reading", "closed"}, input : Seq(Lines)]]
    /\ need \in [Procs -> 0..MaxVersion]
    /\ due \in 0..MaxVersion /\ edits \in 1..(MaxEdits + 1) /\ raced \in BOOLEAN /\ killed \in SUBSET Installing
    /\ \A p \in Procs : pc[p] \in Update <=> lock = p

\* "The last one installs the newest authorizations": once a sync has
\* succeeded, no update of any process ever puts back a block generated from
\* an older store, until the block is uninstalled or edited by hand; a kill
\* changes that only while a `crontab -` of the killed process is running.
NewestStaysInstalled == killed = {} /\ due > 0 => Version(table) >= due

\* The same wherever a cron-person is killed: its `crontab -` goes on without
\* the lock.
NewestSurvivesKills == due > 0 => Version(table) >= due

\* "Without modifying existing personal cron jobs": whatever is outside the
\* markers stays as the user left it, line by line and in order, through every
\* sync and uninstall, unless the user edits during an update; a kill changes
\* that only while `crontab -` is fed.
UserLinesKept == "feed" \notin killed /\ ~raced => Personal(table) = personal

\* The same wherever a cron-person is killed.
UserLinesSurviveKills == ~raced => Personal(table) = personal

\* An update that reads a crontab whose markers do not match writes nothing over
\* it, so a damaged block is left for its user to repair. Two things end this:
\* an edit between the `crontab -l` and the `crontab -` of an update, since
\* damage done then is overwritten unread, and a kill while `crontab -` is fed,
\* which may install half a block. Nothing is claimed from then on.
MalformedNotReplaced ==
    [][~WellFormed(table) /\ ~raced /\ "feed" \notin killed /\ table' # table
          => edits' # edits]_vars

\* Syncing again changes nothing but the entries: blocks and blank lines do not
\* pile up, wherever between the user's lines the block was.
SyncSettles ==
    WellFormed(table) =>
        LET once == MergeCrontab(table, Block(store)) IN
        /\ WellFormed(once) /\ Personal(once) = Personal(table)
        /\ MergeCrontab(once, Block(store)) = once
=============================================================================
