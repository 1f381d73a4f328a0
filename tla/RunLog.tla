-------------------------------- MODULE RunLog --------------------------------
(***************************************************************************)
(* One recorded run (internal/history/recording.go) and those who look at  *)
(* it while it is written (internal/history/history.go, `task log`, with   *)
(* and without --follow).  Two copier goroutines of os/exec write the      *)
(* task's output through the stream writers into output.log; Finish stores *)
(* the outcome in meta.json and gives up run.lock.  Readers share nothing  *)
(* but the files.                                                          *)
(*                                                                         *)
(* A byte of output is known by its stream, its line and its column, so a  *)
(* stretch of a line is [stream, line, from, to], its columns from + 1 to  *)
(* to.  A record of output.log is the stretch after its prefix.  A run     *)
(* begins here when its metadata is published; History has what precedes.  *)
(***************************************************************************)
EXTENDS Integers, Sequences, Functions

CONSTANTS
    Readers,          \* processes showing or following the run
    Recorder,         \* the process that records the run
    Pruner,           \* the recorder of a later run of the task, which prunes the history
    NoOwner,          \* nobody holds run.lock
    MaxPartialLine,   \* maxPartialLine
    PrefixSize,       \* bytes of a record's prefix
    MaxOutput,        \* StartOptions.MaxOutputBytes, 0 for no limit
    MaxBytes,         \* bound on the bytes the task writes, newlines included
    MayFail           \* whether writing a file may fail

ASSUME NamesAssumption ==
    /\ Recorder \notin Readers /\ Pruner \notin Readers \union {Recorder}
    /\ NoOwner \notin Readers \union {Recorder, Pruner}
ASSUME SizeAssumption ==
    /\ MaxPartialLine \in Nat \ {0} /\ PrefixSize \in Nat /\ MaxOutput \in Nat
    /\ MaxBytes \in Nat /\ MayFail \in BOOLEAN

VARIABLES
    lines,       \* [Streams -> the lengths of the lines written so far, the last one open]
    buf,         \* [Streams -> length of streamWriter.buf, the end of the open line]
    queue,       \* the lines that the holder of Recording.mu has still to store
    log,         \* output.log
    written,     \* Recording.written
    truncated,   \* run.Truncated
    failed,      \* Recording.err, or the outcome could not be stored
    pc,          \* the recorder: "writing", "flush", "release", "closed", "dead"
    meta,        \* meta.json
    stored,      \* the run's directory exists
    owner,       \* who holds the flock on run.lock
    pruner,      \* the pruner: "idle", "probing", "deleting", "done"
    reader       \* [Readers -> the state of a `task log`]

capture == <<lines, buf, queue, log, written, truncated>>
files   == <<meta, stored, owner>>
vars    == <<capture, failed, pc, files, pruner, reader>>

-----------------------------------------------------------------------------
(* Data *)

Streams   == {"out", "err"}
Stretches == [stream : Streams, line : Nat, from : Nat, to : Nat]
Entries   == [stream : Streams \union {"notice", "torn"}, line : Nat, from : Nat, to : Nat]
Notice    == [stream |-> "notice", line |-> 0, from |-> 0, to |-> 0]
Torn(rec) == [rec EXCEPT !.stream = "torn"]

Length(st) == st.to - st.from
Size(rec)  == PrefixSize + Length(rec) + 1

Open(s)   == Len(lines[s])            \* the number of the open line
Column(s) == lines[s][Open(s)]        \* and its length

\* What a task may hand over in one write: the bytes before, between and after
\* its newlines.
Bytes(text) == FoldFunction(+, Len(text) - 1, text)
Texts == {text \in UNION {[1..n -> 0..MaxBytes] : n \in 1..(MaxBytes + 1)} :
             Bytes(text) \in 1..MaxBytes}

Fresh == [pc |-> "idle", final |-> FALSE, status |-> "none", alive |-> FALSE,
          contested |-> FALSE, live |-> TRUE, pos |-> 0]

Init ==
    /\ lines = [s \in Streams |-> <<0>>]
    /\ buf = [s \in Streams |-> 0]
    /\ queue = <<>> /\ log = <<>>
    /\ written = 0 /\ truncated = FALSE /\ failed = FALSE
    /\ pc = "writing"
    /\ meta = [status |-> "running", truncated |-> FALSE]
    /\ stored = TRUE /\ owner = Recorder
    /\ pruner = "idle" /\ reader = [x \in Readers |-> Fresh]

-----------------------------------------------------------------------------
(* The stream writers *)

\* What is buffered of the i-th line that text touches, with text's part of it.
Buffered(s, text, i) ==
    [stream |-> s, line |-> Open(s) + i - 1, from |-> IF i = 1 THEN Column(s) - buf[s] ELSE 0,
     to |-> IF i = 1 THEN Column(s) + text[1] ELSE text[i]]

\* Output that never ends its line is not buffered without bound.
Flushes(rest) == Length(rest) >= MaxPartialLine

\* streamWriter.Write: complete lines are stored, the rest is buffered.
Write(s, text) ==
    LET n    == Len(text)
        rest == Buffered(s, text, n)
    IN  /\ pc = "writing" /\ queue = <<>>
        /\ Bytes(lines["out"]) + Bytes(lines["err"]) + Bytes(text) <= MaxBytes
        /\ lines' = [lines EXCEPT ![s] =
                       [k \in 1..(Open(s) + n - 1) |->
                          IF k < Open(s) THEN @[k]
                          ELSE IF k = Open(s) THEN @[k] + text[1] ELSE text[k - Open(s) + 1]]]
        /\ queue' = [i \in 1..(IF Flushes(rest) THEN n ELSE n - 1) |-> Buffered(s, text, i)]
        /\ buf' = [buf EXCEPT ![s] = IF Flushes(rest) THEN 0 ELSE Length(rest)]
        /\ UNCHANGED <<log, written, truncated, failed, pc, files, pruner, reader>>

\* Mutant: a line is stored in one record, however long.
ChunkWhole(line) == line

\* The next record of a line: at most MaxPartialLine of its bytes.
Chunk(line) ==
    [line EXCEPT !.to = IF Length(line) > MaxPartialLine THEN line.from + MaxPartialLine ELSE line.to]

Unstored(line) ==
    IF Chunk(line) = line THEN <<>> ELSE <<[line EXCEPT !.from = Chunk(line).to]>>

Exceeds(rec) == MaxOutput > 0 /\ written + Size(rec) > MaxOutput

\* Mutant: a record that fits is stored although an earlier one did not.
SilencedByError == failed

\* Nothing is stored after the notice or after an error.
Silenced == failed \/ truncated

\* writeRecordLocked stored the record or notice it was to store, ...
Stores(rec) ==
    IF Silenced THEN UNCHANGED <<log, written, truncated>>
    ELSE IF Exceeds(rec)
      THEN log' = Append(log, Notice) /\ truncated' = TRUE /\ UNCHANGED written
      ELSE log' = Append(log, rec) /\ written' = written + Size(rec) /\ UNCHANGED truncated

\* One round of writeLineLocked.
StoreRecord ==
    /\ queue # <<>> /\ pc \in {"writing", "flush"}
    /\ queue' = Unstored(Head(queue)) \o Tail(queue)
    /\ Stores(Chunk(Head(queue)))
    /\ UNCHANGED <<lines, buf, failed, pc, files, pruner, reader>>

\* ... or could not, and may have stored a part of it.
StoreFails ==
    /\ MayFail /\ queue # <<>> /\ pc \in {"writing", "flush"} /\ ~Silenced
    /\ queue' = Unstored(Head(queue)) \o Tail(queue)
    /\ LET rec == Chunk(Head(queue)) IN
         /\ truncated' = Exceeds(rec)
         /\ log' \in {log, Append(log, Torn(rec))}
    /\ failed' = TRUE
    /\ UNCHANGED <<lines, buf, written, pc, files, pruner, reader>>

-----------------------------------------------------------------------------
(* Finish and Reject *)

\* What flushLocked stores of a stream's buffer.
Flushed(s) ==
    IF buf[s] = 0 THEN <<>>
    ELSE <<[stream |-> s, line |-> Open(s), from |-> Column(s) - buf[s], to |-> Column(s)]>>

\* Mutant: the outcome is stored before the buffers are.
FlushLater ==
    /\ pc = "writing" /\ queue = <<>>
    /\ pc' = "flush"
    /\ UNCHANGED <<capture, failed, files, pruner, reader>>

\* close flushes both buffers, ...
Flush ==
    /\ pc = "writing" /\ queue = <<>>
    /\ pc' = "flush"
    /\ queue' = Flushed("out") \o Flushed("err")
    /\ buf' = [s \in Streams |-> 0]
    /\ UNCHANGED <<lines, log, written, truncated, failed, files, pruner, reader>>

Outcome == [status |-> "finished", truncated |-> truncated]

\* ... stores the outcome ...
StoreOutcome ==
    /\ pc = "flush" /\ queue = <<>>
    /\ \/ meta' = Outcome /\ UNCHANGED failed
       \/ MayFail /\ failed' = TRUE /\ UNCHANGED meta
    /\ pc' = "release"
    /\ UNCHANGED <<capture, stored, owner, pruner, reader>>

\* Mutant: run.lock stays open.
ReleaseNot ==
    /\ pc = "release"
    /\ pc' = "closed"
    /\ UNCHANGED <<capture, failed, files, pruner, reader>>

\* ... and closes output.log and, last, run.lock.
Release ==
    /\ pc = "release"
    /\ owner' = NoOwner
    /\ pc' = "closed"
    /\ UNCHANGED <<capture, failed, meta, stored, pruner, reader>>

\* The recorder is killed: the operating system drops its lock.
Crash ==
    /\ pc \in {"writing", "flush", "release"}
    /\ queue' = <<>>
    /\ owner' = NoOwner
    /\ pc' = "dead"
    /\ UNCHANGED <<lines, buf, log, written, truncated, failed, meta, stored, pruner, reader>>

\* Prune of a later run; if locked() is refused it changes nothing.  Granted,
\* the lock is given back ...
PrunerProbes ==
    /\ pruner = "idle" /\ owner = NoOwner
    /\ pruner' = "probing"
    /\ owner' = Pruner
    /\ UNCHANGED <<capture, failed, pc, meta, stored, reader>>

PrunerUnprobes ==
    /\ pruner = "probing"
    /\ pruner' = "deleting"
    /\ owner' = NoOwner
    /\ UNCHANGED <<capture, failed, pc, meta, stored, reader>>

\* ... and the directory goes, with its lock, from under whoever reads it.
PrunerDeletes ==
    /\ pruner = "deleting"
    /\ pruner' = "done"
    /\ stored' = FALSE /\ owner' = NoOwner
    /\ UNCHANGED <<capture, failed, pc, meta, reader>>

-----------------------------------------------------------------------------
(* `task log` *)

Alive == pc \in {"writing", "flush", "release"}

Set(x, r) == reader' = [reader EXCEPT ![x] = r]

\* readRun answers: Get's caller goes on to the output, Follow's has ended.
Answered(r, status) == [r EXCEPT !.status = status, !.pc = IF r.final THEN "done" ELSE "open"]
Failed(r, status)   == [r EXCEPT !.status = status, !.pc = "done"]

Get(x) ==
    /\ reader[x].pc = "idle"
    /\ Set(x, [reader[x] EXCEPT !.pc = "meta"])
    /\ UNCHANGED <<capture, failed, pc, files, pruner>>

ReadMeta(x) ==
    /\ reader[x].pc = "meta"
    /\ LET r == [reader[x] EXCEPT !.alive = Alive, !.status = "none"] IN
         Set(x, IF ~stored THEN Failed(r, "gone")
                ELSE IF meta.status = "finished" THEN Answered(r, "finished")
                ELSE [r EXCEPT !.pc = "probe"])
    /\ UNCHANGED <<capture, failed, pc, files, pruner>>

\* Mutant: Follow takes a missing lock for a recorder that has yet to take it.
ProbeMissingLive(x) ==
    /\ reader[x].pc \in {"probe", "poll"} /\ ~stored
    /\ Set(x, IF reader[x].pc = "probe" THEN [reader[x] EXCEPT !.pc = "reread"]
              ELSE [reader[x] EXCEPT !.pc = "copy", !.live = TRUE])
    /\ UNCHANGED <<capture, failed, pc, files, pruner>>

\* locked(): run.lock is missing, ...
ProbeMissing(x) ==
    /\ reader[x].pc \in {"probe", "poll"} /\ ~stored
    /\ Set(x, IF reader[x].pc = "probe" THEN [reader[x] EXCEPT !.pc = "reread"]
              ELSE [reader[x] EXCEPT !.pc = "copy", !.live = FALSE])
    /\ UNCHANGED <<capture, failed, pc, files, pruner>>

\* ... or TryLock is refused, ...
ProbeLocked(x) ==
    /\ reader[x].pc \in {"probe", "poll"} /\ stored /\ owner # NoOwner
    /\ Set(x, IF reader[x].pc = "probe"
                THEN [Answered(reader[x], "running") EXCEPT !.contested = (owner # Recorder)]
                ELSE [reader[x] EXCEPT !.pc = "copy", !.live = TRUE])
    /\ UNCHANGED <<capture, failed, pc, files, pruner>>

\* ... or it is granted ...
ProbeFree(x) ==
    /\ reader[x].pc \in {"probe", "poll"} /\ stored /\ owner = NoOwner
    /\ owner' = x
    /\ Set(x, [reader[x] EXCEPT !.pc = IF @ = "probe" THEN "unprobe" ELSE "unpoll"])
    /\ UNCHANGED <<capture, failed, pc, meta, stored, pruner>>

Unlocked(x) == IF owner = x THEN NoOwner ELSE owner

\* ... and given back by closing the file.
Unprobe(x) ==
    /\ reader[x].pc \in {"unprobe", "unpoll"}
    /\ owner' = Unlocked(x)
    /\ Set(x, IF reader[x].pc = "unprobe" THEN [reader[x] EXCEPT !.pc = "reread"]
              ELSE [reader[x] EXCEPT !.pc = "copy", !.live = FALSE])
    /\ UNCHANGED <<capture, failed, pc, meta, stored, pruner>>

\* Mutant: the metadata read before the probe is taken for the last word.
VerdictUnread == "interrupted"

Verdict == IF meta.status = "finished" THEN "finished" ELSE "interrupted"

\* "The recorder may have stored its outcome between the two reads."
ReadMetaAgain(x) ==
    /\ reader[x].pc = "reread"
    /\ Set(x, IF stored THEN Answered(reader[x], Verdict) ELSE Failed(reader[x], "gone"))
    /\ UNCHANGED <<capture, failed, pc, files, pruner>>

OpenOutput(x) ==
    /\ reader[x].pc = "open"
    /\ Set(x, IF stored THEN [reader[x] EXCEPT !.pc = "tail"] ELSE Failed(reader[x], "gone"))
    /\ UNCHANGED <<capture, failed, pc, files, pruner>>

\* The buffer of writeTail's Scanner; err has the longest prefix.
ScanBuffer == MaxPartialLine + PrefixSize + 2

\* writeTail reads to the end of the file, line by line with --tail; with
\* --follow, that is not all.
WriteTail(x) ==
    /\ reader[x].pc = "tail"
    /\ \E follow, tail \in BOOLEAN :
         Set(x, IF tail /\ \E i \in DOMAIN log : Size(log[i]) > ScanBuffer
                  THEN Failed(reader[x], "error")
                  ELSE IF follow THEN [Fresh EXCEPT !.pc = "poll", !.pos = Len(log)]
                  ELSE [reader[x] EXCEPT !.pc = "done", !.pos = Len(log)])
    /\ UNCHANGED <<capture, failed, pc, files, pruner>>

\* Mutant: Follow copies before it probes.
CopiedEarly(x) == IF reader[x].live THEN Len(log) ELSE reader[x].pos

Copied(x) == Len(log)

\* What Follow does between two probes; at rest it may be cancelled.
Copy(x) ==
    /\ reader[x].pc = "copy"
    /\ LET r == [reader[x] EXCEPT !.pos = Copied(x)] IN
         \/ r.live /\ Set(x, [r EXCEPT !.pc = "poll"])
         \/ r.live /\ Set(x, Failed(r, "cancelled"))
         \/ ~r.live /\ Set(x, [r EXCEPT !.pc = "meta", !.final = TRUE])
    /\ UNCHANGED <<capture, failed, pc, files, pruner>>

-----------------------------------------------------------------------------
Capture == (\E s \in Streams, text \in Texts : Write(s, text)) \/ StoreRecord \/ StoreFails
Prune   == PrunerProbes \/ PrunerUnprobes \/ PrunerDeletes
Close   == Flush \/ StoreOutcome \/ Release
Probe(x) == ProbeMissing(x) \/ ProbeLocked(x) \/ ProbeFree(x) \/ Unprobe(x)
Read(x) == ReadMeta(x) \/ Probe(x) \/ ReadMetaAgain(x) \/ OpenOutput(x) \/ WriteTail(x) \/ Copy(x)

Next ==
    \/ Capture \/ Close \/ Crash \/ Prune
    \/ \E x \in Readers : Get(x) \/ Read(x)

Spec == Init /\ [][Next]_vars

\* A reader that has begun goes on, and so does a pruner.
Fairness == (\A x \in Readers : WF_vars(Read(x))) /\ WF_vars(PrunerUnprobes)

FairSpec == Spec /\ Fairness

-----------------------------------------------------------------------------
(* Properties *)

ReaderStates ==
    [pc : {"idle", "meta", "probe", "unprobe", "reread", "open", "tail", "poll", "unpoll", "copy", "done"},
     final : BOOLEAN,
     status : {"none", "running", "finished", "interrupted", "gone", "error", "cancelled"},
     alive : BOOLEAN, contested : BOOLEAN, live : BOOLEAN, pos : Nat]

\* Every variable holds values of its kind, and the recorder holds run.lock
\* for as long as it lives.
TypeOK ==
    /\ lines \in [Streams -> Seq(Nat) \ {<<>>}]
    /\ buf \in [Streams -> Nat]
    /\ \A s \in Streams : buf[s] <= Column(s)
    /\ queue \in Seq(Stretches)
    /\ log \in Seq(Entries)
    /\ written \in Nat /\ truncated \in BOOLEAN /\ failed \in BOOLEAN
    /\ pc \in {"writing", "flush", "release", "closed", "dead"}
    /\ meta \in [status : {"running", "finished"}, truncated : BOOLEAN]
    /\ stored \in BOOLEAN /\ owner \in Readers \union {Recorder, Pruner, NoOwner}
    /\ pruner \in {"idle", "probing", "deleting", "done"}
    /\ reader \in [Readers -> ReaderStates]
    /\ Alive <=> owner = Recorder

\* Record q may follow record r of the same stream: only a line of at least
\* MaxPartialLine bytes goes on in another record, and only after its last
\* byte does the next line begin.
Continues(r, q) ==
    \/ /\ q.line = r.line /\ q.from = r.to
       /\ lines[r.stream][r.line] >= MaxPartialLine
    \/ /\ q.line = r.line + 1 /\ q.from = 0
       /\ r.to = lines[r.stream][r.line]

\* Where the records of a stream are in the log, and the last of some of them.
Records(s)   == {i \in DOMAIN log : log[i].stream = s}
Latest(S, i) == i \in S /\ \A k \in S : k <= i

\* "Every line is also written to the log [...] lines longer than 64 KiB are
\* split across records": at any moment, whatever was truncated, failed or
\* crashed, the records of a stream are its output from the beginning, nothing
\* lost, repeated, reordered or run together, and a shorter line is one record.
\* All of them fit max_run_mb; the notice that there was more ends the log.
RecordsAreTheOutput ==
    /\ \A s \in Streams : \A j \in Records(s) :
         LET before == {i \in Records(s) : i < j} IN
         IF before = {} THEN log[j].line = 1 /\ log[j].from = 0
         ELSE \E i \in before : Latest(before, i) /\ Continues(log[i], log[j])
    /\ MaxOutput > 0 => written <= MaxOutput
    /\ \A i \in DOMAIN log : log[i] = Notice => i = Len(log)

\* All of the stream up to the end of a record.
Ends(r, s) ==
    \/ r.line = Open(s) /\ r.to = Column(s)
    \/ r.line + 1 = Open(s) /\ r.to = lines[s][r.line] /\ Column(s) = 0

\* A run that is recorded as finished, without the mark that its output was
\* truncated and without an error reported, has all of it in its log, to the
\* last byte of a line that was never ended; and the mark is there exactly if
\* the log says so too.
FinishedIsComplete ==
    meta.status = "finished" /\ ~failed =>
        /\ meta.truncated <=> \E i \in DOMAIN log : log[i] = Notice
        /\ meta.truncated \/ \A s \in Streams :
             IF Records(s) = {} THEN Open(s) = 1 /\ Column(s) = 0
             ELSE \E i \in Records(s) : Latest(Records(s), i) /\ Ends(log[i], s)

\* The Scanner of `task log --tail` has room for every record that is stored.
TailNeverFails == \A x \in Readers : reader[x].status # "error"

\* What is shown of a run that has ended is all of it: by a Follow that
\* returns, and by a plain `task log` that calls the run finished or
\* interrupted.
ShownIsComplete ==
    \A x \in Readers :
        \/ reader[x].final
        \/ reader[x].pc = "done" /\ reader[x].status \in {"finished", "interrupted"}
        => reader[x].pos = Len(log)

\* "Interrupted" is said only of a run whose recorder is gone and has left no
\* outcome, although metadata and lock are read at different times; "running"
\* only of one whose recorder was alive when the reader began, or whose lock
\* another reader or a pruner was just probing.
StatusIsTruthful ==
    \A x \in Readers :
        /\ reader[x].status = "interrupted" => ~Alive /\ meta.status = "running"
        /\ reader[x].status = "running" => reader[x].alive \/ reader[x].contested

\* Once the recorder is gone every `task log` ends, with or without --follow,
\* however its probes meet those of the other readers and of the pruner: a probe
\* refuses another, but is the last of a reader to whom the lock is granted.
FollowReturns ==
    \A x \in Readers :
        ~Alive /\ reader[x].pc # "idle" ~> reader[x].pc = "done"

\* The README: "Lines longer than 64 KiB are split across records", no others.
OnlyLongLinesSplit ==
    \A s \in Streams : \A i, j \in Records(s) :
        i < j /\ log[i].line = log[j].line => lines[s][log[i].line] > MaxPartialLine
=============================================================================
