-------------------------------- MODULE Attach --------------------------------
(***************************************************************************)
(* A manual run in the foreground (cmd/cron-person/attach.go): `task run`  *)
(* starts a recorder, `cron-person exec`, and relays its input and its     *)
(* signals until the recorder exits or the user detaches from it.          *)
(*                                                                         *)
(* Three goroutines of the foreground interleave: readInput fills the      *)
(* channel `lines` from the terminal, the select loop of run takes from it *)
(* and from the signal channel, and forwardInput writes what the loop      *)
(* queued to the task's input.  What the user types is a sequence of       *)
(* items; everything downstream is the numbers of items in it.             *)
(***************************************************************************)
EXTENDS Naturals, Sequences, SequencesExt

CONSTANTS
    Interactive,   \* input is a terminal
    Backlog,       \* inputBacklog, the capacity of both channels of lines
    PipeSize,      \* capacity of the pipe that is the task's input, in lines
    MaxTyped,      \* bound on the items the user types
    MaxSignals     \* bound on the signals sent to the foreground

SignalBuffer == 2  \* capacity of the channel given to signal.Notify

ASSUME InteractiveAssumption == Interactive \in BOOLEAN
ASSUME CapacityAssumption    == Backlog \in Nat \ {0} /\ PipeSize \in Nat \ {0}
ASSUME BoundAssumption       == MaxTyped \in Nat /\ MaxSignals \in Nat

VARIABLES
    typed,       \* what the user typed
    read,        \* number of items readInput has read
    ended,       \* readInput: the last item was an end of input
    input,       \* the sending side of `lines`: "open" or "closed"
    taken,       \* number of items the loop has received from `lines`
    listening,   \* the loop's `lines` is not nil
    prompting,   \* the loop awaits the answer to its prompt
    loop,        \* "select", "send" (blocked on forward <- data), "returned"
    result,      \* what the command returned
    signals,     \* the channel of signals
    sent,        \* number of signals sent
    queue,       \* the channel `forward`, with the line forwardInput holds
    stdin,       \* the loop's and forwardInput's end of it: "open",
                 \* "closing" (channel closed), "closed" (pipe closed)
    pipe,        \* the task's input
    got,         \* what the task has read
    child,       \* the recorder: "running", "asked" to terminate, "exited"
    idfile,      \* the run ID file: "none", "empty", "id"
    idstep,      \* the recorder's reportRunID: "todo", "opened", "done"
    answers,     \* history: items taken as answers to a prompt
    early,       \* history: an answer was typed before its prompt was shown
    shown,       \* history: number of items typed when the prompt was shown
    hung         \* history: SIGTERM or SIGHUP reached the foreground

keyboard  == <<typed, read, ended, input>>
forwarder == <<queue, stdin, pipe>>
recorder  == <<child, idfile, idstep>>
control   == <<taken, listening, prompting, loop, result>>
ghost     == <<answers, early, shown, hung>>
vars == <<keyboard, control, signals, sent, forwarder, got, recorder, ghost>>

-----------------------------------------------------------------------------
(* Data *)

\* A line, the line "y" or "yes", Ctrl+D, and a terminal that cannot be read.
Items   == {"text", "yes", "eof", "gone"}
Signals == {"int", "term"}          \* SIGHUP is treated as SIGTERM

Attached   == loop # "returned"
AtSelect   == loop = "select"
LineReady  == taken < read          \* `lines` delivers an item ...
LinesEnded == taken = read /\ input = "closed"   \* ... or is closed
Next1      == taken + 1
Item       == typed[Next1]

Init ==
    /\ typed = <<>> /\ read = 0 /\ ended = FALSE
    /\ input = "open" /\ taken = 0
    /\ listening = Interactive /\ prompting = FALSE
    /\ loop = "select" /\ result = "none"
    /\ signals = <<>> /\ sent = 0
    /\ queue = <<>> /\ stdin = "open" /\ pipe = <<>> /\ got = <<>>
    /\ child = "running" /\ idfile = "empty" /\ idstep = "todo"
    /\ answers = {} /\ early = FALSE /\ shown = 0 /\ hung = FALSE

-----------------------------------------------------------------------------
(* The user *)

Type ==
    /\ Interactive /\ Attached
    /\ Len(typed) < MaxTyped
    /\ ~Contains(typed, "gone")
    /\ typed' \in {Append(typed, k) : k \in Items}
    /\ UNCHANGED <<read, ended, input, control, signals, sent, forwarder, got, recorder, ghost>>

\* signal.Notify does not wait for room in the channel.
Signal ==
    /\ Attached
    /\ sent < MaxSignals
    /\ sent' = sent + 1
    /\ \E s \in Signals :
         /\ signals' = IF Len(signals) < SignalBuffer THEN Append(signals, s) ELSE signals
         /\ hung' = (hung \/ s = "term")
    /\ UNCHANGED <<keyboard, control, forwarder, got, recorder, answers, early, shown>>

-----------------------------------------------------------------------------
(* readInput *)

\* "Only two consecutive ends of input stop reading"; so does a read error.
Final(k) == k = "gone" \/ (k = "eof" /\ ended)

ReadItem ==
    /\ Attached /\ input = "open"
    /\ read < Len(typed)
    /\ LET k == typed[read + 1] IN
         /\ ~Final(k)
         /\ read - taken < Backlog
         /\ ended' = (k = "eof")
    /\ read' = read + 1
    /\ UNCHANGED <<typed, input, control, signals, sent, forwarder, got, recorder, ghost>>

StopReading ==
    /\ Attached /\ input = "open"
    /\ read < Len(typed)
    /\ Final(typed[read + 1])
    /\ input' = "closed"
    /\ UNCHANGED <<typed, read, ended, control, signals, sent, forwarder, got, recorder, ghost>>

-----------------------------------------------------------------------------
(* The select loop *)

Closing == IF stdin = "open" THEN "closing" ELSE stdin     \* closeInput

\* run returns: the process ends, its end of the pipe with it, and the
\* deferred removal of the run ID file is done.
Return(r) ==
    /\ loop' = "returned" /\ result' = r
    /\ prompting' = FALSE
    /\ stdin' = "closed"
    /\ idfile' = "none"

RecorderExited ==
    /\ AtSelect
    /\ child = "exited"
    /\ Return("exited")
    /\ UNCHANGED <<keyboard, taken, listening, signals, sent, queue, pipe, got, child, idstep, ghost>>

\* terminate(): a recorder that is gone is no error.
Asked == IF child = "running" THEN "asked" ELSE child

Answered ==
    /\ taken' = Next1
    /\ answers' = answers \union {Next1}
    /\ early' = (early \/ Next1 <= shown)

AnswerYes ==
    /\ AtSelect /\ prompting
    /\ LineReady /\ Item = "yes"
    /\ Answered
    /\ prompting' = FALSE
    /\ child' = Asked
    /\ UNCHANGED <<keyboard, listening, loop, result, signals, sent, forwarder, got, idfile, idstep, shown, hung>>

\* Anything else detaches, the end of input included.
Detach ==
    /\ AtSelect /\ prompting
    /\ \/ LineReady /\ Item # "yes" /\ Answered
       \/ LinesEnded /\ UNCHANGED <<taken, answers, early>>
    /\ Return("detached")
    /\ UNCHANGED <<keyboard, listening, signals, sent, queue, pipe, got, child, idstep, shown, hung>>

InputEnds ==
    /\ AtSelect /\ listening /\ ~prompting
    /\ \/ LinesEnded /\ listening' = FALSE /\ UNCHANGED taken
       \/ LineReady /\ Item = "eof" /\ taken' = Next1 /\ UNCHANGED listening
    /\ stdin' = Closing
    /\ UNCHANGED <<keyboard, prompting, loop, result, signals, sent, queue, pipe, got, recorder, ghost>>

\* Mutant: a line that finds the queue full is dropped.
TakeLineOrDrop ==
    /\ AtSelect /\ listening /\ ~prompting
    /\ LineReady /\ Item # "eof"
    /\ taken' = Next1
    /\ loop' = IF stdin = "open" /\ Len(queue) < Backlog THEN "send" ELSE loop
    /\ UNCHANGED <<keyboard, listening, prompting, result, signals, sent, forwarder, got, recorder, ghost>>

\* A line; once the task's input was closed there is nowhere to send it.
TakeLine ==
    /\ AtSelect /\ listening /\ ~prompting
    /\ LineReady /\ Item # "eof"
    /\ taken' = Next1
    /\ loop' = IF stdin = "open" THEN "send" ELSE loop
    /\ UNCHANGED <<keyboard, listening, prompting, result, signals, sent, forwarder, got, recorder, ghost>>

\* Mutant: the queue is not bounded.
SendLineUnbounded ==
    /\ loop = "send"
    /\ queue' = Append(queue, taken)
    /\ loop' = "select"
    /\ UNCHANGED <<keyboard, taken, listening, prompting, result, signals, sent, stdin, pipe, got, recorder, ghost>>

\* forward <- data
SendLine ==
    /\ loop = "send"
    /\ Len(queue) < Backlog
    /\ queue' = Append(queue, taken)
    /\ loop' = "select"
    /\ UNCHANGED <<keyboard, taken, listening, prompting, result, signals, sent, stdin, pipe, got, recorder, ghost>>

Prompt ==
    /\ AtSelect /\ listening /\ ~prompting
    /\ signals # <<>> /\ Head(signals) = "int"
    /\ signals' = Tail(signals)
    /\ prompting' = TRUE
    /\ shown' = Len(typed)
    /\ UNCHANGED <<keyboard, taken, listening, loop, result, sent, forwarder, got, recorder, answers, early, hung>>

\* Mutant: nothing but a line ends a prompt.
TerminateUnprompted ==
    /\ AtSelect /\ ~prompting
    /\ signals # <<>>
    /\ Head(signals) = "term" \/ ~listening
    /\ signals' = Tail(signals)
    /\ child' = Asked
    /\ UNCHANGED <<keyboard, control, sent, forwarder, got, idfile, idstep, ghost>>

Terminate ==
    /\ AtSelect
    /\ signals # <<>>
    /\ Head(signals) = "term" \/ ~listening \/ prompting
    /\ signals' = Tail(signals)
    /\ prompting' = FALSE
    /\ child' = Asked
    /\ UNCHANGED <<keyboard, taken, listening, loop, result, sent, forwarder, got, idfile, idstep, ghost>>

-----------------------------------------------------------------------------
(* forwardInput *)

\* Mutant: a write that failed is tried again.
WriteLineRetried ==
    /\ Attached
    /\ queue # <<>> /\ child # "exited"
    /\ Len(pipe) < PipeSize
    /\ pipe' = Append(pipe, Head(queue))
    /\ queue' = Tail(queue)
    /\ UNCHANGED <<keyboard, control, signals, sent, stdin, got, recorder, ghost>>

\* w.Write blocks while the pipe is full and fails once nobody reads it; then
\* the rest of the queue is thrown away.
WriteLine ==
    /\ Attached
    /\ queue # <<>>
    /\ IF child = "exited" THEN UNCHANGED pipe
       ELSE Len(pipe) < PipeSize /\ pipe' = Append(pipe, Head(queue))
    /\ queue' = Tail(queue)
    /\ UNCHANGED <<keyboard, control, signals, sent, stdin, got, recorder, ghost>>

CloseStdin ==
    /\ Attached
    /\ stdin = "closing" /\ queue = <<>>
    /\ stdin' = "closed"
    /\ UNCHANGED <<keyboard, control, signals, sent, queue, pipe, got, recorder, ghost>>

-----------------------------------------------------------------------------
(* The recorder and its task *)

TaskReads ==
    /\ child # "exited"
    /\ pipe # <<>>
    /\ got' = Append(got, Head(pipe))
    /\ pipe' = Tail(pipe)
    /\ UNCHANGED <<keyboard, control, signals, sent, queue, stdin, recorder, ghost>>

\* Mutant: the file is created if it is not there.
OpenIDFileCreating ==
    /\ child # "exited" /\ idstep = "todo"
    /\ idstep' = "opened" /\ idfile' = "empty"
    /\ UNCHANGED <<keyboard, control, signals, sent, forwarder, got, child, ghost>>

\* reportRunID opens the file without creating it ...
OpenIDFile ==
    /\ child # "exited" /\ idstep = "todo"
    /\ idstep' = IF idfile = "none" THEN "done" ELSE "opened"
    /\ UNCHANGED <<keyboard, control, signals, sent, forwarder, got, child, idfile, ghost>>

\* ... and writes to it; by then its name may be gone.
WriteIDFile ==
    /\ child # "exited" /\ idstep = "opened"
    /\ idfile' = IF idfile = "none" THEN "none" ELSE "id"
    /\ idstep' = "done"
    /\ UNCHANGED <<keyboard, control, signals, sent, forwarder, got, child, ghost>>

\* The task ends by itself, or because the recorder was asked to terminate it.
RecorderExits ==
    /\ child # "exited"
    /\ child' = "exited"
    /\ UNCHANGED <<keyboard, control, signals, sent, forwarder, got, idfile, idstep, ghost>>

-----------------------------------------------------------------------------
TakeInput == AnswerYes \/ Detach \/ InputEnds \/ TakeLine
Loop      == RecorderExited \/ TakeInput \/ SendLine \/ Prompt \/ Terminate
Reader    == ReadItem \/ StopReading
Forwarder == WriteLine \/ CloseStdin
Recorder  == TaskReads \/ OpenIDFile \/ WriteIDFile \/ RecorderExits

Next == Type \/ Signal \/ Reader \/ Loop \/ Forwarder \/ Recorder

Spec == Init /\ [][Next]_vars

\* Every goroutine that can run does; the input is finite, so each ready case
\* of the select is chosen in the end.  A recorder that was asked to terminate
\* its task kills it after a grace period.  Nothing makes the task read.
Fairness ==
    /\ WF_vars(Reader) /\ WF_vars(Forwarder)
    /\ WF_vars(RecorderExited) /\ WF_vars(TakeInput) /\ WF_vars(SendLine)
    /\ WF_vars(Prompt \/ Terminate)
    /\ WF_vars(child = "asked" /\ RecorderExits)
FairSpec == Spec /\ Fairness

-----------------------------------------------------------------------------
(* Properties *)

TypeOK ==
    /\ typed \in BoundedSeq(Items, MaxTyped)
    /\ read \in 0..Len(typed) /\ taken \in 0..read
    /\ ended \in BOOLEAN /\ input \in {"open", "closed"}
    /\ listening \in BOOLEAN /\ prompting \in BOOLEAN
    /\ loop \in {"select", "send", "returned"}
    /\ result \in {"none", "exited", "detached"}
    /\ signals \in BoundedSeq(Signals, SignalBuffer) /\ sent \in 0..MaxSignals
    /\ queue \in Seq(1..MaxTyped) /\ Len(queue) <= Backlog
    /\ stdin \in {"open", "closing", "closed"}
    /\ pipe \in Seq(1..MaxTyped) /\ Len(pipe) <= PipeSize
    /\ got \in Seq(1..MaxTyped) /\ Len(got) <= MaxTyped
    /\ child \in {"running", "asked", "exited"}
    /\ idfile \in {"none", "empty", "id"} /\ idstep \in {"todo", "opened", "done"}
    /\ answers \in SUBSET (1..MaxTyped) /\ early \in BOOLEAN
    /\ shown \in 0..MaxTyped /\ hung \in BOOLEAN

\* The items that are the task's: lines typed before the first end of input
\* that ended it, without those that answered a prompt.
TaskLines ==
    {i \in 1..taken : /\ i \notin answers
                      /\ \A j \in 1..i : j \in answers \/ typed[j] # "eof"}

\* "Forwards typed lines to the task": while the foreground is attached to a
\* live recorder, the task gets every line the loop received and no answer, in
\* the order typed, each once, through two bounded channels and a pipe that
\* may all be full; and the end of its input only behind all of that input.
InputInOrder ==
    LET flow == got \o pipe \o queue \o (IF loop = "send" THEN <<taken>> ELSE <<>>)
    IN  /\ Attached /\ child # "exited" =>
             /\ \A i, j \in 1..Len(flow) : i < j => flow[i] < flow[j]
             /\ ToSet(flow) = TaskLines
        /\ Attached /\ stdin = "closed" => queue = <<>> /\ loop # "send"

\* A recorder that is slow to report its run ID never leaves the file behind
\* that a foreground which returned in the meantime has removed.
IDFileRemoved == ~Attached => idfile = "none"

\* A SIGTERM or SIGHUP to the foreground of a task that keeps reading its input
\* is handled, even when signals are dropped and a prompt is open: the task is
\* asked to terminate, or the command ends first.
HangUpHandled == WF_vars(TaskReads) => (hung ~> (child # "running" \/ ~Attached))

\* "Without blocking the signal loop on a task that is not reading": the same
\* for every task.
HangUpHandledUnread == hung ~> (child # "running" \/ ~Attached)

\* A command whose recorder has exited returns, however much input is queued.
CommandReturns == child = "exited" ~> ~Attached

\* "Answers Ctrl+C with a prompt: yes ... terminates the task": only a line
\* typed at the prompt is an answer to it.
AnswersFollowPrompt == ~early

\* "Anything else detaches and leaves it running": what the command said when
\* it detached is true, the task was not told to terminate.
DetachedLeftRunning == result = "detached" => child # "asked"

\* "Writes queued input to the task and closes its input once the queue is
\* closed": detaching loses none of the lines queued before.
QueuedInputDelivered == result = "detached" /\ child = "running" => queue = <<>>
=============================================================================
