------------------------------- MODULE CronText -------------------------------
(***************************************************************************)
(* How an argument of a crontab entry gets from internal/crontab through   *)
(* cron and /bin/sh back to cron-person: quoteCronArg, what cron does to   *)
(* the command of an entry, and the words the shell makes of the rest.     *)
(* Texts are sequences of characters, one-character strings.  Each program *)
(* reads its text once from the left, so each is a function of how much of *)
(* it has been read.                                                       *)
(***************************************************************************)
EXTENDS Integers, Sequences, SequencesExt

Quote     == "'"
Double    == "\""
Backslash == "\\"
Percent   == "%"
Blank     == " "

-----------------------------------------------------------------------------
(* quoteCronArg *)

\* Mutant: adjacent backslashes are kept adjacent.
QuotedCharAdjacent(ch, before) ==
    IF ch = Quote THEN <<Quote, Double, Quote, Double, Quote>>
    ELSE IF ch = Percent THEN <<Quote, Backslash, Percent, Quote>>
    ELSE <<ch>>

\* What a character becomes, given the one before it in the argument.
QuotedChar(ch, before) ==
    IF ch = Quote THEN <<Quote, Double, Quote, Double, Quote>>
    ELSE IF ch = Percent THEN <<Quote, Backslash, Percent, Quote>>
    ELSE IF ch = Backslash /\ before = Backslash THEN <<Quote, Quote, Backslash>>
    ELSE <<ch>>

\* The text written by the time the first i characters of s are read, for each i.
Quoting(s) ==
    LET out[i \in 0..Len(s)] ==
          IF i = 0 THEN <<Quote>>
          ELSE out[i - 1] \o QuotedChar(s[i], IF i = 1 THEN Quote ELSE s[i - 1])
    IN  out

quoteCronArg(s) == Append(Quoting(s)[Len(s)], Quote)

-----------------------------------------------------------------------------
(* cron *)

\* What a cron hands to the shell: an unescaped percent sign ends the command,
\* an escaped one loses its backslash, and so does an escaped backslash under
\* the crons that `collapse` them.
CronStep(collapse, st, ch) ==
    CASE st.mode = "ended" -> st
      [] st.mode = "escaped" ->
           [mode |-> "plain",
            out  |-> IF ch = Percent \/ (collapse /\ ch = Backslash)
                       THEN [st.out EXCEPT ![Len(st.out)] = ch] ELSE Append(st.out, ch)]
      [] st.mode = "plain" ->
           IF ch = Percent THEN [st EXCEPT !.mode = "ended"]
           ELSE [mode |-> IF ch = Backslash THEN "escaped" ELSE "plain", out |-> Append(st.out, ch)]

\* Where cron stands when it has read the first i characters of a line, for each i.
CronReading(collapse, line) ==
    LET st[i \in 0..Len(line)] ==
          IF i = 0 THEN [mode |-> "plain", out |-> <<>>]
          ELSE CronStep(collapse, st[i - 1], line[i])
    IN  st

CronCommand(collapse, line) == CronReading(collapse, line)[Len(line)].out

-----------------------------------------------------------------------------
(* sh *)

\* The words of a command of quoted and unquoted characters: mode is where the
\* next character stands, word what there is of the word it belongs to.
ShellStep(st, ch) ==
    CASE st.mode = "single" ->
           IF ch = Quote THEN [st EXCEPT !.mode = "plain"] ELSE [st EXCEPT !.word = Append(@, ch)]
      [] st.mode = "double" ->
           IF ch = Double THEN [st EXCEPT !.mode = "plain"] ELSE [st EXCEPT !.word = Append(@, ch)]
      [] st.mode = "escape" ->
           [st EXCEPT !.mode = "plain", !.word = Append(@, ch)]
      [] st.mode \in {"between", "plain"} ->
           CASE ch = Quote     -> [st EXCEPT !.mode = "single"]
             [] ch = Double    -> [st EXCEPT !.mode = "double"]
             [] ch = Backslash -> [st EXCEPT !.mode = "escape"]
             [] ch = Blank     -> [mode |-> "between", word |-> <<>>,
                                   words |-> IF st.mode = "between" THEN st.words
                                             ELSE Append(st.words, st.word)]
             [] OTHER          -> [st EXCEPT !.mode = "plain", !.word = Append(@, ch)]

\* Where the shell stands when it has read the first i characters, for each i.
ShellReading(command) ==
    LET st[i \in 0..Len(command)] ==
          IF i = 0 THEN [mode |-> "between", words |-> <<>>, word |-> <<>>]
          ELSE ShellStep(st[i - 1], command[i])
    IN  st

\* The end of the command ends its last word, as a blank would.
ShellWords(command) == ShellReading(Append(command, Blank))[Len(command) + 1].words

-----------------------------------------------------------------------------
\* The arguments of an entry, as GenerateBlock writes them, and as they arrive.
EntryText(dir, command) == quoteCronArg(dir) \o <<Blank>> \o quoteCronArg(command)
Arrives(collapse, line) == ShellWords(CronCommand(collapse, line))
=============================================================================
