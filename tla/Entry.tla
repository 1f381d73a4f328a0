-------------------------------- MODULE Entry --------------------------------
(***************************************************************************)
(* One entry of the installed block on its way to cron-person's arguments: *)
(* GenerateBlock writes it, one of the two kinds of cron hands it to the   *)
(* shell, and the shell takes it apart (CronText).                         *)
(***************************************************************************)
EXTENDS CronText

CONSTANTS QuotingAlphabet, QuotingLength    \* bounds of the arguments explored

ASSUME QuotingAssumption == QuotingLength \in Nat

VARIABLES
    arg,      \* a directory, and a command, as cron-person knows them
    form,     \* how far they have come: "argument", "line", "command", "words"
    text      \* what they are now

entryVars == <<arg, form, text>>

EntryInit ==
    /\ arg \in BoundedSeq(QuotingAlphabet, QuotingLength)
    /\ form = "argument" /\ text = arg

Generate ==
    /\ form = "argument"
    /\ text' = EntryText(arg, arg) /\ form' = "line"
    /\ UNCHANGED arg

Cron ==
    /\ form = "line"
    /\ \E collapse \in BOOLEAN : text' = CronCommand(collapse, text)
    /\ form' = "command"
    /\ UNCHANGED arg

Shell ==
    /\ form = "command"
    /\ text' = ShellWords(text) /\ form' = "words"
    /\ UNCHANGED arg

EntryNext == Generate \/ Cron \/ Shell

EntrySpec == EntryInit /\ [][EntryNext]_entryVars

-----------------------------------------------------------------------------
(* Properties *)

\* Whatever cron hands to the shell, and whichever cron it is, an argument that
\* is quoted arrives as it was written: one word, every character of it.
QuotingRoundTrips == form = "words" => text = <<arg, arg>>
=============================================================================
