------------------------------ MODULE MCSchedule ------------------------------
(* Three machines that share no state, each run while the others rest:       *)
(* Schedule, with a directory that cron and the shell would both take apart  *)
(* and one that no entry can hold; Weekdays on all day-of-week fields; Entry *)
(* on all short arguments.                                                   *)
EXTENDS Schedule, Weekdays, Entry

CONSTANTS one, other, bad

MCDirs     == {<<"%", "'">>, <<"n", "\n">>}
MCContents == {one, other, bad}
MCValid    == {one, other}
MCCommands == one :> {<<"a", "\\", "%">>, <<"b", " ", "'">>}
                @@ other :> {<<"c", "\\", "'">>, <<"-", "-">>} @@ bad :> {}
MCAlphabet == {"a", " ", "'", "\"", "\\", "%"}

\* The second directory only ever has one content, or none, and so has its record.
OneContentThere ==
    cronrc[<<"n", "\n">>] \in {one, Missing} /\ approved[<<"n", "\n">>] \in {one, NoRecord}

ScheduleRests ==
    /\ cronrc = [d \in Dirs |-> Missing] /\ approved = [d \in Dirs |-> NoRecord]
    /\ sync = NoSync /\ exec = NoExec /\ table = {} /\ ever = {} /\ still = {}
FieldRests == dow = <<>> /\ todo = <<>> /\ expr = <<>>
EntryRests == arg = <<>> /\ form = "none" /\ text = <<>>

MCInit ==
    \/ Init /\ FieldRests /\ EntryRests
    \/ DowInit /\ ScheduleRests /\ EntryRests
    \/ EntryInit /\ ScheduleRests /\ FieldRests

MCNext ==
    \/ FieldRests /\ EntryRests /\ Next /\ UNCHANGED <<fieldVars, entryVars>>
    \/ Normalize /\ UNCHANGED <<vars, entryVars>>
    \/ EntryNext /\ UNCHANGED <<vars, fieldVars>>

MCSpec == MCInit /\ [][MCNext]_<<vars, fieldVars, entryVars>>
=============================================================================
