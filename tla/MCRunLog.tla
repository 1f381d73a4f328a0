------------------------------- MODULE MCRunLog -------------------------------
(* One reader of a run with all of MaxBytes, two of a run with a short output: *)
(* MCNext is Next with this bound on when the second begins.                   *)
EXTENDS RunLog

CONSTANTS
    x1, x2,
    MaxShared      \* bound on the output of a run with two readers

MCReaders == {x1, x2}

Short == Bytes(lines["out"]) + Bytes(lines["err"]) <= MaxShared

\* The readers are alike: x1 is the one that begins first.
Second == reader[x1].pc # "idle" /\ Short

MCNext ==
    \/ \E s \in Streams, text \in Texts : Write(s, text) /\ (reader[x2].pc = "idle" \/ Short')
    \/ StoreRecord \/ StoreFails \/ Close \/ Crash \/ Prune
    \/ \E x \in Readers : (Get(x) /\ (x = x1 \/ Second)) \/ Read(x)

MCSpec == Init /\ [][MCNext]_vars /\ Fairness
=============================================================================
