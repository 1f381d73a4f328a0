------------------------------ MODULE MCHistory ------------------------------
(* Instances of History for TLC. *)
EXTENDS History

CONSTANTS a, b

OneTask  == [r \in Runs |-> a]
TwoTasks == [r \in Runs |-> IF r = 1 THEN b ELSE a]

\* The age run looks at one old run and what two later processes make of it.
OneOldRun == \A r \in Runs : r > 1 /\ pc[r] # "new" => started[r] > 0

\* Only the first run fails, and no two processes are dead or unrecorded at once.
FewFailures ==
    /\ \A r \in Runs : r > 1 => pc[r] # "failed" /\ (pc[r] = "close" /\ dir[r] => meta[r] = "finished")
    /\ Cardinality({r \in Runs : pc[r] \in {"failed", "dead"}}) <= 1
=============================================================================
