------------------------------- MODULE MCStore -------------------------------
(* Instances of Store for TLC. *)
EXTENDS Store, TLC

\* Processes and directories are interchangeable in the safety runs.
Symmetry     == Permutations(Procs) \union Permutations(Dirs)
ProcSymmetry == Permutations(Procs)

\* In the runs about changes every .cronrc stays as it is and nobody inspects:
\* neither disturbs the store.
ChangesOnly ==
    /\ \A d \in Dirs : cronrc[d] \in [text : Contents]
    /\ \A p \in Procs : job[p].op # "inspect"
=============================================================================
