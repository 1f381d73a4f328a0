--------------------------- MODULE Authorizations ---------------------------
(***************************************************************************)
(* What the authorization store promises, with no files, locks or          *)
(* processes: a map from directories to the outcome of the last change of  *)
(* each, and, for every directory, the outcomes a power loss may still     *)
(* leave behind.  A change is first visible, then settled; once it is      *)
(* settled only a later change of the same directory can replace it.       *)
(* Store.tla is shown to implement this module.                            *)
(***************************************************************************)
CONSTANTS Dirs,       \* tracked directories
          Outcomes    \* what a directory's record can be, absence included

VARIABLES approved,   \* what every command reads
          settled     \* per directory, the outcomes a power loss may leave

vars == <<approved, settled>>

\* Every change leaves one directory's record different and all others alone.
Change(d, o) ==
    /\ approved' = [approved EXCEPT ![d] = o]
    /\ settled'  = [settled EXCEPT ![d] = @ \union {o}]

\* A successful allow or deny: what is visible is now all that can survive.
Settle(d) ==
    /\ settled' = [settled EXCEPT ![d] = {approved[d]}]
    /\ UNCHANGED approved

\* A power loss may undo changes that were not settled, and nothing else.
Lose ==
    /\ approved' \in [Dirs -> Outcomes]
    /\ \A d \in Dirs : approved'[d] \in settled[d]
    /\ UNCHANGED settled

Init ==
    /\ approved \in [Dirs -> Outcomes]
    /\ settled = [d \in Dirs |-> {approved[d]}]

Next ==
    \/ \E d \in Dirs, o \in Outcomes : Change(d, o)
    \/ \E d \in Dirs : Settle(d)
    \/ Lose

Spec == Init /\ [][Next]_vars
=============================================================================
