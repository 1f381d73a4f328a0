------------------------------- MODULE MCGroup --------------------------------
(* Group with two background processes, which differ only in what they ignore *)
(* and close: of two instances that swap them, one is explored.               *)
EXTENDS Group, Naturals

CONSTANTS b1, b2

Trait(b) == (IF b \in deaf THEN 2 ELSE 0) + (IF b \in silent THEN 1 ELSE 0)
OneOfEachPair == Trait(b1) <= Trait(b2)
===============================================================================
