-------------------------- MODULE BuildsRefinement --------------------------
(* The job directory of Builds keeps the promise of BuildSlots: a number is *)
(* taken when its script is copied, has its outcome when exitcode.txt is    *)
(* written, and is given up when maintenance picks it for removal.          *)
EXTENDS Builds

SlotHolder == [n \in Num |-> IF n \in erased THEN None ELSE script[n]]

SlotResult == [n \in Num |-> IF n \in erased \/ exit[n] = "empty"
                             THEN "none" ELSE exit[n]]

Slots == INSTANCE BuildSlots WITH
    Owners <- Procs \cup {Earlier},
    holder <- SlotHolder,
    result <- SlotResult,
    retired <- erased

\* The processes of Builds, in every interleaving, with errors and kills,
\* take, finish and give up numbers only as BuildSlots allows
\* (job::prepare_build, job::execute, job::cleanup).
ImplementsSlots == Slots!Spec
=============================================================================
