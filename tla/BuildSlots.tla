----------------------------- MODULE BuildSlots -----------------------------
(***************************************************************************)
(* What a job directory promises to the users of its build numbers, with   *)
(* no processes, files or steps in between: a number is taken once, by one *)
(* startjob; it may then get an outcome, once; only a number that has an   *)
(* outcome is ever given up, and a number given up promises nothing more.  *)
(***************************************************************************)
CONSTANTS
    Num,            \* build numbers
    Owners,         \* those who can take a number
    None,           \* the owner of a number nobody has taken
    Outcomes        \* how a build can end

VARIABLES
    holder,         \* holder[n]: who took number n
    result,         \* result[n]: the outcome of n, "none" while it has none
    retired         \* the numbers given up

slotVars == <<holder, result, retired>>

Init ==
    /\ holder \in [Num -> Owners \cup {None}]
    /\ result \in [Num -> Outcomes \cup {"none"}]
    /\ retired = {}
    /\ \A n \in Num : holder[n] = None => result[n] = "none"

Take(n) ==
    /\ n \notin retired
    /\ holder[n] = None
    /\ \E p \in Owners : holder' = [holder EXCEPT ![n] = p]
    /\ UNCHANGED <<result, retired>>

Finish(n) ==
    /\ holder[n] # None
    /\ result[n] = "none"
    /\ \E o \in Outcomes : result' = [result EXCEPT ![n] = o]
    /\ UNCHANGED <<holder, retired>>

Retire(n) ==
    /\ result[n] # "none"
    /\ retired' = retired \cup {n}
    /\ holder' = [holder EXCEPT ![n] = None]
    /\ result' = [result EXCEPT ![n] = "none"]

Next == \E n \in Num : Take(n) \/ Finish(n) \/ Retire(n)

Spec == Init /\ [][Next]_slotVars
=============================================================================
