----------------------------- MODULE MCStartJob ------------------------------
(* Instances of StartJob for TLC: a job with a parameter and one without.     *)
EXTENDS StartJob

CONSTANTS build_all, unit_tests, branch

TwoJobs == {build_all, unit_tests}
OneParam == {branch}
Declared == [j \in TwoJobs |-> IF j = unit_tests THEN OneParam ELSE {}]

Call(j, new, predefined, held) ==
    [job |-> j, new |-> new, predefined |-> predefined,
     given |-> IF predefined THEN OneParam ELSE {}, held |-> held]

\* A plain call, one that opens a session of its own, and one with --params
\* that the script leaves in the background.
Calls == {Call(unit_tests, FALSE, FALSE, TRUE),
          Call(build_all, TRUE, FALSE, TRUE),
          Call(unit_tests, FALSE, TRUE, FALSE)}
=============================================================================
