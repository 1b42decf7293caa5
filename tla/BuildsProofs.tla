---------------------------- MODULE BuildsProofs ----------------------------
(***************************************************************************)
(* Proofs about Builds for every number of processes, every limit and every *)
(* set of earlier builds, with errors and kills.                            *)
(*                                                                          *)
(* Everything rests on one inductive invariant about the numbers that are   *)
(* not yet erased: the startjob that copied the script owns the directory   *)
(* and its exit code until it ends, and the maps a maintenance process has  *)
(* built from its stale listing still agree with the exit codes on disk.    *)
(***************************************************************************)
EXTENDS BuildsRefinement, FiniteSetTheorems, TLAPS

-----------------------------------------------------------------------------
(* The inductive invariant.                                                *)

\* The winner of a number finds its script and the exit code it left.
Owned ==
    \A p \in Procs : Holds(p) /\ num[p] \notin erased =>
        /\ Intact(p)
        /\ exit[num[p]] = IF pc[p] = "exiting" THEN "empty" ELSE "none"

\* A directory without a script has no exit code.
NoScriptNoExit == \A n \in Num \ erased : script[n] = None => exit[n] = "none"

\* What maintenance has read of a build is still true.
ReadsHold ==
    \A p \in Procs : \A o \in Outcomes : \A n \in kept[p][o] \ erased : exit[n] = o

\* Whoever removes a directory has given up its number first.
GivenUpFirst ==
    \A p \in Procs : cleaner[p] \in {"unlink", "rmdir"} => victim[p] \in erased

IInv == TypeOK /\ Owned /\ NoScriptNoExit /\ ReadsHold /\ GivenUpFirst

-----------------------------------------------------------------------------
(* Type correctness.                                                       *)

LEMMA InitTypeOK == Init => TypeOK
<1> USE LimitsAssumption, ProcsAssumption
<1> QED BY DEF Init, TypeOK, Recognised, Num, Outcomes, ExitFile, StartPC, CleanPC

\* Every step of a startjob keeps the types.
LEMMA StartTypeOK ==
    ASSUME TypeOK, NEW p \in Procs, StartJob(p) \/ Abort(p)
    PROVE  TypeOK'
<1> USE LimitsAssumption DEF TypeOK, Num, Recognised, StartPC, Moves,
        dirVars, cleanVars, histVars
<1>1. CASE ListBuilds(p) BY <1>1 DEF ListBuilds
<1>2. CASE MakeDir(p) BY <1>2 DEF MakeDir
<1>3. CASE CopyScript(p) BY <1>3 DEF CopyScript
<1>4. CASE CopyRefused(p) BY <1>4 DEF CopyRefused
<1>5. CASE FillDir(p) BY <1>5 DEF FillDir
<1>6. CASE FillRefused(p) BY <1>6 DEF FillRefused
<1>7. CASE Launch(p) BY <1>7 DEF Launch
<1>8. CASE LaunchRefused(p) BY <1>8 DEF LaunchRefused
<1>9. CASE OpenExitFile(p) BY <1>9 DEF OpenExitFile, ExitFile
<1>10. CASE OpenRefused(p) BY <1>10 DEF OpenRefused
<1>11. CASE WriteExitCode(p) BY <1>11 DEF WriteExitCode, ExitFile
<1>12. CASE SpawnMaintenance(p) BY <1>12 DEF SpawnMaintenance, CleanPC
<1>13. CASE Abort(p) BY <1>13 DEF Abort
<1> QED BY <1>1, <1>2, <1>3, <1>4, <1>5, <1>6, <1>7, <1>8, <1>9, <1>10,
           <1>11, <1>12, <1>13 DEF StartJob

\* Every step of a maintenance process keeps the types.
LEMMA CleanTypeOK ==
    ASSUME TypeOK, NEW p \in Procs, Maintenance(p) \/ CleanAbort(p)
    PROVE  TypeOK'
<1> USE LimitsAssumption DEF TypeOK, Num, Recognised, CleanPC, Cleans,
        dirVars, startVars, histVars
<1>1. CASE ListDir(p) BY <1>1 DEF ListDir
<1>2. CASE ReadExitCode(p) BY <1>2 DEF ReadExitCode
<1>3. CASE PickVictim(p) BY <1>3 DEF PickVictim
<1>4. CASE Unlink(p) BY <1>4 DEF Unlink, cleanVars, ExitFile
<1>5. CASE Unlinked(p) BY <1>5 DEF Unlinked
<1>6. CASE RemoveDir(p) BY <1>6 DEF RemoveDir, Forget
<1>7. CASE RemoveRefused(p) BY <1>7 DEF RemoveRefused
<1>8. CASE VictimGone(p)
  <2>1. CASE Cleans(p, "unlink", "scan") /\ Forget(p)
    BY <1>8, <2>1 DEF VictimGone, Forget
  <2>2. CASE Cleans(p, "unlink", "failed") /\ UNCHANGED kept
    BY <1>8, <2>2 DEF VictimGone
  <2> QED BY <1>8, <2>1, <2>2 DEF VictimGone
<1>9. CASE CleanDone(p) BY <1>9 DEF CleanDone
<1>10. CASE CleanAbort(p) BY <1>10 DEF CleanAbort
<1> QED BY <1>1, <1>2, <1>3, <1>4, <1>5, <1>6, <1>7, <1>8, <1>9, <1>10
        DEF Maintenance

\* Builds is well typed in every reachable state: in particular no process
\* ever lists, reads or removes a number is_build does not recognise.
THEOREM TypeCorrect == Spec => []TypeOK
<1>1. TypeOK /\ [Next]_vars => TypeOK'
  <2> SUFFICES ASSUME TypeOK, [Next]_vars PROVE TypeOK'
    OBVIOUS
  <2>1. CASE UNCHANGED vars
    BY <2>1 DEF TypeOK, vars, dirVars, startVars, cleanVars, histVars
  <2>2. CASE AllEnded
    BY <2>1, <2>2 DEF AllEnded
  <2>3. ASSUME NEW p \in Procs, StartJob(p) \/ Abort(p) PROVE TypeOK'
    BY <2>3, StartTypeOK
  <2>4. ASSUME NEW p \in Procs, Maintenance(p) \/ CleanAbort(p) PROVE TypeOK'
    BY <2>4, CleanTypeOK
  <2> QED BY <2>1, <2>2, <2>3, <2>4 DEF Next
<1> QED BY InitTypeOK, <1>1, PTL DEF Spec

-----------------------------------------------------------------------------
(* The inductive invariant is one.                                         *)

LEMMA InitIInv == Init => IInv
<1> SUFFICES ASSUME Init PROVE IInv
  OBVIOUS
<1>1. TypeOK BY InitTypeOK
<1>2. Owned BY DEF Init, Owned, Holds
<1>3. NoScriptNoExit BY ProcsAssumption DEF Init, NoScriptNoExit
<1>4. ReadsHold BY DEF Init, ReadsHold
<1>5. GivenUpFirst BY DEF Init, GivenUpFirst
<1> QED BY <1>1, <1>2, <1>3, <1>4, <1>5 DEF IInv

\* Every step of a startjob keeps the invariant: the interesting ones are the
\* copy that wins a number and the two writes of exitcode.txt.
LEMMA StartIInv ==
    ASSUME IInv, NEW p \in Procs, StartJob(p) \/ Abort(p)
    PROVE  IInv'
<1> USE ProcsAssumption DEF Moves, Holds, Intact, dirVars, cleanVars, histVars
<1>0. TypeOK /\ TypeOK'
  BY StartTypeOK DEF IInv
<1> DEFINE Quiet == /\ UNCHANGED <<dirVars, cleanVars, histVars>>
                    /\ \A q \in Procs : Holds(q)' => Holds(q) /\ num'[q] = num[q]
                                                  /\ (pc'[q] = "exiting" <=> pc[q] = "exiting")
<1>1. ASSUME Quiet PROVE IInv'
  <2>1. Owned' BY <1>1, <1>0 DEF IInv, Owned
  <2>2. NoScriptNoExit' BY <1>1 DEF IInv, NoScriptNoExit
  <2>3. ReadsHold' BY <1>1 DEF IInv, ReadsHold
  <2>4. GivenUpFirst' BY <1>1 DEF IInv, GivenUpFirst
  <2> QED BY <1>0, <2>1, <2>2, <2>3, <2>4 DEF IInv
<1>2. CASE ListBuilds(p)
  <2>1. Quiet BY <1>0, <1>2 DEF ListBuilds, TypeOK
  <2> QED BY <1>1, <2>1
<1>3. CASE MakeDir(p)
  <2>1. Owned' BY <1>0, <1>3 DEF MakeDir, TypeOK, IInv, Owned
  <2>2. NoScriptNoExit' BY <1>3 DEF MakeDir, IInv, NoScriptNoExit
  <2>3. ReadsHold' BY <1>3 DEF MakeDir, IInv, ReadsHold
  <2>4. GivenUpFirst' BY <1>3 DEF MakeDir, IInv, GivenUpFirst
  <2> QED BY <1>0, <2>1, <2>2, <2>3, <2>4 DEF IInv
<1>4. CASE CopyScript(p)
  <2>1. num[p] \notin erased => exit[num[p]] = "none"
    BY <1>0, <1>4 DEF CopyScript, TypeOK, IInv, NoScriptNoExit
  <2>2. Owned'
    <3> SUFFICES ASSUME NEW q \in Procs, Holds(q)', num[q] \notin erased
                 PROVE  /\ num[q] \in present /\ script'[num[q]] = q
                        /\ exit[num[q]] = IF pc'[q] = "exiting" THEN "empty" ELSE "none"
      BY <1>4 DEF CopyScript, Owned
    <3>1. CASE q = p BY <1>0, <1>4, <2>1, <3>1 DEF CopyScript, TypeOK
    <3>2. CASE q # p BY <1>0, <1>4, <3>2 DEF CopyScript, TypeOK, IInv, Owned
    <3> QED BY <3>1, <3>2
  <2>3. NoScriptNoExit' BY <1>0, <1>4 DEF CopyScript, TypeOK, IInv, NoScriptNoExit
  <2>4. ReadsHold' BY <1>4 DEF CopyScript, IInv, ReadsHold
  <2>5. GivenUpFirst' BY <1>4 DEF CopyScript, IInv, GivenUpFirst
  <2> QED BY <1>0, <2>2, <2>3, <2>4, <2>5 DEF IInv
<1>5. CASE CopyRefused(p) \/ FillRefused(p) \/ LaunchRefused(p) \/ OpenRefused(p) \/ Abort(p)
  <2>1. Quiet
    BY <1>0, <1>5 DEF CopyRefused, FillRefused, LaunchRefused, OpenRefused, Abort, TypeOK
  <2> QED BY <1>1, <2>1
<1>6. CASE FillDir(p) \/ Launch(p)
  <2>1. Quiet BY <1>0, <1>6 DEF FillDir, Launch, TypeOK
  <2> QED BY <1>1, <2>1
<1>7. CASE OpenExitFile(p)
  <2>1. num[p] \notin erased => script[num[p]] = p /\ exit[num[p]] = "none"
    BY <1>0, <1>7 DEF OpenExitFile, TypeOK, IInv, Owned
  <2>2. Owned'
    <3> SUFFICES ASSUME NEW q \in Procs, Holds(q)', num[q] \notin erased
                 PROVE  /\ num[q] \in present /\ script[num[q]] = q
                        /\ exit'[num[q]] = IF pc'[q] = "exiting" THEN "empty" ELSE "none"
      BY <1>7 DEF OpenExitFile, Owned
    <3>1. CASE q = p BY <1>0, <1>7, <2>1, <3>1 DEF OpenExitFile, TypeOK
    <3>2. CASE q # p
      <4>1. Holds(q) /\ num[q] # num[p]
        BY <1>0, <1>7, <2>1, <3>2 DEF OpenExitFile, TypeOK, IInv, Owned
      <4> QED BY <1>0, <1>7, <3>2, <4>1 DEF OpenExitFile, TypeOK, IInv, Owned
    <3> QED BY <3>1, <3>2
  <2>3. NoScriptNoExit'
    BY <1>0, <1>7, <2>1 DEF OpenExitFile, TypeOK, IInv, NoScriptNoExit
  <2>4. ReadsHold'
    BY <1>0, <1>7, <2>1 DEF OpenExitFile, TypeOK, IInv, ReadsHold, Outcomes
  <2>5. GivenUpFirst' BY <1>7 DEF OpenExitFile, IInv, GivenUpFirst
  <2> QED BY <1>0, <2>2, <2>3, <2>4, <2>5 DEF IInv
<1>8. CASE WriteExitCode(p)
  <2>1. num[p] \notin erased => script[num[p]] = p /\ exit[num[p]] = "empty"
    BY <1>0, <1>8 DEF WriteExitCode, TypeOK, IInv, Owned
  <2>2. Owned'
    <3> SUFFICES ASSUME NEW q \in Procs, Holds(q)', num[q] \notin erased
                 PROVE  /\ num[q] \in present /\ script[num[q]] = q
                        /\ exit'[num[q]] = IF pc'[q] = "exiting" THEN "empty" ELSE "none"
      BY <1>8 DEF WriteExitCode, Owned
    <3>1. q # p /\ Holds(q) BY <1>0, <1>8 DEF WriteExitCode, TypeOK
    <3>2. num[q] # num[p] /\ pc'[q] = pc[q]
      BY <1>0, <1>8, <2>1, <3>1 DEF WriteExitCode, TypeOK, IInv, Owned
    <3> QED BY <1>0, <1>8, <3>1, <3>2 DEF WriteExitCode, TypeOK, IInv, Owned
  <2>3. NoScriptNoExit'
    BY <1>0, <1>8, <2>1 DEF WriteExitCode, TypeOK, IInv, NoScriptNoExit
  <2>4. ReadsHold'
    BY <1>0, <1>8, <2>1 DEF WriteExitCode, TypeOK, IInv, ReadsHold, Outcomes
  <2>5. GivenUpFirst' BY <1>8 DEF WriteExitCode, IInv, GivenUpFirst
  <2> QED BY <1>0, <2>2, <2>3, <2>4, <2>5 DEF IInv
<1>9. CASE SpawnMaintenance(p)
  <2>1. Owned' BY <1>0, <1>9 DEF SpawnMaintenance, TypeOK, IInv, Owned
  <2>2. NoScriptNoExit' BY <1>9 DEF SpawnMaintenance, IInv, NoScriptNoExit
  <2>3. ReadsHold' BY <1>9 DEF SpawnMaintenance, IInv, ReadsHold
  <2>4. GivenUpFirst' BY <1>0, <1>9 DEF SpawnMaintenance, TypeOK, IInv, GivenUpFirst
  <2> QED BY <1>0, <2>1, <2>2, <2>3, <2>4 DEF IInv
<1> QED BY <1>2, <1>3, <1>4, <1>5, <1>6, <1>7, <1>8, <1>9 DEF StartJob

\* Every step of a maintenance process keeps the invariant: it only touches
\* the directory of a number it has given up.
LEMMA CleanIInv ==
    ASSUME IInv, NEW p \in Procs, Maintenance(p) \/ CleanAbort(p)
    PROVE  IInv'
<1> USE DEF Cleans, Holds, Intact, dirVars, startVars, histVars
<1>0. TypeOK /\ TypeOK'
  BY CleanTypeOK DEF IInv
<1>1. ASSUME UNCHANGED <<dirVars, startVars, erased>>, ReadsHold', GivenUpFirst'
      PROVE  IInv'
  <2>1. Owned' BY <1>1 DEF IInv, Owned
  <2>2. NoScriptNoExit' BY <1>1 DEF IInv, NoScriptNoExit
  <2> QED BY <1>0, <1>1, <2>1, <2>2 DEF IInv
<1>2. CASE \/ ListDir(p) \/ RemoveRefused(p) \/ Unlinked(p)
           \/ CleanDone(p) \/ CleanAbort(p)
  <2>1. /\ UNCHANGED <<dirVars, startVars, erased, kept>>
        /\ victim' = victim
        /\ \A q \in Procs : cleaner'[q] \in {"unlink", "rmdir"} =>
                               cleaner[q] \in {"unlink", "rmdir"}
    BY <1>0, <1>2 DEF ListDir, RemoveRefused, Unlinked, CleanDone, CleanAbort, TypeOK
  <2>2. ReadsHold' BY <2>1 DEF IInv, ReadsHold
  <2>3. GivenUpFirst' BY <2>1 DEF IInv, GivenUpFirst
  <2> QED BY <1>1, <2>1, <2>2, <2>3
<1>3. CASE ReadExitCode(p)
  <2>1. ReadsHold' BY <1>0, <1>3 DEF ReadExitCode, TypeOK, IInv, ReadsHold
  <2>2. GivenUpFirst' BY <1>3 DEF ReadExitCode, IInv, GivenUpFirst
  <2> QED BY <1>1, <1>3, <2>1, <2>2 DEF ReadExitCode
<1>4. CASE PickVictim(p)
  <2>1. erased \subseteq erased'
    BY <1>4 DEF PickVictim
  <2>2. Owned' BY <1>4, <2>1 DEF PickVictim, IInv, Owned
  <2>3. NoScriptNoExit' BY <1>4, <2>1 DEF PickVictim, IInv, NoScriptNoExit
  <2>4. ReadsHold' BY <1>4, <2>1 DEF PickVictim, IInv, ReadsHold
  <2>5. GivenUpFirst' BY <1>0, <1>4, <2>1 DEF PickVictim, TypeOK, IInv, GivenUpFirst
  <2> QED BY <1>0, <2>2, <2>3, <2>4, <2>5 DEF IInv
<1>5. CASE Unlink(p)
  <2>1. /\ victim[p] \in erased
        /\ \A n \in Num \ erased : script'[n] = script[n] /\ exit'[n] = exit[n]
    BY <1>0, <1>5 DEF Unlink, TypeOK, IInv, GivenUpFirst
  <2>2. Owned' BY <1>0, <1>5, <2>1 DEF Unlink, TypeOK, IInv, Owned
  <2>3. NoScriptNoExit' BY <1>5, <2>1 DEF Unlink, IInv, NoScriptNoExit
  <2>4. ReadsHold'
    <3>1. \A q \in Procs : \A o \in Outcomes : kept[q][o] \subseteq Num
      BY <1>0, LimitsAssumption DEF TypeOK, Num, Recognised
    <3> QED BY <1>5, <2>1, <3>1 DEF Unlink, cleanVars, IInv, ReadsHold
  <2>5. GivenUpFirst' BY <1>5 DEF Unlink, cleanVars, IInv, GivenUpFirst
  <2> QED BY <1>0, <2>2, <2>3, <2>4, <2>5 DEF IInv
<1>6. CASE RemoveDir(p)
  <2>1. victim[p] \in erased
    BY <1>6 DEF RemoveDir, IInv, GivenUpFirst
  <2>2. Owned' BY <1>6, <2>1 DEF RemoveDir, IInv, Owned
  <2>3. NoScriptNoExit' BY <1>6 DEF RemoveDir, IInv, NoScriptNoExit
  <2>4. ReadsHold' BY <1>0, <1>6 DEF RemoveDir, Forget, TypeOK, IInv, ReadsHold
  <2>5. GivenUpFirst' BY <1>0, <1>6 DEF RemoveDir, TypeOK, IInv, GivenUpFirst
  <2> QED BY <1>0, <2>2, <2>3, <2>4, <2>5 DEF IInv
<1>7. CASE VictimGone(p)
  <2>1. Forget(p) \/ UNCHANGED kept
    BY <1>7 DEF VictimGone
  <2>2. ReadsHold'
    <3>1. CASE Forget(p) BY <1>0, <1>7, <3>1 DEF VictimGone, Forget, TypeOK, IInv, ReadsHold
    <3>2. CASE UNCHANGED kept BY <1>7, <3>2 DEF VictimGone, IInv, ReadsHold
    <3> QED BY <2>1, <3>1, <3>2
  <2>3. GivenUpFirst' BY <1>0, <1>7 DEF VictimGone, TypeOK, IInv, GivenUpFirst
  <2> QED BY <1>1, <1>7, <2>2, <2>3 DEF VictimGone
<1> QED BY <1>2, <1>3, <1>4, <1>5, <1>6, <1>7 DEF Maintenance

LEMMA NextIInv == IInv /\ [Next]_vars => IInv'
<1> SUFFICES ASSUME IInv, [Next]_vars PROVE IInv'
  OBVIOUS
<1>1. CASE UNCHANGED vars
  BY <1>1 DEF vars, dirVars, startVars, cleanVars, histVars, IInv, TypeOK, Owned,
              NoScriptNoExit, ReadsHold, GivenUpFirst, Holds, Intact
<1>2. CASE AllEnded
  BY <1>1, <1>2 DEF AllEnded
<1>3. ASSUME NEW p \in Procs, StartJob(p) \/ Abort(p) PROVE IInv'
  BY <1>3, StartIInv
<1>4. ASSUME NEW p \in Procs, Maintenance(p) \/ CleanAbort(p) PROVE IInv'
  BY <1>4, CleanIInv
<1> QED BY <1>1, <1>2, <1>3, <1>4 DEF Next

LEMMA Invariance == Spec => []IInv
BY InitIInv, NextIInv, PTL DEF Spec

-----------------------------------------------------------------------------
(* What follows from it.                                                   *)

\* Two live builds never share a directory, and no one takes away the
\* directory of a live build, as long as its number is not being removed:
\* the copy of the script in prepare_build is enough to decide who owns it.
THEOREM Exclusive == Spec => []ExclusiveBuild
<1>1. IInv => ExclusiveBuild
  BY DEF IInv, Owned, ExclusiveBuild, Holds, Intact
<1> QED BY Invariance, <1>1, PTL

\* The history of given up numbers grows only by maintenance picking one.
LEMMA ErasedChanges ==
    ASSUME [Next]_vars, erased' # erased
    PROVE  \E p \in Procs : PickVictim(p)
<1>1. ASSUME NEW q \in Procs, StartJob(q) \/ Abort(q) PROVE erased' = erased
  BY <1>1 DEF StartJob, Abort, ListBuilds, MakeDir, CopyScript, CopyRefused,
       FillDir, FillRefused, Launch, LaunchRefused, OpenExitFile, OpenRefused,
       WriteExitCode, SpawnMaintenance, histVars
<1>2. ASSUME NEW q \in Procs, Maintenance(q) \/ CleanAbort(q), ~PickVictim(q)
      PROVE  erased' = erased
  BY <1>2 DEF Maintenance, CleanAbort, ListDir, ReadExitCode, Unlink, Unlinked,
       RemoveDir, RemoveRefused, VictimGone, CleanDone, histVars
<1> QED BY <1>1, <1>2 DEF Next, AllEnded, vars, histVars

\* A step that gives up a number gives up one that maintenance has read as
\* finished.
LEMMA GivesUpFinished ==
    ASSUME IInv, [Next]_vars, NEW n \in erased' \ erased
    PROVE  exit[n] \in Outcomes
<1>1. PICK p \in Procs : PickVictim(p)
  BY ErasedChanges
<1>2. IsVictim(p, n)
  BY <1>1 DEF PickVictim
<1> QED BY <1>2 DEF IsVictim, IInv, ReadsHold

\* Maintenance gives up a number only when its build has finished, whatever
\* the startjob processes do between its listing and its removal.
THEOREM FinishedOnly == Spec => RemovesFinishedOnly
<1>1. ASSUME IInv, [Next]_vars, NEW n \in erased' \ erased
      PROVE  exit[n] \in Outcomes /\ \A p \in Procs : Holds(p) => num[p] # n
  BY <1>1, GivesUpFinished DEF IInv, Owned, Outcomes
<1>2. IInv /\ [Next]_vars =>
        [\A n \in erased' \ erased :
            /\ exit[n] \in Outcomes
            /\ \A p \in Procs : Holds(p) => num[p] # n]_vars
  BY <1>1
<1> QED BY Invariance, <1>2, PTL DEF Spec, RemovesFinishedOnly

\* Only the startjob that owns a number changes its exit code, and only from
\* nothing to empty and from empty to an outcome.
LEMMA ExitChanges ==
    ASSUME IInv, [Next]_vars, NEW n \in Num \ erased', exit'[n] # exit[n]
    PROVE  /\ erased' = erased
           /\ \E p \in Procs :
                /\ num[p] = n
                /\ script[n] = p
                /\ \/ OpenExitFile(p) /\ exit[n] = "none" /\ exit'[n] = "empty"
                   \/ WriteExitCode(p) /\ exit[n] = "empty" /\ exit'[n] \in Outcomes
<1> USE DEF Moves, Holds, Intact
<1>0. TypeOK
  BY DEF IInv
<1>1. PICK p \in Procs : OpenExitFile(p) \/ WriteExitCode(p) \/ Unlink(p)
  <2>1. ASSUME NEW q \in Procs, StartJob(q) \/ Abort(q), exit' # exit
        PROVE  OpenExitFile(q) \/ WriteExitCode(q)
    BY <2>1 DEF StartJob, Abort, ListBuilds, MakeDir, CopyScript, CopyRefused,
         FillDir, FillRefused, Launch, LaunchRefused, OpenRefused,
         SpawnMaintenance, dirVars
  <2>2. ASSUME NEW q \in Procs, Maintenance(q) \/ CleanAbort(q), exit' # exit
        PROVE  Unlink(q)
    BY <2>2 DEF Maintenance, CleanAbort, ListDir, ReadExitCode, PickVictim, Unlinked,
         RemoveDir, RemoveRefused, VictimGone, CleanDone, dirVars
  <2> QED BY <2>1, <2>2 DEF Next, AllEnded, vars, dirVars
<1>2. CASE OpenExitFile(p)
  <2>1. num[p] = n BY <1>0, <1>2 DEF OpenExitFile, TypeOK
  <2>2. erased' = erased BY <1>2 DEF OpenExitFile, histVars
  <2>3. script[n] = p /\ exit[n] = "none"
    BY <1>0, <1>2, <2>1, <2>2 DEF OpenExitFile, TypeOK, IInv, Owned
  <2>4. exit'[n] = "empty" BY <1>0, <1>2, <2>1 DEF OpenExitFile, TypeOK
  <2> QED BY <1>2, <2>1, <2>2, <2>3, <2>4
<1>3. CASE WriteExitCode(p)
  <2>1. num[p] = n BY <1>0, <1>3 DEF WriteExitCode, TypeOK
  <2>2. erased' = erased BY <1>3 DEF WriteExitCode, histVars
  <2>3. script[n] = p /\ exit[n] = "empty"
    BY <1>0, <1>3, <2>1, <2>2 DEF WriteExitCode, TypeOK, IInv, Owned
  <2>4. exit'[n] \in Outcomes BY <1>0, <1>3, <2>1, <2>3 DEF WriteExitCode, TypeOK
  <2> QED BY <1>3, <2>1, <2>2, <2>3, <2>4
<1>4. CASE Unlink(p)
  <2>1. victim[p] \in erased' /\ victim[p] # n
    BY <1>4 DEF Unlink, histVars, IInv, GivenUpFirst
  <2>2. exit'[n] = exit[n]
    BY <1>0, <1>4, <2>1 DEF Unlink, TypeOK
  <2> QED BY <2>2
<1> QED BY <1>1, <1>2, <1>3, <1>4

\* An exit code on disk is never overwritten, not even by startjob processes
\* that chose the same number.
THEOREM FinalOutcome == Spec => OutcomeIsFinal
<1>1. IInv /\ [Next]_vars =>
        [\A n \in Num \ erased' : exit[n] \in Outcomes => exit'[n] = exit[n]]_vars
  BY ExitChanges DEF Outcomes
<1> QED BY Invariance, <1>1, PTL DEF Spec, OutcomeIsFinal

-----------------------------------------------------------------------------
(* Why a startjob fails when nothing goes wrong outside.                   *)

\* startjob p won its number.
Took(p) == Holds(p) \/ pc[p] \in {"finish", "done"}

\* Unless maintenance has given it up: a number with a script has a startjob
\* that won it, if it was not there before; nobody who has listed the directory
\* works on a number that was; a directory that was made is there.
Blamed ==
    /\ \A n \in Num \ erased : script[n] # None =>
           n \in Existing \/ \E q \in Procs : num[q] = n /\ Took(q)
    /\ Existing \ erased \subseteq present
    /\ \A p \in Procs : pc[p] # "list" /\ num[p] \in Existing => num[p] \in erased
    /\ \A p \in Procs : pc[p] = "copy" => num[p] \in present \cup erased
    /\ \A p \in Procs : pc[p] = "failed" =>
           \/ num[p] \in erased
           \/ \E q \in Procs : num[q] = num[p] /\ Took(q)

\* A startjob that won its number keeps it, or loses it to maintenance.
LEMMA TookStays ==
    ASSUME IInv, ~Errors, NEW p \in Procs, StartJob(p)
    PROVE  /\ pc[p] \in StartPC \ {"list"} => num' = num
           /\ \A q \in Procs \ {p} : num'[q] = num[q] /\ pc'[q] = pc[q]
           /\ Took(p) => num'[p] = num[p] /\ (Took(p)' \/ num[p] \in erased)
<1> USE DEF Moves, Holds, Took, TypeOK, StartPC
<1>0. TypeOK
  BY DEF IInv
<1>1. CASE ListBuilds(p)
  BY <1>0, <1>1 DEF ListBuilds
<1>2. CASE MakeDir(p) \/ CopyScript(p) \/ CopyRefused(p) \/ FillDir(p) \/ Launch(p)
           \/ OpenExitFile(p) \/ WriteExitCode(p) \/ SpawnMaintenance(p)
  BY <1>0, <1>2 DEF MakeDir, CopyScript, CopyRefused, FillDir, Launch, OpenExitFile,
                    WriteExitCode, SpawnMaintenance
<1>3. CASE FillRefused(p) \/ LaunchRefused(p) \/ OpenRefused(p)
  <2>1. num[p] \in erased
    BY <1>3, ProcsAssumption DEF FillRefused, LaunchRefused, OpenRefused, IInv, Owned, Intact
  <2> QED BY <1>0, <1>3, <2>1 DEF FillRefused, LaunchRefused, OpenRefused
<1> QED BY <1>1, <1>2, <1>3 DEF StartJob

LEMMA StartBlamed ==
    ASSUME IInv, Blamed, ~Errors, NEW p \in Procs, StartJob(p) PROVE Blamed'
<1> USE DEF Moves, TypeOK
<1>0. TypeOK /\ erased' = erased /\ present \subseteq present'
  BY DEF IInv, StartJob, ListBuilds, MakeDir, CopyScript, CopyRefused,
       FillDir, FillRefused, Launch, LaunchRefused, OpenExitFile, OpenRefused,
       WriteExitCode, SpawnMaintenance, histVars, dirVars
<1>1. ASSUME NEW n \in Num \ erased, NEW q \in Procs, num[q] = n, Took(q)
      PROVE  num'[q] = n /\ Took(q)'
  BY <1>0, <1>1, TookStays DEF Took, Holds
<1>2. ASSUME NEW n \in (Num \ erased) \ Existing, script'[n] # None
      PROVE  \E q \in Procs : num'[q] = n /\ Took(q)'
  <2>1. CASE script'[n] = script[n]
    BY <1>1, <1>2, <2>1 DEF Blamed
  <2>2. CASE script'[n] # script[n]
    <3>1. CopyScript(p)
      BY <2>2 DEF StartJob, ListBuilds, MakeDir, CopyRefused, FillDir, FillRefused,
           Launch, LaunchRefused, OpenExitFile, OpenRefused, WriteExitCode,
           SpawnMaintenance, dirVars
    <3>2. num'[p] = n /\ pc'[p] = "fill"
      BY <1>0, <2>2, <3>1 DEF CopyScript
    <3> QED BY <3>2 DEF Took, Holds
  <2> QED BY <2>1, <2>2
<1>3. (Existing \ erased \subseteq present)'
  BY <1>0 DEF Blamed
<1>4. ASSUME NEW q \in Procs, pc'[q] # "list", num'[q] \in Existing PROVE num'[q] \in erased
  <2>1. CASE q = p /\ pc[p] = "list"
    <3>1. IsNext(num'[p], present \cap Recognised)
      BY <1>0, <2>1 DEF StartJob, ListBuilds, MakeDir, CopyScript, CopyRefused, FillDir,
           FillRefused, Launch, LaunchRefused, OpenExitFile, OpenRefused, WriteExitCode,
           SpawnMaintenance
    <3>2. num'[p] \in Recognised /\ num'[p] \in Nat
      <4>1. num'[p] \in Existing BY <1>4, <2>1
      <4>2. Existing \subseteq Recognised /\ Recognised \subseteq Nat
        BY LimitsAssumption DEF Recognised
      <4> QED BY <4>1, <4>2
    <3>3. num'[p] \notin present
      BY <3>1, <3>2 DEF IsNext
    <3> QED BY <1>4, <2>1, <3>3 DEF Blamed
  <2>2. CASE q # p \/ pc[p] # "list"
    <3>1. num'[q] = num[q] /\ pc[q] # "list"
      BY <1>0, <1>4, <2>2, TookStays
    <3> QED BY <1>4, <3>1 DEF Blamed
  <2> QED BY <2>1, <2>2
<1>5. ASSUME NEW q \in Procs, pc'[q] = "copy" PROVE num'[q] \in present' \cup erased
  <2>1. CASE pc[q] = "copy"
    BY <1>0, <2>1, TookStays DEF Blamed, StartPC
  <2>2. CASE pc[q] # "copy"
    <3>1. MakeDir(p) /\ q = p
      BY <1>0, <1>5, <2>2 DEF StartJob, ListBuilds, MakeDir, CopyScript, CopyRefused, FillDir,
           FillRefused, Launch, LaunchRefused, OpenExitFile, OpenRefused, WriteExitCode,
           SpawnMaintenance
    <3> QED BY <3>1 DEF MakeDir
  <2> QED BY <2>1, <2>2
<1>6. ASSUME NEW q \in Procs, pc'[q] = "failed", num'[q] \notin erased
      PROVE  \E r \in Procs : num'[r] = num'[q] /\ Took(r)'
  <2>1. pc[q] # "list" /\ num'[q] = num[q] /\ num[q] \in Num
    <3>1. pc[q] # "list"
      BY <1>0, <1>6 DEF StartJob, ListBuilds, MakeDir, CopyScript, CopyRefused, FillDir,
           FillRefused, Launch, LaunchRefused, OpenExitFile, OpenRefused, WriteExitCode,
           SpawnMaintenance
    <3> QED BY <1>0, <3>1, TookStays
  <2>2. CASE pc[q] = "failed"
    BY <1>1, <1>6, <2>1, <2>2 DEF Blamed
  <2>3. CASE pc[q] # "failed"
    <3>1. q = p /\ ~Took(p)
      <4>1. q = p BY <1>0, <1>6, <2>3, TookStays
      <4> QED BY <1>1, <1>6, <2>1, <4>1 DEF Took, Holds
    <3>2. CopyRefused(p)
      BY <1>0, <1>6, <2>3, <3>1 DEF Took, Holds, StartJob, ListBuilds, MakeDir, CopyScript,
           FillDir, FillRefused, Launch, LaunchRefused, OpenExitFile, OpenRefused,
           WriteExitCode, SpawnMaintenance
    <3>3. script[num[p]] # None /\ num[p] \notin Existing
      BY <1>6, <2>1, <3>1, <3>2 DEF CopyRefused, Blamed
    <3>4. PICK r \in Procs : num[r] = num[p] /\ Took(r)
      BY <1>6, <2>1, <3>1, <3>3 DEF Blamed
    <3> QED BY <1>1, <1>6, <2>1, <3>1, <3>4
  <2> QED BY <2>2, <2>3
<1> QED BY <1>0, <1>2, <1>3, <1>4, <1>5, <1>6 DEF Blamed

LEMMA CleanBlamed ==
    ASSUME IInv, Blamed, NEW p \in Procs, Maintenance(p) \/ CleanAbort(p) PROVE Blamed'
<1>0. TypeOK
  BY DEF IInv
<1>1. UNCHANGED startVars /\ erased \subseteq erased'
  BY DEF Maintenance, CleanAbort, ListDir, ReadExitCode, PickVictim, Unlink, Unlinked,
       RemoveDir, RemoveRefused, VictimGone, CleanDone, dirVars, startVars, histVars
<1>2. \A n \in Num \ erased' : script'[n] = script[n]
  <2>1. CASE Unlink(p)
    BY <1>0, <1>1, <2>1 DEF Unlink, TypeOK, IInv, GivenUpFirst
  <2>2. CASE ~Unlink(p)
    BY <2>2 DEF Maintenance, CleanAbort, ListDir, ReadExitCode, PickVictim, Unlinked,
         RemoveDir, RemoveRefused, VictimGone, CleanDone, dirVars
  <2> QED BY <2>1, <2>2
<1>3. present \ erased \subseteq present'
  <2>1. CASE RemoveDir(p)
    BY <2>1 DEF RemoveDir, IInv, GivenUpFirst, Cleans
  <2>2. CASE ~RemoveDir(p)
    BY <2>2 DEF Maintenance, CleanAbort, ListDir, ReadExitCode, PickVictim, Unlink, Unlinked,
         RemoveRefused, VictimGone, CleanDone, dirVars
  <2> QED BY <2>1, <2>2
<1>4. \A q \in Procs : Took(q)' = Took(q)
  BY <1>1 DEF Took, Holds, startVars
<1> QED BY <1>1, <1>2, <1>3, <1>4 DEF Blamed, startVars

\* Without errors and kills a startjob fails only because another one has the
\* number it chose, or because maintenance was removing that number: from
\* whatever listing it chose, and whatever was in the directory before.
THEOREM Contention == Spec => []FailureMeansContention
<1> DEFINE J == ~Errors => Blamed
<1>1. Init => J
  <2> SUFFICES ASSUME Init PROVE Blamed
    OBVIOUS
  <2> QED BY DEF Init, Blamed
<1>2. IInv /\ J /\ [Next]_vars => J'
  <2> SUFFICES ASSUME IInv, Blamed, ~Errors, [Next]_vars PROVE Blamed'
    OBVIOUS
  <2>1. CASE UNCHANGED vars
    BY <2>1 DEF vars, dirVars, startVars, histVars, Blamed, Took, Holds
  <2>2. CASE AllEnded
    BY <2>1, <2>2 DEF AllEnded
  <2>3. ASSUME NEW p \in Procs, StartJob(p) PROVE Blamed'
    BY <2>3, StartBlamed
  <2>4. ASSUME NEW p \in Procs, Abort(p) PROVE FALSE
    BY <2>4 DEF Abort
  <2>5. ASSUME NEW p \in Procs, Maintenance(p) \/ CleanAbort(p) PROVE Blamed'
    BY <2>5, CleanBlamed
  <2> QED BY <2>1, <2>2, <2>3, <2>4, <2>5 DEF Next
<1>3. J => FailureMeansContention
  BY DEF Blamed, FailureMeansContention, Took, Holds
<1> QED BY Invariance, <1>1, <1>2, <1>3, PTL DEF Spec

-----------------------------------------------------------------------------
(* Builds implements BuildSlots.                                           *)

\* The script of a number that is not given up changes only when a startjob
\* takes the number.
LEMMA ScriptChanges ==
    ASSUME IInv, [Next]_vars, NEW n \in Num \ erased', script'[n] # script[n]
    PROVE  \E p \in Procs : CopyScript(p) /\ num[p] = n
<1>0. TypeOK
  BY DEF IInv
<1>1. PICK p \in Procs : CopyScript(p) \/ Unlink(p)
  <2>1. ASSUME NEW q \in Procs, StartJob(q) \/ Abort(q), script' # script
        PROVE  CopyScript(q)
    BY <2>1 DEF StartJob, Abort, ListBuilds, MakeDir, CopyRefused,
         FillDir, FillRefused, Launch, LaunchRefused, OpenExitFile, OpenRefused,
         WriteExitCode, SpawnMaintenance, dirVars
  <2>2. ASSUME NEW q \in Procs, Maintenance(q) \/ CleanAbort(q), script' # script
        PROVE  Unlink(q)
    BY <2>2 DEF Maintenance, CleanAbort, ListDir, ReadExitCode, PickVictim, Unlinked,
         RemoveDir, RemoveRefused, VictimGone, CleanDone, dirVars
  <2> QED BY <2>1, <2>2 DEF Next, AllEnded, vars, dirVars
<1>2. CASE CopyScript(p)
  BY <1>0, <1>2 DEF CopyScript, TypeOK
<1>3. CASE Unlink(p)
  <2>1. victim[p] \in erased' /\ victim[p] # n
    BY <1>3 DEF Unlink, histVars, IInv, GivenUpFirst
  <2> QED BY <1>0, <1>3, <2>1 DEF Unlink, TypeOK
<1> QED BY <1>1, <1>2, <1>3

LEMMA InitSlots == Init => Slots!Init
BY LimitsAssumption, ProcsAssumption
   DEF Init, Slots!Init, SlotHolder, SlotResult, Outcomes

\* A step that gives up no number takes one, finishes one or changes nothing.
LEMMA StartStepSlots ==
    ASSUME IInv, IInv', [Next]_vars, erased' = erased
    PROVE  [Slots!Next]_Slots!slotVars
<1> USE DEF IInv
<1>1. CASE \A n \in Num \ erased : script'[n] = script[n] /\ exit'[n] = exit[n]
  BY <1>1 DEF Slots!slotVars, SlotHolder, SlotResult
<1>2. CASE \E n \in Num \ erased : script'[n] # script[n]
  <2>1. PICK p \in Procs, n \in Num \ erased : CopyScript(p) /\ num[p] = n
    BY <1>2, ScriptChanges
  <2>2. SlotHolder[n] = None
    BY <2>1 DEF CopyScript, SlotHolder
  <2>3. SlotResult' = SlotResult
    BY <2>1 DEF CopyScript, SlotResult
  <2>4. script' = [script EXCEPT ![n] = p]
    BY <2>1 DEF CopyScript
  <2>5. SlotHolder' = [SlotHolder EXCEPT ![n] = p]
    BY <2>1, <2>4 DEF TypeOK, SlotHolder
  <2> QED BY <2>1, <2>2, <2>3, <2>5 DEF Slots!Take, Slots!Next
<1>3. CASE /\ \A n \in Num \ erased : script'[n] = script[n]
           /\ \E n \in Num \ erased : exit'[n] # exit[n]
  <2>1. PICK p \in Procs, n \in Num \ erased :
            /\ num[p] = n /\ script[n] = p
            /\ \/ OpenExitFile(p) /\ exit[n] = "none" /\ exit'[n] = "empty"
               \/ WriteExitCode(p) /\ exit[n] = "empty" /\ exit'[n] \in Outcomes
    BY <1>3, ExitChanges
  <2>2. SlotHolder' = SlotHolder
    BY <1>3 DEF SlotHolder
  <2>3. CASE OpenExitFile(p) /\ exit[n] = "none" /\ exit'[n] = "empty"
    <3>1. SlotResult' = SlotResult
      BY <2>1, <2>3 DEF OpenExitFile, TypeOK, SlotResult
    <3> QED BY <2>2, <3>1 DEF Slots!slotVars
  <2>4. CASE WriteExitCode(p) /\ exit[n] = "empty" /\ exit'[n] \in Outcomes
    <3>1. SlotHolder[n] # None /\ SlotResult[n] = "none"
      BY <2>1, <2>4, ProcsAssumption DEF SlotHolder, SlotResult
    <3>2. exit' = [exit EXCEPT ![n] = exit'[n]]
      BY <2>1, <2>4 DEF WriteExitCode, TypeOK
    <3>3. SlotResult' = [SlotResult EXCEPT ![n] = exit'[n]]
      BY <2>1, <2>4, <3>2 DEF TypeOK, SlotResult, Outcomes
    <3> QED BY <2>1, <2>2, <2>4, <3>1, <3>3 DEF Slots!Finish, Slots!Next
  <2> QED BY <2>1, <2>3, <2>4
<1> QED BY <1>1, <1>2, <1>3

\* A step that gives up a number is a Retire of that number.
LEMMA PickSlots ==
    ASSUME IInv, NEW p \in Procs, PickVictim(p), erased' # erased
    PROVE  Slots!Next
<1>1. PICK n \in Recognised : IsVictim(p, n) /\ erased' = erased \cup {n}
  BY DEF PickVictim
<1>2. n \in Num \ erased /\ exit[n] \in Outcomes
  BY <1>1, LimitsAssumption DEF IsVictim, IInv, ReadsHold, Num, Recognised
<1>3. UNCHANGED <<script, exit>>
  BY DEF PickVictim, dirVars
<1>4. SlotResult[n] # "none"
  BY <1>2 DEF SlotResult, Outcomes
<1>5. /\ SlotHolder' = [SlotHolder EXCEPT ![n] = None]
      /\ SlotResult' = [SlotResult EXCEPT ![n] = "none"]
  BY <1>1, <1>2, <1>3 DEF SlotHolder, SlotResult
<1> QED BY <1>1, <1>2, <1>4, <1>5 DEF Slots!Retire, Slots!Next

\* Builds implements the promise of BuildSlots, for every number of processes
\* and in every interleaving, with errors and kills.
THEOREM Implementation == Spec => ImplementsSlots
<1>1. IInv /\ IInv' /\ [Next]_vars => [Slots!Next]_Slots!slotVars
  BY StartStepSlots, PickSlots, ErasedChanges
<1> QED BY InitSlots, Invariance, <1>1, PTL DEF Spec, ImplementsSlots, Slots!Spec

-----------------------------------------------------------------------------
(* Maintenance keeps the newest builds.  What one process gives up, the     *)
(* others may still count as kept.  The invariant that makes up for it is   *)
(* about the numbers already given up: while some process can still take    *)
(* one of them for a build of outcome o, as many newer builds of that       *)
(* outcome stay as job.conf says.  Giving up one of those leaves as many    *)
(* that are newer still.                                                    *)

Newer(o, n) == {m \in Surviving(o) : m > n}
Enough(o, n) == Cardinality(Newer(o, n)) >= Limit(o)

\* A number given up that still shows, or that some process has read to have,
\* the outcome o.
Shows(o, n) == exit[n] = o \/ \E p \in Procs : n \in kept[p][o]

Counted == \A o \in Outcomes : \A n \in erased : Shows(o, n) => Enough(o, n)

\* Nobody works in a directory that is being removed.
Undisturbed == \A p \in Procs : Holds(p) => num[p] \notin erased

KInv == reused = {} => Counted /\ Undisturbed

-----------------------------------------------------------------------------
(* Counting.                                                               *)

LEMMA FiniteNumbers ==
    ASSUME NEW S, S \subseteq Recognised
    PROVE  /\ IsFiniteSet(S) /\ Cardinality(S) \in Nat
           /\ \A T : T \subseteq S => Cardinality(T) <= Cardinality(S)
<1>1. IsFiniteSet(Recognised)
  <2>1. 0 \in Int /\ MaxBuild \in Int BY LimitsAssumption
  <2> QED BY <2>1, FS_Interval DEF Recognised
<1>2. IsFiniteSet(S)
  BY <1>1, FS_Subset
<1> QED BY <1>2, FS_Subset, FS_CardinalityType

LEMMA NewerNumbers == \A o, n : Newer(o, n) \subseteq Recognised
BY DEF Newer, Surviving

\* As many, if there are more.
LEMMA MoreIsEnough ==
    ASSUME NEW o \in Outcomes, NEW S, NEW T, T \subseteq Recognised, S \subseteq T,
           Cardinality(S) >= Limit(o)
    PROVE  Cardinality(T) >= Limit(o)
<1>1. /\ Cardinality(S) \in Nat /\ Cardinality(T) \in Nat
      /\ Cardinality(S) <= Cardinality(T)
  BY FiniteNumbers
<1> QED BY <1>1, LimitsAssumption DEF Limit

\* What cleanup is about to remove leaves enough: the builds it has counted
\* itself, or those that are newer than one of them already given up.
LEMMA VictimLeavesEnough ==
    ASSUME IInv, Counted, NEW p \in Procs, NEW n \in Recognised \ erased, IsVictim(p, n)
    PROVE  \E o \in Outcomes : exit[n] = o /\ Enough(o, n)
<1>1. PICK o \in Outcomes :
          TooMany(p, o) /\ n \in kept[p][o] /\ \A m \in kept[p][o] : n <= m
  BY DEF IsVictim
<1>2. exit[n] = o
  BY <1>1 DEF IInv, ReadsHold
<1>3. kept[p][o] \subseteq Recognised /\ Recognised \subseteq Nat
  <2>1. Recognised \subseteq Nat BY LimitsAssumption DEF Recognised
  <2> QED BY <2>1 DEF IInv, TypeOK
<1>4. Enough(o, n)
  <2> DEFINE others == kept[p][o] \ {n}
  <2>1. ASSUME NEW m \in others PROVE m > n /\ m \in Recognised
    <3>1. m \in kept[p][o] /\ m # n /\ n <= m
      BY <1>1
    <3>2. m \in Nat /\ n \in Nat /\ m \in Recognised
      BY <1>3, <3>1
    <3> QED BY <3>1, <3>2
  <2>2. CASE others \cap erased = {}
    <3>1. others \subseteq Newer(o, n)
      BY <2>1, <2>2 DEF Newer, Surviving, IInv, ReadsHold
    <3>2. Cardinality(others) = Cardinality(kept[p][o]) - 1
      BY <1>1, <1>3, FiniteNumbers, FS_RemoveElement
    <3>3. Cardinality(kept[p][o]) \in Nat /\ Limit(o) \in Nat
      BY <1>3, FiniteNumbers, LimitsAssumption DEF Limit
    <3>4. Cardinality(others) >= Limit(o)
      BY <1>1, <3>2, <3>3 DEF TooMany
    <3> HIDE DEF others
    <3> QED BY <3>1, <3>4, MoreIsEnough, NewerNumbers DEF Enough
  <2>3. CASE others \cap erased # {}
    <3>1. PICK m \in others \cap erased : TRUE
      BY <2>3
    <3>2. Enough(o, m)
      BY <3>1 DEF Counted, Shows
    <3>3. Newer(o, m) \subseteq Newer(o, n)
      <4>1. m > n /\ m \in Nat /\ n \in Nat /\ Surviving(o) \subseteq Nat
        BY <1>3, <2>1, <3>1 DEF Surviving
      <4> QED BY <4>1 DEF Newer
    <3> QED BY <3>2, <3>3, MoreIsEnough, NewerNumbers DEF Enough
  <2> QED BY <2>2, <2>3
<1> QED BY <1>2, <1>4

-----------------------------------------------------------------------------
(* The invariant.                                                          *)

\* A step that gives up no number.
LEMMA KeepsCounted ==
    ASSUME IInv, [Next]_vars, Counted, Undisturbed, erased' = erased PROVE Counted'
<1>0. TypeOK /\ erased \subseteq Num
  BY LimitsAssumption DEF IInv, TypeOK, Recognised, Num
<1>1. \A n \in Recognised \ erased : exit[n] \in Outcomes => exit'[n] = exit[n]
  BY ExitChanges, LimitsAssumption DEF Recognised, Num, Outcomes
<1>2. ASSUME NEW o \in Outcomes, NEW n \in erased, Enough(o, n) PROVE Enough(o, n)'
  <2>1. Newer(o, n) \subseteq Newer(o, n)'
    BY <1>1 DEF Newer, Surviving
  <2>2. Newer(o, n)' \subseteq Recognised
    BY DEF Newer, Surviving
  <2>3. Limit(o)' = Limit(o)
    BY DEF Limit
  <2> QED BY <1>2, <2>1, <2>2, <2>3, MoreIsEnough DEF Enough
<1>3. ASSUME NEW o \in Outcomes, NEW n \in erased, exit'[n] = o PROVE exit[n] = o
  <2>1. ASSUME NEW p \in Procs, StartJob(p) \/ Abort(p) PROVE exit'[n] = exit[n]
    <3>1. CASE OpenExitFile(p) \/ WriteExitCode(p)
      <4>1. num[p] # n
        BY <3>1 DEF OpenExitFile, WriteExitCode, Moves, Undisturbed, Holds
      <4> QED BY <1>0, <3>1, <4>1 DEF OpenExitFile, WriteExitCode, TypeOK
    <3>2. CASE ~(OpenExitFile(p) \/ WriteExitCode(p))
      BY <2>1, <3>2 DEF StartJob, Abort, ListBuilds, MakeDir, CopyScript, CopyRefused,
         FillDir, FillRefused, Launch, LaunchRefused, OpenRefused, SpawnMaintenance, dirVars
    <3> QED BY <3>1, <3>2
  <2>2. ASSUME NEW p \in Procs, Maintenance(p) \/ CleanAbort(p)
        PROVE  exit'[n] = exit[n] \/ exit'[n] = "none"
    <3>1. CASE Unlink(p)
      BY <1>0, <3>1 DEF Unlink, TypeOK
    <3>2. CASE ~Unlink(p)
      BY <2>2, <3>2 DEF Maintenance, CleanAbort, ListDir, ReadExitCode, PickVictim,
         Unlinked, RemoveDir, RemoveRefused, VictimGone, CleanDone, dirVars
    <3> QED BY <3>1, <3>2
  <2> QED BY <1>3, <2>1, <2>2 DEF Next, AllEnded, vars, dirVars, Outcomes
<1>4. ASSUME NEW o \in Outcomes, NEW n \in erased, NEW p \in Procs, n \in kept'[p][o]
      PROVE  n \in kept[p][o] \/ exit[n] = o
  <2>1. ASSUME NEW q \in Procs, StartJob(q) \/ Abort(q) PROVE kept' = kept
    BY <2>1 DEF StartJob, Abort, ListBuilds, MakeDir, CopyScript, CopyRefused,
       FillDir, FillRefused, Launch, LaunchRefused, OpenExitFile, OpenRefused,
       WriteExitCode, SpawnMaintenance, cleanVars
  <2>2. ASSUME NEW q \in Procs, Maintenance(q) \/ CleanAbort(q)
        PROVE  n \in kept[p][o] \/ exit[n] = o
    <3>1. CASE ReadExitCode(q)
      BY <1>0, <1>4, <3>1 DEF ReadExitCode, TypeOK
    <3>2. CASE Forget(q)
      BY <1>0, <1>4, <3>2 DEF Forget, TypeOK
    <3>3. CASE ~ReadExitCode(q) /\ ~Forget(q)
      BY <1>4, <2>2, <3>3 DEF Maintenance, CleanAbort, ListDir, PickVictim, Unlink,
         Unlinked, RemoveDir, RemoveRefused, VictimGone, CleanDone, cleanVars
    <3> QED BY <3>1, <3>2, <3>3
  <2> QED BY <1>4, <2>1, <2>2 DEF Next, AllEnded, vars, cleanVars
<1> QED BY <1>2, <1>3, <1>4 DEF Counted, Shows

\* Giving up n: of the builds of its outcome, those newer than n are newer than
\* whatever is older than n.
LEMMA PickCounted ==
    ASSUME IInv, [Next]_vars, Counted, NEW p \in Procs, PickVictim(p), erased' # erased
    PROVE  Counted'
<1>1. PICK n \in Recognised : IsVictim(p, n) /\ erased' = erased \cup {n}
  BY DEF PickVictim
<1>2. n \notin erased
  BY <1>1
<1>3. PICK o \in Outcomes : exit[n] = o /\ Enough(o, n)
  BY <1>1, <1>2, VictimLeavesEnough
<1>4. UNCHANGED <<exit, kept>> /\ Recognised \subseteq Nat /\ erased \subseteq Nat
  <2>1. Recognised \subseteq Nat BY LimitsAssumption DEF Recognised
  <2> QED BY <2>1 DEF PickVictim, dirVars, IInv, TypeOK
<1>5. ASSUME NEW x \in Outcomes, NEW m \in erased', Shows(x, m)' PROVE Enough(x, m)'
  <2>1. Newer(x, m)' \subseteq Recognised
    BY DEF Newer, Surviving
  <2>2. Limit(x)' = Limit(x)
    BY DEF Limit
  <2>3. CASE m # n /\ (x # o \/ n < m)
    <3>1. Enough(x, m)
      BY <1>1, <1>4, <1>5, <2>3 DEF Counted, Shows
    <3>2. Newer(x, m) \subseteq Newer(x, m)'
      BY <1>1, <1>3, <1>4, <1>5, <2>3 DEF Newer, Surviving
    <3> QED BY <2>1, <2>2, <3>1, <3>2, MoreIsEnough DEF Enough
  <2>4. CASE x = o /\ ~(m # n /\ n < m)
    <3>1. ASSUME NEW k \in Newer(o, n) PROVE k \in Newer(x, m)'
      <4>1. k \in Recognised \ erased /\ exit[k] = o /\ k > n
        BY <3>1 DEF Newer, Surviving
      <4>2. k \in Nat /\ n \in Nat /\ m \in Nat
        BY <1>1, <1>4, <1>5, <4>1
      <4>3. k # n /\ k > m
        BY <2>4, <4>1, <4>2
      <4> QED BY <1>1, <1>4, <2>4, <4>1, <4>3 DEF Newer, Surviving
    <3> QED BY <1>3, <2>1, <2>2, <2>4, <3>1, MoreIsEnough DEF Enough
  <2>5. m = n => x = o
    BY <1>2, <1>3, <1>4, <1>5 DEF Shows, IInv, ReadsHold
  <2> QED BY <2>3, <2>4, <2>5
<1> QED BY <1>5 DEF Counted

LEMMA KeepsUndisturbed ==
    ASSUME IInv, [Next]_vars, Undisturbed, reused' = {} PROVE Undisturbed'
<1> USE DEF Holds
<1>0. TypeOK
  BY DEF IInv
<1>1. ASSUME NEW q \in Procs, Holds(q)' PROVE num'[q] \notin erased
  <2>1. CASE Holds(q) /\ num'[q] = num[q]
    BY <2>1 DEF Undisturbed
  <2>2. CASE ~(Holds(q) /\ num'[q] = num[q])
    <3>1. ASSUME NEW p \in Procs, StartJob(p) \/ Abort(p) PROVE CopyScript(p) /\ p = q
      <4> USE DEF Moves, TypeOK
      <4>1. CASE ListBuilds(p) \/ MakeDir(p) \/ CopyRefused(p) \/ FillRefused(p) \/ Abort(p)
        BY <1>0, <1>1, <2>2, <4>1 DEF ListBuilds, MakeDir, CopyRefused, FillRefused, Abort
      <4>2. CASE FillDir(p) \/ Launch(p) \/ LaunchRefused(p) \/ OpenExitFile(p)
                 \/ OpenRefused(p)
        BY <1>0, <1>1, <2>2, <4>2 DEF FillDir, Launch, LaunchRefused, OpenExitFile, OpenRefused
      <4>3. CASE WriteExitCode(p) \/ SpawnMaintenance(p)
        BY <1>0, <1>1, <2>2, <4>3 DEF WriteExitCode, SpawnMaintenance
      <4>4. CASE CopyScript(p)
        BY <1>0, <1>1, <2>2, <4>4 DEF CopyScript
      <4> QED BY <3>1, <4>1, <4>2, <4>3, <4>4 DEF StartJob
    <3>2. ASSUME NEW p \in Procs, Maintenance(p) \/ CleanAbort(p) PROVE FALSE
      BY <1>1, <2>2, <3>2 DEF Maintenance, CleanAbort, ListDir, ReadExitCode, PickVictim, Unlink,
         Unlinked, RemoveDir, RemoveRefused, VictimGone, CleanDone, startVars
    <3>3. CopyScript(q)
      BY <1>1, <2>2, <3>1, <3>2 DEF Next, AllEnded, vars, startVars
    <3> QED BY <3>3 DEF CopyScript
  <2> QED BY <2>1, <2>2
<1>2. ASSUME NEW n \in erased' \ erased, NEW q \in Procs, Holds(q)' PROVE num'[q] # n
  <2>1. PICK p \in Procs : PickVictim(p)
    BY <1>2, ErasedChanges
  <2>2. UNCHANGED startVars /\ exit[n] \in Outcomes
    BY <1>2, <2>1, GivesUpFinished DEF PickVictim
  <2> QED BY <1>2, <2>2 DEF startVars, IInv, Owned, Outcomes
<1> QED BY <1>1, <1>2 DEF Undisturbed

LEMMA KInvStep == IInv /\ KInv /\ [Next]_vars => KInv'
<1> SUFFICES ASSUME IInv, KInv, [Next]_vars, reused' = {} PROVE Counted' /\ Undisturbed'
  BY DEF KInv
<1>1. reused = {}
  <2>1. reused \subseteq reused'
    BY DEF Next, AllEnded, vars, histVars, StartJob, Abort, ListBuilds, MakeDir, CopyScript,
       CopyRefused, FillDir, FillRefused, Launch, LaunchRefused, OpenExitFile, OpenRefused,
       WriteExitCode, SpawnMaintenance, Maintenance, CleanAbort, ListDir, ReadExitCode,
       PickVictim, Unlink, Unlinked, RemoveDir, RemoveRefused, VictimGone, CleanDone
  <2> QED BY <2>1
<1>2. Counted /\ Undisturbed
  BY <1>1 DEF KInv
<1>3. Undisturbed'
  BY <1>2, KeepsUndisturbed
<1>4. CASE erased' = erased
  BY <1>2, <1>3, <1>4, KeepsCounted
<1>5. CASE erased' # erased
  BY <1>2, <1>3, <1>5, ErasedChanges, PickCounted
<1> QED BY <1>4, <1>5

\* However many maintenance processes trim the directory at once, each from its
\* own stale listing, and whatever limits job.conf has: a build is given up only
\* when as many newer ones with its outcome stay, as long as no number was taken
\* again while it was removed.
THEOREM NewestKept == Spec => KeepsNewest
<1>1. Init => KInv
  BY DEF Init, KInv, Counted, Undisturbed, Holds
<1>2. IInv /\ KInv /\ [Next]_vars =>
        [reused = {} =>
            \A n \in erased' \ erased :
                \E o \in Outcomes :
                    /\ exit[n] = o
                    /\ Cardinality({m \in Surviving(o) : m > n}) >= Limit(o)]_vars
  <2> SUFFICES ASSUME IInv, KInv, [Next]_vars, reused = {}, NEW n \in erased' \ erased
               PROVE  \E o \in Outcomes :
                        /\ exit[n] = o
                        /\ Cardinality({m \in Surviving(o) : m > n}) >= Limit(o)
    OBVIOUS
  <2>1. PICK p \in Procs : PickVictim(p)
    BY ErasedChanges
  <2>2. n \in Recognised /\ IsVictim(p, n)
    BY <2>1 DEF PickVictim
  <2> QED BY <2>2, VictimLeavesEnough DEF KInv, Enough, Newer
<1> QED BY Invariance, KInvStep, <1>1, <1>2, PTL DEF Spec, KeepsNewest
=============================================================================
