------------------------------- MODULE Builds -------------------------------
(***************************************************************************)
(* The build directories of one job.                                       *)
(*                                                                         *)
(* jobs/<name>/ holds one directory per build, named by a number of six    *)
(* digits.  Every startjob of the job picks a number, makes the directory, *)
(* fills it, runs the script in it and writes exitcode.txt; on success it  *)
(* spawns a maintenance process, which deletes the builds beyond the       *)
(* job.conf limits.  Nothing locks the job directory: any number of        *)
(* startjob and maintenance processes work in it at once, and the only     *)
(* operation that tells two of them apart is the copy of the script, which *)
(* refuses to overwrite a file.                                            *)
(*                                                                         *)
(* A build directory is modelled by whether it exists, by who copied the   *)
(* script into it, and by what exitcode.txt says.                          *)
(***************************************************************************)
EXTENDS Naturals, FiniteSets

CONSTANTS
    Procs,          \* startjob processes; the maintenance process that p
                    \* spawns is cleaner p
    None,           \* no script in the directory
    Earlier,        \* stands for every startjob that ended before Init
    Existing,       \* numbers of the builds that are there at Init
    KeepSuccess,    \* job.conf: keep_last_success_builds
    KeepBroken,     \* job.conf: keep_last_break_builds
    MaxBuild,       \* largest number is_build recognises (999999)
    Errors          \* TRUE: file operations and launches may fail, and
                    \* processes may be killed, at any step

Recognised == 0..MaxBuild
Num == 0..(MaxBuild + 1)
Outcomes == {"success", "broken"}
ExitFile == Outcomes \cup {"none", "empty"}

ASSUME ProcsAssumption == None \notin Procs /\ Earlier \notin Procs /\ None # Earlier
ASSUME LimitsAssumption ==
    /\ KeepSuccess \in Nat
    /\ KeepBroken \in Nat
    /\ MaxBuild \in Nat
    /\ Existing \subseteq Recognised
    /\ Errors \in BOOLEAN

VARIABLES
    present,        \* numbers whose directory exists
    script,         \* script[n]: who copied the script into directory n
    exit,           \* exit[n]: content of directory n's exitcode.txt
    pc, num,        \* startjob: where it is, the number it works on
    cleaner,        \* maintenance: where it is
    toRead,         \* listed directories whose exitcode.txt is still to read
    kept,           \* kept[p][o]: load_job's map of the builds of outcome o
    victim,         \* the build being removed
    erased,         \* history: numbers whose removal has ever begun
    reused          \* history: erased numbers a startjob took again

dirVars == <<present, script, exit>>
startVars == <<pc, num>>
cleanVars == <<cleaner, toRead, kept, victim>>
histVars == <<erased, reused>>
vars == <<dirVars, startVars, cleanVars, histVars>>

StartPC == {"list", "mkdir", "copy", "fill", "launch", "running", "exiting",
            "finish", "done", "failed"}
CleanPC == {"off", "list", "scan", "unlink", "rmdir", "done", "failed"}

TypeOK ==
    /\ present \subseteq Num
    /\ script \in [Num -> Procs \cup {None, Earlier}]
    /\ exit \in [Num -> ExitFile]
    /\ pc \in [Procs -> StartPC]
    /\ num \in [Procs -> Num]
    /\ cleaner \in [Procs -> CleanPC]
    /\ toRead \in [Procs -> SUBSET Recognised]
    /\ kept \in [Procs -> [Outcomes -> SUBSET Recognised]]
    /\ victim \in [Procs -> Recognised]
    /\ erased \subseteq Recognised
    /\ reused \subseteq erased

\* The directories left by earlier builds: finished ones, and one that was
\* killed before it had an exit code.
Init ==
    /\ present = Existing
    /\ script = [n \in Num |-> IF n \in Existing THEN Earlier ELSE None]
    /\ exit \in {e \in [Num -> Outcomes \cup {"none"}] :
                    \A n \in Num : n \notin Existing => e[n] = "none"}
    /\ pc = [p \in Procs |-> "list"]
    /\ num = [p \in Procs |-> 0]
    /\ cleaner = [p \in Procs |-> "off"]
    /\ toRead = [p \in Procs |-> {}]
    /\ kept = [p \in Procs |-> [o \in Outcomes |-> {}]]
    /\ victim = [p \in Procs |-> 0]
    /\ erased = {}
    /\ reused = {}

-----------------------------------------------------------------------------
(* startjob: job::prepare_build, job::execute, main                        *)

Moves(p, from, to) == pc[p] = from /\ pc' = [pc EXCEPT ![p] = to]

\* Variant: the largest number in S itself.
LastIsNext(n, S) ==
    /\ \A m \in S : m <= n
    /\ n = 0 \/ n \in S

\* n is the successor of the largest number in S, 0 when S is empty.
IsNext(n, S) ==
    /\ \A m \in S : m < n
    /\ n = 0 \/ n - 1 \in S

ListBuilds(p) ==
    /\ Moves(p, "list", "mkdir")
    /\ \E n \in Num :
        /\ IsNext(n, present \cap Recognised)
        /\ num' = [num EXCEPT ![p] = n]
    /\ UNCHANGED <<dirVars, cleanVars, histVars>>

\* A directory that is already there is not an error.
MakeDir(p) ==
    /\ Moves(p, "mkdir", "copy")
    /\ present' = present \cup {num[p]}
    /\ UNCHANGED <<script, exit, num, cleanVars, histVars>>

\* Variant: the copy overwrites the script it finds.
CopyOverScript(p) ==
    /\ Moves(p, "copy", "fill")
    /\ num[p] \in present
    /\ script' = [script EXCEPT ![num[p]] = p]
    /\ reused' = reused \cup (erased \cap {num[p]})
    /\ UNCHANGED <<present, exit, num, cleanVars, erased>>

CopyScript(p) ==
    /\ Moves(p, "copy", "fill")
    /\ num[p] \in present
    /\ script[num[p]] = None
    /\ script' = [script EXCEPT ![num[p]] = p]
    /\ reused' = reused \cup (erased \cap {num[p]})
    /\ UNCHANGED <<present, exit, num, cleanVars, erased>>

\* The copy finds a script in the way, or the directory gone.
CopyRefused(p) ==
    /\ Moves(p, "copy", "failed")
    /\ num[p] \notin present \/ script[num[p]] # None
    /\ UNCHANGED <<dirVars, num, cleanVars, histVars>>

\* job.params, job.conf and session_id.txt.
FillDir(p) ==
    /\ Moves(p, "fill", "launch")
    /\ num[p] \in present
    /\ UNCHANGED <<dirVars, num, cleanVars, histVars>>

\* The directory is gone, or holds the job.conf of an earlier occupant.
FillRefused(p) ==
    /\ Moves(p, "fill", "failed")
    /\ num[p] \notin present \/ num[p] \in erased
    /\ UNCHANGED <<dirVars, num, cleanVars, histVars>>

Launch(p) ==
    /\ Moves(p, "launch", "running")
    /\ num[p] \in present
    /\ script[num[p]] # None
    /\ UNCHANGED <<dirVars, num, cleanVars, histVars>>

LaunchRefused(p) ==
    /\ Moves(p, "launch", "failed")
    /\ num[p] \notin present \/ script[num[p]] = None
    /\ UNCHANGED <<dirVars, num, cleanVars, histVars>>

\* The script has ended; the exit callback opens exitcode.txt, truncating it.
OpenExitFile(p) ==
    /\ Moves(p, "running", "exiting")
    /\ num[p] \in present
    /\ exit' = [exit EXCEPT ![num[p]] = "empty"]
    /\ UNCHANGED <<present, script, num, cleanVars, histVars>>

OpenRefused(p) ==
    /\ Moves(p, "running", "failed")
    /\ num[p] \notin present
    /\ UNCHANGED <<dirVars, num, cleanVars, histVars>>

\* The flush of the exit code; it is lost if the file was unlinked meanwhile.
WriteExitCode(p) ==
    /\ Moves(p, "exiting", "finish")
    /\ \E o \in Outcomes :
        exit' = [exit EXCEPT ![num[p]] = IF exit[num[p]] = "none" THEN "none" ELSE o]
    /\ UNCHANGED <<present, script, num, cleanVars, histVars>>

SpawnMaintenance(p) ==
    /\ Moves(p, "finish", "done")
    /\ cleaner' = [cleaner EXCEPT ![p] = "list"]
    /\ UNCHANGED <<dirVars, num, toRead, kept, victim, histVars>>

\* Every other error return of startjob, and its being killed.
Abort(p) ==
    /\ Errors
    /\ pc[p] \notin {"done", "failed"}
    /\ pc' = [pc EXCEPT ![p] = "failed"]
    /\ UNCHANGED <<dirVars, num, cleanVars, histVars>>

StartJob(p) ==
    \/ ListBuilds(p) \/ MakeDir(p)
    \/ CopyScript(p) \/ CopyRefused(p)
    \/ FillDir(p) \/ FillRefused(p)
    \/ Launch(p) \/ LaunchRefused(p)
    \/ OpenExitFile(p) \/ OpenRefused(p) \/ WriteExitCode(p)
    \/ SpawnMaintenance(p)

-----------------------------------------------------------------------------
(* maintenance: load_job, then job::cleanup                                *)

Cleans(p, from, to) == cleaner[p] = from /\ cleaner' = [cleaner EXCEPT ![p] = to]

\* Variant: load_job takes every name for a build.
ListAnyName(p) ==
    /\ Cleans(p, "list", "scan")
    /\ toRead' = [toRead EXCEPT ![p] = present]
    /\ UNCHANGED <<dirVars, startVars, kept, victim, histVars>>

ListDir(p) ==
    /\ Cleans(p, "list", "scan")
    /\ toRead' = [toRead EXCEPT ![p] = present \cap Recognised]
    /\ UNCHANGED <<dirVars, startVars, kept, victim, histVars>>

\* Variant: a build without an exit code is a broken one.
ReadPendingAsBroken(p) ==
    /\ cleaner[p] = "scan"
    /\ \E n \in toRead[p] :
        /\ toRead' = [toRead EXCEPT ![p] = @ \ {n}]
        /\ kept' = [kept EXCEPT ![p] =
                [o \in Outcomes |->
                    IF (exit[n] = "success") = (o = "success") THEN @[o] \cup {n} ELSE @[o]]]
    /\ UNCHANGED <<dirVars, startVars, cleaner, victim, histVars>>

\* A missing or empty exitcode.txt makes the build a pending one.
ReadExitCode(p) ==
    /\ cleaner[p] = "scan"
    /\ \E n \in toRead[p] :
        /\ toRead' = [toRead EXCEPT ![p] = @ \ {n}]
        /\ kept' = [kept EXCEPT ![p] =
                [o \in Outcomes |-> IF exit[n] = o THEN @[o] \cup {n} ELSE @[o]]]
    /\ UNCHANGED <<dirVars, startVars, cleaner, victim, histVars>>

Limit(o) == IF o = "success" THEN KeepSuccess ELSE KeepBroken

\* Variants: one build less, one build more is kept.
TooManyEarly(p, o) == Cardinality(kept[p][o]) >= Limit(o)
TooManyLate(p, o) == Cardinality(kept[p][o]) > Limit(o) + 1

TooMany(p, o) == Cardinality(kept[p][o]) > Limit(o)

\* n is the next build cleanup removes: successful ones first, oldest first.
IsVictim(p, n) ==
    \E o \in Outcomes :
        /\ TooMany(p, o)
        /\ o = "broken" => ~TooMany(p, "success")
        /\ n \in kept[p][o]
        /\ \A m \in kept[p][o] : n <= m

PickVictim(p) ==
    /\ Cleans(p, "scan", "unlink")
    /\ toRead[p] = {}
    /\ \E n \in Recognised :
        /\ IsVictim(p, n)
        /\ victim' = [victim EXCEPT ![p] = n]
        /\ erased' = erased \cup {n}
    /\ UNCHANGED <<dirVars, startVars, toRead, kept, reused>>

\* remove_all unlinks the files in the order the directory lists them.
Unlink(p) ==
    /\ cleaner[p] = "unlink"
    /\ \/ /\ script[victim[p]] # None
          /\ script' = [script EXCEPT ![victim[p]] = None]
          /\ UNCHANGED exit
       \/ /\ exit[victim[p]] # "none"
          /\ exit' = [exit EXCEPT ![victim[p]] = "none"]
          /\ UNCHANGED script
    /\ UNCHANGED <<present, startVars, cleanVars, histVars>>

IsEmpty(n) == script[n] = None /\ exit[n] = "none"

Unlinked(p) ==
    /\ Cleans(p, "unlink", "rmdir")
    /\ IsEmpty(victim[p])
    /\ UNCHANGED <<dirVars, startVars, toRead, kept, victim, histVars>>

Forget(p) == kept' = [kept EXCEPT ![p] = [o \in Outcomes |-> @[o] \ {victim[p]}]]

RemoveDir(p) ==
    /\ Cleans(p, "rmdir", "scan")
    /\ IsEmpty(victim[p])
    /\ present' = present \ {victim[p]}
    /\ Forget(p)
    /\ UNCHANGED <<script, exit, startVars, toRead, victim, histVars>>

\* Another process put a file into the directory after it was read.
RemoveRefused(p) ==
    /\ Cleans(p, "rmdir", "failed")
    /\ ~IsEmpty(victim[p])
    /\ UNCHANGED <<dirVars, startVars, toRead, kept, victim, histVars>>

\* Another maintenance removed the directory: remove_all reports success if
\* it finds nothing there, an error if the directory goes while it is read.
VictimGone(p) ==
    /\ cleaner[p] = "unlink"
    /\ victim[p] \notin present
    /\ \/ Cleans(p, "unlink", "scan") /\ Forget(p)
       \/ Cleans(p, "unlink", "failed") /\ UNCHANGED kept
    /\ UNCHANGED <<dirVars, startVars, toRead, victim, histVars>>

CleanDone(p) ==
    /\ Cleans(p, "scan", "done")
    /\ toRead[p] = {}
    /\ \A o \in Outcomes : ~TooMany(p, o)
    /\ UNCHANGED <<dirVars, startVars, toRead, kept, victim, histVars>>

CleanerEnded(p) == cleaner[p] \in {"off", "done", "failed"}

\* Every other error return of maintenance, and its being killed.
CleanAbort(p) ==
    /\ Errors
    /\ ~CleanerEnded(p)
    /\ cleaner' = [cleaner EXCEPT ![p] = "failed"]
    /\ UNCHANGED <<dirVars, startVars, toRead, kept, victim, histVars>>

Maintenance(p) ==
    \/ ListDir(p) \/ ReadExitCode(p)
    \/ PickVictim(p) \/ Unlink(p) \/ Unlinked(p)
    \/ RemoveDir(p) \/ RemoveRefused(p) \/ VictimGone(p)
    \/ CleanDone(p)

-----------------------------------------------------------------------------
StartEnded(p) == pc[p] \in {"done", "failed"}

\* Every process has ended: the only state in which nothing more happens.
AllEnded ==
    /\ \A p \in Procs : StartEnded(p) /\ CleanerEnded(p)
    /\ UNCHANGED vars

Next ==
    \/ \E p \in Procs : StartJob(p) \/ Abort(p) \/ Maintenance(p) \/ CleanAbort(p)
    \/ AllEnded

Spec == Init /\ [][Next]_vars

\* A process that can take a step takes one; in particular scripts end.
Fairness == \A p \in Procs : WF_vars(StartJob(p)) /\ WF_vars(Maintenance(p))

FairSpec == Spec /\ Fairness

-----------------------------------------------------------------------------
(* What a build number promises.                                           *)

\* startjob p is between the copy that won the number and its last use of it.
Holds(p) == pc[p] \in {"fill", "launch", "running", "exiting"}

\* The directory still carries what p put there.
Intact(p) == num[p] \in present /\ script[num[p]] = p

\* Two live builds never share a directory, although both may have made it,
\* and no one takes away the directory of a live build; unless maintenance has
\* begun to remove that number (prepare_build, the copy of the script).
ExclusiveBuild ==
    \A p \in Procs :
        Holds(p) /\ num[p] \notin erased =>
            /\ Intact(p)
            /\ \A q \in Procs : Holds(q) /\ num[q] = num[p] => q = p

\* Without I/O errors and kills, a startjob only fails when another one took
\* the number it had chosen, or maintenance was removing it (main, after
\* prepare_build and execute).
FailureMeansContention ==
    ~Errors =>
        \A p \in Procs : pc[p] = "failed" =>
            \/ num[p] \in erased
            \/ \E q \in Procs \ {p} : num[q] = num[p] /\ (Holds(q) \/ pc[q] \in {"finish", "done"})

\* Maintenance begins to remove a number for the first time only when its
\* build has finished: a startjob still at work in it, or one that was killed
\* before it had an exit code, keeps its directory (load_job's three maps).
RemovesFinishedOnly ==
    [][\A n \in erased' \ erased :
            /\ exit[n] \in Outcomes
            /\ \A p \in Procs : Holds(p) => num[p] # n]_vars

\* The builds of outcome o that count against the limit and stay.
Surviving(o) == {n \in Recognised \ erased : exit[n] = o}

\* However many maintenance processes run at once, each on its own stale
\* listing, a number is first removed only when as many newer builds with the
\* same outcome stay as job.conf says to keep (job::cleanup).  Once a number
\* was reused this is no longer so: a startjob that listed the directory before
\* settles where maintenance is removing.
KeepsNewest ==
    [][reused = {} =>
        \A n \in erased' \ erased :
            \E o \in Outcomes :
                /\ exit[n] = o
                /\ Cardinality({m \in Surviving(o) : m > n}) >= Limit(o)]_vars

\* An exit code, once written, stays what it is until maintenance removes the
\* build (exit callback of job::execute).
OutcomeIsFinal ==
    [][\A n \in Num \ erased' :
            exit[n] \in Outcomes => exit'[n] = exit[n]]_vars

\* When all is over and some startjob got through to its maintenance, each
\* outcome has at most as many builds as job.conf keeps, or some maintenance
\* stopped at an error (startjob's spawn_process, maintenance, job::cleanup).
Trimmed ==
    \A o \in Outcomes :
        Cardinality({n \in Recognised \cap present : exit[n] = o}) <= Limit(o)

EventuallyTrimmed ==
    <>[](\/ Trimmed
         \/ \A p \in Procs : pc[p] = "failed"
         \/ \E p \in Procs : cleaner[p] = "failed")
=============================================================================
