----------------------------- MODULE Deployment -----------------------------
(***************************************************************************)
(* deploy/deploy.py and the jobs it tests a deployment with: pyinternal's  *)
(* core_test and the two jobs core_test starts, written with cis.py.       *)
(*                                                                         *)
(* deploy.py makes the directory, fills it, runs startjob on core_test and *)
(* reads its output to the end of the pipe.  The verdict is in the last    *)
(* line, "Exit code: N", and in what startjob returns; cis.py judges the   *)
(* jobs it starts in the same way.  startjob leaves maintenance behind,    *)
(* which has inherited the pipe, and what it prints comes after that line. *)
(*                                                                         *)
(* The modules StartJob, SessionStore and Programs have the programs'      *)
(* steps; here each call of one is a step, and all of them together must   *)
(* do what core_test asserts.  A few calls may fail, for any reason.       *)
(***************************************************************************)
EXTENDS Naturals, Sequences, SequencesExt

CONSTANTS
    Deployers,      \* runs of deploy.py with one and the same --deploy_dir
    Inside,         \* those that a job's script runs, in its session
    Nobody,
    MaxFaults       \* bound on the calls that fail

ASSUME DeploymentAssumption == Nobody \notin Deployers /\ Inside \subseteq Deployers /\ MaxFaults \in Nat

-----------------------------------------------------------------------------
(* The scripts, as sequences of calls.  key and val are the arguments, want *)
(* is what is asserted of the answer; a val or want of "..." stands for     *)
(* what getparam said before, and for anything.                            *)

Do(op, key, val, want) == [op |-> op, key |-> key, val |-> val, want |-> want]

without_args == <<Do("owner", "", "", "false")>>

with_args ==
    <<Do("owner", "", "", "false"),
      Do("getparam", "prm1", "", "..."), Do("getparam", "prm2", "", "..."),
      Do("getparam", "prm3", "", "..."), Do("setvalue", "prm1", "...", ""),
      Do("setvalue", "prm2", "...", ""), Do("setvalue", "prm3", "...", "")>>

core_test ==
    <<Do("owner", "", "", "true"),
      Do("setvalue", "test=", "test", ""), Do("getvalue", "test=", "", "test"),
      Do("startjob", "without_args", "", ""),
      Do("getvalue", "last_job_name", "", "without_args"),
      Do("getvalue", "last_job_build_number", "", "number"),
      Do("setparam", "prm2", "set", ""), Do("setparam", "prm3", "replaced", ""),
      Do("startjob", "with_args", "", ""),
      Do("getvalue", "prm1", "", "why?"), Do("getvalue", "prm2", "", "set"),
      Do("getvalue", "prm3", "", "replaced")>>

Scripts == [core_test |-> core_test, without_args |-> without_args, with_args |-> with_args]

Params == {"prm1", "prm2", "prm3"}
Keys == Params \cup {"test=", "last_job_name", "last_job_build_number"}

\* job.params; the job without a file has none.
Defaults == [prm1 |-> "why?", prm2 |-> "", prm3 |-> "third"]

\* The directories, the executables, cis.conf and pyinternal, in this order.
Parts == <<"core", "docs", "jobs", "logs", "sessions", "executables", "conf", "pyinternal">>

VARIABLES
    at,             \* at[d]: where deploy.py d is
    check,          \* check[d]: without --disable-check
    maker,          \* who made the directory
    parts,          \* what is in it, and who put it there
    frames,         \* the scripts that run: each started by the one before
    values, params, \* the session's values and parameters, "" where unset
    answer,         \* what startjob last returned and printed last
    faults,         \* how many calls have failed
    passed          \* history: the calls whose assertions held

sessionVars == <<values, params>>
testVars == <<frames, sessionVars, answer, passed>>
vars == <<at, check, maker, parts, testVars, faults>>

Texts == DOMAIN Scripts \cup {"", "test", "number", "set", "replaced", "why?", "third"}
Frame == [job : DOMAIN Scripts, line : Nat, got : [Params -> Texts], failed : BOOLEAN]

TypeOK ==
    /\ at \in [Deployers -> {"look", "mkdir", "fill", "test", "wait",
                             "refused", "failed", "success"}]
    /\ check \in [Deployers -> BOOLEAN]
    /\ maker \in Deployers \cup {Nobody} /\ parts \subseteq ToSet(Parts) \X Deployers
    /\ frames \in Seq(Frame)
    /\ \A i \in DOMAIN frames : frames[i].line \in 1 .. Len(Scripts[frames[i].job]) + 1
    /\ values \in [Keys -> Texts] /\ params \in [Params -> Texts]
    /\ answer \in [returned : {0, 1}, line : {"zero", "one", "other"}]
    /\ faults \in 0 .. MaxFaults
    /\ \A p \in passed : p[1] \in DOMAIN Scripts /\ p[2] \in DOMAIN Scripts[p[1]]

Quiet == [returned |-> 0, line |-> "other"]

Init ==
    /\ at = [d \in Deployers |-> "look"] /\ check \in [Deployers -> BOOLEAN]
    /\ maker = Nobody /\ parts = {} /\ frames = <<>>
    /\ values = [k \in Keys |-> ""] /\ params = [k \in Params |-> ""]
    /\ answer = Quiet /\ faults = 0 /\ passed = {}

-----------------------------------------------------------------------------
(* deploy.py                                                               *)

CanFail == faults < MaxFaults /\ faults' = faults + 1
Works == UNCHANGED faults

\* The guards of main: arguments, executables, and that nothing is there yet.
Look(d) ==
    /\ at[d] = "look"
    /\ at' = [at EXCEPT ![d] = IF maker = Nobody THEN "mkdir" ELSE "refused"] /\ Works
    /\ UNCHANGED <<check, maker, parts, testVars>>
Refuse(d) ==
    /\ at[d] = "look" /\ at' = [at EXCEPT ![d] = "refused"] /\ Works
    /\ UNCHANGED <<check, maker, parts, testVars>>

\* Variant: a directory that another run has made meanwhile will do.
MkdirIfMissing(d) ==
    /\ at[d] = "mkdir" /\ at' = [at EXCEPT ![d] = "fill"] /\ Works
    /\ maker' = d /\ UNCHANGED <<check, parts, testVars>>

\* os.mkdir throws if another run was faster.
Mkdir(d) ==
    /\ at[d] = "mkdir" /\ Works
    /\ IF maker = Nobody
       THEN at' = [at EXCEPT ![d] = "fill"] /\ maker' = d
       ELSE at' = [at EXCEPT ![d] = "failed"] /\ UNCHANGED maker
    /\ UNCHANGED <<check, parts, testVars>>

Made(d) == {p \in ToSet(Parts) : <<p, d>> \in parts}

\* The next of the parts; an exception leaves the rest undone.
Fill(d) ==
    LET n == CHOOSE i \in DOMAIN Parts : Parts[i] \notin Made(d)
                        /\ \A j \in 1 .. i - 1 : Parts[j] \in Made(d) IN
    /\ at[d] = "fill" /\ Made(d) # ToSet(Parts)
    /\ \/ parts' = parts \cup {<<Parts[n], d>>} /\ Works /\ UNCHANGED at
       \/ CanFail /\ at' = [at EXCEPT ![d] = "failed"] /\ UNCHANGED parts
    /\ UNCHANGED <<check, maker, testVars>>

\* startjob is called, unless the check is disabled.
RunTest(d) ==
    /\ at[d] = "fill" /\ Made(d) = ToSet(Parts)
    /\ at' = [at EXCEPT ![d] = IF check[d] THEN "test" ELSE "success"]
    /\ UNCHANGED <<check, maker, parts, testVars, faults>>

\* Variant: only what startjob returns counts.
GoodIfReturned(a) == a.returned = 0

Good(a) == a.returned = 0 /\ a.line = "zero"

\* Variant: the output is read until the exit code comes.
VerdictOnceTold(d) ==
    /\ at[d] = "wait" /\ frames = <<>> /\ answer.line # "other"
    /\ at' = [at EXCEPT ![d] = IF Good(answer) THEN "success" ELSE "failed"]
    /\ UNCHANGED <<check, maker, parts, testVars, faults>>

Verdict(d) ==
    /\ at[d] = "wait" /\ frames = <<>>
    /\ at' = [at EXCEPT ![d] = IF Good(answer) THEN "success" ELSE "failed"]
    /\ UNCHANGED <<check, maker, parts, testVars, faults>>

-----------------------------------------------------------------------------
(* startjob                                                                *)

\* Variant: the defaults stay.
DefaultsOnly(set) == Defaults

\* prepare_params; an unset parameter is not in the session's file.
Prepared(set) == [k \in Params |-> IF set[k] = "" THEN Defaults[k] ELSE set[k]]

Begun(job) ==
    [job |-> job, line |-> 1, failed |-> FALSE,
     got |-> IF job = "with_args" THEN Prepared(params) ELSE [k \in Params |-> ""]]

Top == Last(frames)

\* invoke_session: the environment has a session already.
InSession == Len(frames) > 1 \/ maker \in Inside

\* If an assertion does not hold, its script ends there.
Judged(f, holds) == IF holds THEN [f EXCEPT !.line = @ + 1] ELSE [f EXCEPT !.failed = TRUE]

\* An assertion of the script that runs last among fs.
Asserts(fs, holds) ==
    /\ frames' = [fs EXCEPT ![Len(fs)] = Judged(@, holds)]
    /\ passed' = IF holds THEN passed \cup {<<Last(fs).job, Last(fs).line>>} ELSE passed

\* startjob has ended: deploy.py or the script that called it has its answer.
Answer(fs, a) ==
    /\ answer' = a
    /\ IF fs = <<>> THEN frames' = <<>> /\ UNCHANGED passed ELSE Asserts(fs, Good(a))

\* startjob fails before it runs a script, or the script begins.
Call(job) ==
    \/ Works /\ frames' = Append(frames, Begun(job)) /\ UNCHANGED <<answer, passed>>
    \/ CanFail /\ Answer(frames, [returned |-> 1, line |-> "other"])

CallCoreTest(d) ==
    /\ at[d] = "test" /\ at' = [at EXCEPT ![d] = "wait"] /\ Call("core_test")
    /\ UNCHANGED <<check, maker, parts, sessionVars>>

Ended == frames # <<>> /\ (Top.failed \/ Top.line > Len(Scripts[Top.job]))
Code == IF Top.failed THEN "one" ELSE "zero"

\* Variant: the name is left to the session by the job that opened it.
LastJobOfOpener(v) == IF InSession THEN v ELSE [v EXCEPT !["last_job_name"] = Top.job]

\* set_value of last_job_name and of last_job_build_number, in another's session.
Named(v) == [v EXCEPT !["last_job_name"] = Top.job]
LastJob(v) == IF InSession THEN [Named(v) EXCEPT !["last_job_build_number"] = "number"] ELSE v

\* The script has ended.  startjob may fail before it prints the exit code, with
\* one value set or none; or the code is the last line, unless maintenance
\* cannot be started or has something to say.
Finish ==
    /\ Ended
    /\ \/ Works /\ Answer(Front(frames), [returned |-> 0, line |-> Code]) /\ values' = LastJob(values)
       \/ /\ CanFail /\ Answer(Front(frames), [returned |-> 1, line |-> "other"])
          /\ values' \in {values} \cup (IF InSession THEN {Named(values)} ELSE {})
       \/ /\ CanFail /\ values' = LastJob(values)
          /\ \/ Answer(Front(frames), [returned |-> 1, line |-> Code])
             \/ Answer(Front(frames), [returned |-> 0, line |-> "other"])
    /\ UNCHANGED <<at, check, maker, parts, params>>

-----------------------------------------------------------------------------
(* The scripts: the next call of the one that runs                         *)

Now == Scripts[Top.job][Top.line]
Runs(op) == frames # <<>> /\ ~Ended /\ Now.op = op

\* CisCurrentBuild() finds the executables, and the session is the script's own
\* or not.
OwnerTest ==
    /\ Runs("owner") /\ Works
    /\ Asserts(frames, ("executables" \in Made(maker)) /\ (Now.want = "true") = ~InSession)
    /\ UNCHANGED <<at, check, maker, parts, sessionVars, answer>>

\* What is in the build's own job.params.
get_param(key) == Top.got[key]

Value == IF Now.val = "..." THEN get_param(Now.key) ELSE Now.val

setvalue ==
    /\ Runs("setvalue")
    /\ \/ Works /\ values' = [values EXCEPT ![Now.key] = Value] /\ Asserts(frames, TRUE)
       \/ CanFail /\ UNCHANGED values /\ Asserts(frames, FALSE)
    /\ UNCHANGED <<at, check, maker, parts, params, answer>>

getvalue ==
    /\ Runs("getvalue")
    /\ \/ Works /\ Asserts(frames, values[Now.key] = Now.want)
       \/ CanFail /\ Asserts(frames, FALSE)
    /\ UNCHANGED <<at, check, maker, parts, sessionVars, answer>>

setparam ==
    /\ Runs("setparam")
    /\ \/ Works /\ params' = [params EXCEPT ![Now.key] = Now.val] /\ Asserts(frames, TRUE)
       \/ CanFail /\ UNCHANGED params /\ Asserts(frames, FALSE)
    /\ UNCHANGED <<at, check, maker, parts, values, answer>>

\* The build's own parameters are read: what startjob has prepared.
getparam ==
    /\ Runs("getparam")
    /\ \/ Works /\ Asserts(frames, TRUE)
       \/ CanFail /\ Asserts(frames, FALSE)
    /\ UNCHANGED <<at, check, maker, parts, sessionVars, answer>>

startjob == Runs("startjob") /\ Call(Now.key) /\ UNCHANGED <<at, check, maker, parts, sessionVars>>

-----------------------------------------------------------------------------
Deploy(d) ==
    \/ Look(d) \/ Refuse(d) \/ Mkdir(d) \/ Fill(d) \/ RunTest(d) \/ CallCoreTest(d) \/ Verdict(d)
Script == OwnerTest \/ setvalue \/ getvalue \/ setparam \/ getparam \/ startjob \/ Finish

Next == Script \/ \E d \in Deployers : Deploy(d)

Spec == Init /\ [][Next]_vars
FairSpec == Spec /\ WF_vars(Script) /\ \A d \in Deployers : WF_vars(Deploy(d))

-----------------------------------------------------------------------------
(* Properties                                                              *)

\* "Deployment success" is said of a directory with all its parts and, unless
\* the check was disabled, after every assertion of core_test and its jobs held:
\* no exit code is lost between the scripts and the last line.
SuccessMeansTested ==
    \A d \in Deployers : at[d] = "success" =>
        /\ Made(d) = ToSet(Parts)
        /\ check[d] => \A j \in DOMAIN Scripts : \A n \in DOMAIN Scripts[j] : <<j, n>> \in passed

\* A deployment that nothing disturbs is not called a failure: the parameters
\* set for a job, the defaults of the others, the values it leaves and its name
\* arrive as core_test expects them.  Inside a session it is: core_test wants to
\* own the session, and deploy.py passes on its environment (os.environ.copy).
FailureHasCause ==
    \A d \in Deployers : at[d] = "failed" => faults > 0 \/ maker # d \/ d \in Inside

\* Of two runs for one directory, one fills it (os.mkdir, not os.path.exists).
OneFills == \A x, y \in parts : x[2] = y[2]

\* Every run of deploy.py comes to an end.
DeployEnds == \A d \in Deployers : <>(at[d] \in {"refused", "failed", "success"})
=============================================================================
