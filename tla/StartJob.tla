------------------------------ MODULE StartJob ------------------------------
(***************************************************************************)
(* The startjob program, main to exit, and the tree its processes form.     *)
(*                                                                          *)
(* An operator (or cron) starts a job; its script starts further jobs, sets *)
(* parameters for them, and may leave some running in the background.  All  *)
(* a process knows of its ancestors is in its environment: the session, the *)
(* job and build it belongs to, and those of the startjob above.  A session *)
(* is opened by the first startjob and named after it; the others inherit   *)
(* it, take their parameters from its .prm file and leave the name and the  *)
(* number of their build in its .dat file.                                  *)
(*                                                                          *)
(* What happens inside a build directory, a rewrite of a session file or a  *)
(* run of a script is in Builds, SessionStore and JobRunner.  A parameter's *)
(* value is abstracted to the process that chose it: 0 for the default of   *)
(* job.params, else the startjob that was given or typed it, or whose       *)
(* script set it.                                                           *)
(***************************************************************************)
EXTENDS Naturals, FiniteSets

CONSTANTS
    N,              \* startjob processes, numbered in the order they start
    Jobs,
    Params,         \* names of parameters
    JobParams,      \* JobParams[j]: the parameters job.params declares for j
    Invocations,    \* the command lines in use, see Invocation
    MaxRoots,       \* bound: startjobs the operator starts
    None,           \* an unset environment variable
    MaxFailures     \* bound: startjobs that fail or are killed

Procs == 1 .. N
Operator == 0
Default == 0

\* predefined: --params is there, and gives the parameters in given.  held: the process keeps the stdout or
\* stderr of the script that starts it, so the run of that script waits for it.
Invocation == [job : Jobs, new : BOOLEAN, predefined : BOOLEAN,
               given : SUBSET Params, held : BOOLEAN]

ASSUME StartJobAssumption ==
    /\ N \in Nat /\ MaxRoots \in Nat /\ None \notin Jobs \cup Nat
    /\ JobParams \in [Jobs -> SUBSET Params]
    /\ Invocations \subseteq Invocation /\ Invocations # {}
    /\ MaxFailures \in Nat

VARIABLES
    pc,             \* pc[p]: where startjob p is in main
    parent,         \* parent[p]: the startjob whose script started p, or Operator
    inv,            \* inv[p]: its command line
    env,            \* env[p]: its environment, as std_os.get_env_var reads it
    ctx,            \* ctx[p]: the environment context hands to the script
    params,         \* params[p]: what it writes to job.params of its build
    build,          \* build[p]: its build number
    script,         \* script[p]: "none", "running", "ended"
    status,         \* status[p]: exit status, "none" before it has one
    prm,            \* prm[s]: the .prm file of the session that s opened
    last,           \* last[s]: last_job_name and number in its .dat file
    cisLog,         \* cisLog[s]: what cis.log says of it
    due,            \* ghost, due[p]: what prm held when p needed it
    calm            \* ghost: no script had two startjobs at once, none was
                    \* left behind or killed

procVars == <<pc, parent, inv, env, ctx, params, build, script, status, due>>
storeVars == <<prm, last, cisLog>>
vars == <<procVars, storeVars, calm>>

Running == {"load", "prepare", "run", "setname",
            "setnumber", "spawn"}
Environment == [session : Procs \cup {None},
                job : Jobs \cup {None}, build : Nat \cup {None},
                parentJob : Jobs \cup {None}, parentBuild : Nat \cup {None}]
NoEnvironment == [session |-> None, job |-> None, build |-> None,
                  parentJob |-> None, parentBuild |-> None]

Values == Procs \cup {Default}
ParamsOf(p) == JobParams[inv[p].job]
Session(p) == ctx[p].session
OpenedByMe(p) == Session(p) = p

TypeOK ==
    /\ pc \in [Procs -> Running \cup {"unborn", "gone", "killed", "crashed"}]
    /\ parent \in [Procs -> Procs \cup {Operator}]
    /\ inv \in [Procs -> Invocations]
    /\ env \in [Procs -> Environment] /\ ctx \in [Procs -> Environment]
    /\ \A p \in Procs : params[p] \in [ParamsOf(p) -> Values]
    /\ build \in [Procs -> Nat \cup {None}]
    /\ script \in [Procs -> {"none", "running", "ended"}]
    /\ status \in [Procs -> {"none", "ok", "fail"}]
    /\ prm \in [Procs -> [Params -> Procs \cup {None}]]
    /\ last \in [Procs -> [job : Jobs \cup {None}, build : Nat \cup {None}]]
    /\ cisLog \in [Procs -> {"none", "opened", "closed"}]
    /\ due \in [Procs -> [Params -> Procs \cup {None}]]
    /\ calm \in BOOLEAN

Unset == [k \in Params |-> None]
Defaults(j) == [k \in JobParams[j] |-> Default]

AnyInvocation == CHOOSE i \in Invocations : TRUE

Init ==
    /\ pc = [p \in Procs |-> "unborn"]
    /\ parent = [p \in Procs |-> Operator]
    /\ inv = [p \in Procs |-> AnyInvocation]
    /\ params = [p \in Procs |-> Defaults(AnyInvocation.job)]
    /\ env = [p \in Procs |-> NoEnvironment]
    /\ ctx = [p \in Procs |-> NoEnvironment]
    /\ build = [p \in Procs |-> None]
    /\ script = [p \in Procs |-> "none"]
    /\ status = [p \in Procs |-> "none"]
    /\ prm = [s \in Procs |-> Unset]
    /\ last = [s \in Procs |-> [job |-> None, build |-> None]]
    /\ cisLog = [s \in Procs |-> "none"]
    /\ due = [p \in Procs |-> Unset]
    /\ calm = TRUE

Over(p) == pc[p] \in {"gone", "killed", "crashed"}

MayFail == Cardinality({q \in Procs : status[q] = "fail"}) < MaxFailures

Goto(p, label) == pc' = [pc EXCEPT ![p] = label]

\* A session is inherited through the environment e, unless there is none or
\* --new_session was given.
InvokeSession(p, e, new) ==
    LET inherited == ~new /\ e.session # None
    IN  /\ ctx' = [ctx EXCEPT ![p] =
                      [e EXCEPT !.session = IF inherited THEN @ ELSE p]]
        /\ cisLog' = IF inherited THEN cisLog ELSE [cisLog EXCEPT ![p] = "opened"]

\* A new startjob, up to invoke_session and the entry of a session it opens in
\* cis.log.  The operator's shell has none of the variables, a script passes on
\* what its own startjob gave it.
Start(p, q) ==
    /\ pc[p] = "unborn" /\ \A r \in 1 .. p - 1 : pc[r] # "unborn"
    /\ IF q = Operator
       THEN Cardinality({r \in 1 .. p - 1 : parent[r] = Operator}) < MaxRoots
       ELSE script[q] = "running"
    /\ parent' = [parent EXCEPT ![p] = q]
    /\ Goto(p, "load")
    /\ \E i \in Invocations :
          /\ inv' = [inv EXCEPT ![p] = i]
          /\ params' = [params EXCEPT ![p] = Defaults(i.job)]
          /\ LET e == IF q = Operator THEN NoEnvironment ELSE ctx[q]
             IN  env' = [env EXCEPT ![p] = e] /\ InvokeSession(p, e, i.new)
          /\ calm' = (calm /\ (q # Operator => i.held
                               /\ \A r \in Procs : parent[r] = q => Over(r)))
    /\ UNCHANGED <<build, script, status, due, prm, last>>

\* main returns: the session's destructor runs the handler that logs its end.
Leave(p, how) ==
    /\ status' = [status EXCEPT ![p] = how]
    /\ cisLog' = IF OpenedByMe(p) THEN [cisLog EXCEPT ![p] = "closed"] ELSE cisLog
    /\ Goto(p, "gone")

\* Variant: the program exits instead of returning from main.
LoadExits(p) ==
    /\ MayFail /\ pc[p] = "load"
    /\ status' = [status EXCEPT ![p] = "fail"]
    /\ Goto(p, "gone")
    /\ UNCHANGED <<parent, inv, env, ctx, params, build, script, due, storeVars, calm>>

\* load_job fails: the job is not there or its files cannot be read.
LoadRefused(p) ==
    /\ MayFail /\ pc[p] = "load"
    /\ Leave(p, "fail")
    /\ UNCHANGED <<parent, inv, env, ctx, params, build, script, due,
                   prm, last, calm>>

\* load_job has read the parameters and their defaults.  A session's opener
\* without --params asks for each; --params wins over the session; the others
\* read what the session holds.
Asks(p) == ParamsOf(p) # {} /\ OpenedByMe(p) /\ ~inv[p].predefined

\* Variant: the session's parameters win over --params.
InheritsAnyway(p) == ParamsOf(p) # {} /\ ~OpenedByMe(p)

Inherits(p) == ParamsOf(p) # {} /\ ~OpenedByMe(p) /\ ~inv[p].predefined

WithParams(p, choice) ==
    /\ pc[p] = "load"
    /\ params' = [params EXCEPT ![p] = choice]
    /\ Goto(p, "prepare")

\* Enter keeps the default of job.params.
TypeParams(p) ==
    /\ Asks(p)
    /\ \E typed \in SUBSET ParamsOf(p) :
          WithParams(p, [k \in ParamsOf(p) |-> IF k \in typed THEN p ELSE params[p][k]])
    /\ UNCHANGED <<parent, inv, env, ctx, build, script, status, due, storeVars, calm>>

\* What was typed cannot be decoded.
TypedInvalid(p) ==
    /\ MayFail /\ pc[p] = "load" /\ Asks(p)
    /\ Leave(p, "fail")
    /\ UNCHANGED <<parent, inv, env, ctx, params, build, script, due,
                   prm, last, calm>>

UseGiven(p) ==
    /\ inv[p].predefined
    /\ WithParams(p, [k \in ParamsOf(p) |->
                         IF k \in inv[p].given THEN p ELSE params[p][k]])
    /\ UNCHANGED <<parent, inv, env, ctx, build, script, status, due, storeVars, calm>>

\* Variant: a parameter that the session does not hold is read too.
UseSessionUnfound(p) ==
    /\ Inherits(p)
    /\ WithParams(p, [k \in ParamsOf(p) |-> prm[Session(p)][k]])
    /\ due' = [due EXCEPT ![p] = prm[Session(p)]]
    /\ UNCHANGED <<parent, inv, env, ctx, build, script, status, storeVars, calm>>

\* prepare_params
UseSession(p) ==
    /\ Inherits(p)
    /\ LET set == prm[Session(p)]
       IN  /\ WithParams(p, [k \in ParamsOf(p) |->
                                IF set[k] # None THEN set[k] ELSE params[p][k]])
           /\ due' = [due EXCEPT ![p] = set]
    /\ UNCHANGED <<parent, inv, env, ctx, build, script, status, storeVars, calm>>

\* prepare_params finds a .prm file that it cannot open or read and says so in
\* ec; main goes on, and the create_directory of prepare_build clears ec.
SessionUnreadable(p) ==
    /\ MayFail /\ Inherits(p)
    /\ WithParams(p, params[p])
    /\ due' = [due EXCEPT ![p] = prm[Session(p)]]
    /\ UNCHANGED <<parent, inv, env, ctx, build, script, status, storeVars, calm>>

NoParams(p) ==
    /\ ParamsOf(p) = {} /\ ~inv[p].predefined
    /\ WithParams(p, params[p])
    /\ UNCHANGED <<parent, inv, env, ctx, build, script, status, due, storeVars, calm>>

BuildsOf(j) == {q \in Procs : build[q] # None /\ inv[q].job = j}

\* Variant: the parent's variables are read after its own were set.
LaunchReadsOwn(p) ==
    /\ pc[p] = "prepare"
    /\ LET n == Cardinality(BuildsOf(inv[p].job))
       IN  /\ build' = [build EXCEPT ![p] = n]
           /\ ctx' = [ctx EXCEPT ![p] =
                 [session |-> @.session, job |-> inv[p].job, build |-> n,
                  parentJob |-> inv[p].job, parentBuild |-> n]]
    /\ script' = [script EXCEPT ![p] = "running"]
    /\ Goto(p, "run")
    /\ UNCHANGED <<parent, inv, env, params, status, due, storeVars, calm>>

\* prepare_build takes the next number of the job (how, and against whom, is in
\* Builds), and execute launches the script.  Of its environment, the parent's
\* job and build come from the environment of the process, not from the context
\* that is changed here.
Launch(p) ==
    /\ pc[p] = "prepare"
    /\ LET n == Cardinality(BuildsOf(inv[p].job))
       IN  /\ build' = [build EXCEPT ![p] = n]
           /\ ctx' = [ctx EXCEPT ![p] =
                 [session     |-> @.session,
                  job         |-> inv[p].job,
                  build       |-> n,
                  parentJob   |-> IF env[p].job # None THEN env[p].job ELSE @.parentJob,
                  parentBuild |-> IF env[p].build # None THEN env[p].build
                                                         ELSE @.parentBuild]]
    /\ script' = [script EXCEPT ![p] = "running"]
    /\ Goto(p, "run")
    /\ UNCHANGED <<parent, inv, env, params, status, due, storeVars, calm>>

\* prepare_build or execute returns with an error before there is a script; the
\* directory may have been made.
LaunchRefused(p) ==
    /\ MayFail /\ pc[p] = "prepare"
    /\ Leave(p, "fail")
    /\ \E n \in {None, Cardinality(BuildsOf(inv[p].job))} :
          build' = [build EXCEPT ![p] = n]
    /\ UNCHANGED <<parent, inv, env, ctx, params, script, due, prm, last, calm>>

\* The script of p runs setparam: a program of the session it finds in its
\* environment.
SetParam(p, k) ==
    /\ script[p] = "running"
    /\ prm' = [prm EXCEPT ![Session(p)][k] = p]
    /\ UNCHANGED <<procVars, last, cisLog, calm>>

ScriptEnds(p) ==
    /\ script[p] = "running"
    /\ script' = [script EXCEPT ![p] = "ended"]
    /\ UNCHANGED <<pc, parent, inv, env, ctx, params, build, status, due,
                   storeVars, calm>>

\* Variant: run ends with the script and leaves its output unread.
ScriptGone(p) == script[p] = "ended"

\* run returns when the script has ended and nobody holds its output: see
\* JobRunner.
Drained(p) ==
    /\ script[p] = "ended"
    /\ \A q \in Procs : parent[q] = p /\ inv[q].held => Over(q)

RunReturns(p) ==
    /\ pc[p] = "run" /\ Drained(p)
    /\ Goto(p, IF OpenedByMe(p) THEN "spawn" ELSE "setname")
    /\ UNCHANGED <<parent, inv, env, ctx, params, build, script, status, due,
                   storeVars, calm>>

\* execute reports an error, of the exit code's file or of the run itself.
RunRefused(p) ==
    /\ MayFail /\ pc[p] = "run" /\ Drained(p)
    /\ Leave(p, "fail")
    /\ UNCHANGED <<parent, inv, env, ctx, params, build, script, due,
                   prm, last, calm>>

\* The two set_value that tell the script above which build this was.
SetName(p) ==
    /\ pc[p] = "setname"
    /\ last' = [last EXCEPT ![Session(p)].job = inv[p].job]
    /\ Goto(p, "setnumber")
    /\ UNCHANGED <<parent, inv, env, ctx, params, build, script, status, due,
                   prm, cisLog, calm>>

\* Variant: the number is taken from the environment.
SetNumberOfEnv(p) ==
    /\ pc[p] = "setnumber"
    /\ last' = [last EXCEPT ![Session(p)].build = env[p].build]
    /\ Goto(p, "spawn")
    /\ UNCHANGED <<parent, inv, env, ctx, params, build, script, status, due,
                   prm, cisLog, calm>>

SetNumber(p) ==
    /\ pc[p] = "setnumber"
    /\ last' = [last EXCEPT ![Session(p)].build = build[p]]
    /\ Goto(p, "spawn")
    /\ UNCHANGED <<parent, inv, env, ctx, params, build, script, status, due,
                   prm, cisLog, calm>>

SetRefused(p) ==
    /\ MayFail /\ pc[p] \in {"setname", "setnumber"}
    /\ Leave(p, "fail")
    /\ UNCHANGED <<parent, inv, env, ctx, params, build, script, due,
                   prm, last, calm>>

\* maintenance is started and main returns; maintenance itself is in Builds.
SpawnMaintenance(p) ==
    /\ pc[p] = "spawn"
    /\ Leave(p, "ok")
    /\ UNCHANGED <<parent, inv, env, ctx, params, build, script, due,
                   prm, last, calm>>

\* What list_directory throws in load_job and in prepare_build, before it makes
\* the directory, and spawn in the end, nothing catches: no destructor runs.
Throws(p) ==
    /\ MayFail /\ pc[p] \in {"load", "prepare", "spawn"}
    /\ status' = [status EXCEPT ![p] = "fail"]
    /\ Goto(p, "crashed")
    /\ UNCHANGED <<parent, inv, env, ctx, params, build, script, due,
                   storeVars, calm>>

\* The startjob is killed; its script is not.
Kill(p) ==
    /\ MayFail /\ pc[p] \in Running
    /\ status' = [status EXCEPT ![p] = "fail"]
    /\ Goto(p, "killed")
    /\ calm' = FALSE
    /\ UNCHANGED <<parent, inv, env, ctx, params, build, script, due, storeVars>>

Step(p) ==
    \/ LoadRefused(p)
    \/ TypeParams(p) \/ TypedInvalid(p) \/ UseGiven(p)
    \/ UseSession(p) \/ SessionUnreadable(p) \/ NoParams(p)
    \/ Launch(p) \/ LaunchRefused(p)
    \/ RunReturns(p) \/ RunRefused(p)
    \/ SetName(p) \/ SetNumber(p) \/ SetRefused(p)
    \/ SpawnMaintenance(p) \/ Throws(p)

\* The system stops when nothing is left running.
AllEnded ==
    /\ \A p \in Procs : pc[p] \notin Running /\ script[p] # "running"
    /\ UNCHANGED vars

Next ==
    \/ \E p \in Procs :
          \/ \E q \in Procs \cup {Operator} : Start(p, q)
          \/ Step(p) \/ ScriptEnds(p) \/ Kill(p)
          \/ \E k \in Params : SetParam(p, k)
    \/ AllEnded

Spec == Init /\ [][Next]_vars

\* While a startjob can take a step or a script can end, one of them does at
\* last: the system runs them, and scripts come to their end.
FairSpec == Spec /\ WF_vars(\E p \in Procs : Step(p) \/ ScriptEnds(p))

-----------------------------------------------------------------------------
(* Properties *)

Live(p) == pc[p] \in Running \/ script[p] = "running"

\* The startjobs from p up to the one the operator started.
Line[p \in Procs] ==
    {p} \cup (IF parent[p] = Operator THEN {} ELSE Line[parent[p]])

\* A session ends after all that belongs to it.  When its end is in cis.log no
\* startjob or script of the session is at work, except below one that was left
\* behind in the background or killed (the run of a script waits for its
\* output, startjob's destructor order closes the session last).
SessionClosesLast ==
    \A p \in Procs :
        Live(p) /\ Session(p) # None /\ cisLog[Session(p)] = "closed" =>
            \E q \in Line[p] : ~inv[q].held \/ pc[q] = "killed"

\* A script is told the truth about where it runs: its own job and build, and
\* the job and build whose script started its startjob, however deep the tree
\* and whatever session it belongs to.
ScriptKnowsItsPlace ==
    \A p \in Procs :
        script[p] = "running" =>
            /\ ctx[p].job = inv[p].job /\ ctx[p].build = build[p]
            /\ IF parent[p] = Operator
               THEN ctx[p].parentJob = None /\ ctx[p].parentBuild = None
               ELSE /\ ctx[p].parentJob = inv[parent[p]].job
                    /\ ctx[p].parentBuild = build[parent[p]]

\* Parameters do not cross sessions: what is in job.params of a build is the
\* default, or was typed or given to this startjob, or was set by a script of
\* the same session, and never the latter when --params was used.
ParamsStayInSession ==
    \A p \in Procs : \A k \in ParamsOf(p) :
        LET from == params[p][k]
        IN  from \notin {Default, p} =>
                /\ script[from] # "none" /\ Session(from) = Session(p)
                /\ ~inv[p].predefined

\* A script that starts its jobs one after the other finds in last_job_name
\* and last_job_build_number the job it started last, if that succeeded, not
\* one that this job started in turn.
LastJobIsTheScripts ==
    \A p \in Procs :
        LET started == {q \in Procs : parent[q] = p /\ Session(q) = Session(p)}
        IN  calm /\ script[p] = "running" =>
                \A q \in started :
                    (status[q] = "ok" /\ \A r \in started : r <= q) =>
                        last[Session(p)] = [job |-> inv[q].job, build |-> build[q]]

\* Every session that is opened is closed at last, on each of main's ways out (a
\* session is opened once, so from some point on no other is open), but for two
\* that run no destructor: a kill, and an exception, which nothing catches when
\* the job's directory cannot be listed (load_job, prepare_build) or maintenance
\* cannot be started.
SessionsClose ==
    <>[](\A s \in Procs : cisLog[s] = "opened" => pc[s] \in {"killed", "crashed"})

\* devguide.md: "Every executable should return exitcode zero in case of success
\* and non-zero in other cases": a startjob that returns zero ran its script
\* with the parameters its session holds.
ZeroMeansParams ==
    \A p \in Procs :
        status[p] = "ok" /\ Inherits(p) =>
            \A k \in ParamsOf(p) : due[p][k] # None => params[p][k] = due[p][k]
=============================================================================
