------------------------------ MODULE Programs ------------------------------
(***************************************************************************)
(* The mains: from the command line to the end of the process, with the    *)
(* logs and the connection to the webui that a process keeps meanwhile.    *)
(*                                                                         *)
(* startjob and the four programs for values and parameters make a context,*)
(* a session, a connection, their logs, do their work and leave; cis_cron, *)
(* its daemon and maintenance make a context and the cis log only.  A      *)
(* record is written to one log after the other, so that other processes   *)
(* and a kill come between.  The connection has a thread of its own, which *)
(* the object that holds it joins in its destructor; main and the webui's  *)
(* logger share the object, and exit leaves main's share undropped.        *)
(*                                                                         *)
(* The process Root is a startjob.  While its script runs, others may      *)
(* start in its session; they hold its output pipes, which startjob reads  *)
(* to their end, unless they were detached.  What the work does is in the  *)
(* modules StartJob, SessionStore and CronTable; here it works or fails.   *)
(***************************************************************************)
EXTENDS Naturals, Sequences, FiniteSets, SequencesExt

CONSTANTS
    Procs, Root,    \* processes; the first startjob
    Starts,         \* the ways in which the others start, see Start
    MaxLinks,       \* bound on the connections to the webui
    MaxKills        \* bound on the kills

OpeningPrograms == {"startjob", "setvalue", "getvalue", "setparam", "getparam"}
Start == [program : OpeningPrograms \cup {"cis_cron", "cis_cron_daemon", "maintenance"},
          how : {"alone", "attached", "detached"},  \* outside a session, or by the script
          words : {2, 3, 4}]                        \* argc

ASSUME ProgramsAssumption ==
    /\ Root \in Procs /\ Starts \subseteq Start
    /\ MaxLinks \in Nat /\ MaxKills \in Nat

VARIABLES
    pc,             \* pc[p]: where the main thread is
    start,          \* start[p]: how it was started
    ses, mine,      \* ses[p]: its session, named by who opened it; opened_by_me
    code,           \* code[p]: how it ended
    told,           \* told[p]: where it said how it ended
    loggers,        \* loggers[p]: the global loggers that are set
    onClose,        \* the processes whose session has a close handler
    todo,           \* todo[p]: what is left of the log call it is in
    log,            \* every log, and the queue of every connection
    link,           \* link[p]: the connection
    thread,         \* thread[p]: the thread that runs it
    running,        \* running[p]: the flag running_
    refs            \* refs[p]: who shares the object

idVars == <<start, ses, mine>>
webVars == <<link, thread, running, refs>>
vars == <<pc, idVars, code, told, loggers, onClose, todo, log, webVars>>

Logs == ({"cis"} \X {Root}) \cup ({"session", "combined", "queue"} \X Procs)
Acts == {"auth", "open", "id", "start_job", "finish_job", "done", "called",
         "error", "unstarted", "close"}

Over == {"exited", "crashed", "killed"}
Leaving == {"locals", "close", "statics", "destroy", "join"}
Working == {"main", "params", "build", "execute", "values", "name", "print", "spawn",
            "serve", "stop"}
Labels == {"off", "context", "session", "connect", "run", "running", "cis log", "auth",
           "session log", "offline log"} \cup Working \cup Leaving \cup Over

TypeOK ==
    /\ pc \in [Procs -> Labels]
    /\ start \in [Procs -> Start] /\ ses \in [Procs -> Procs] /\ mine \in [Procs -> BOOLEAN]
    /\ code \in [Procs -> {"none", "zero", "one"}]
    /\ \A p \in Procs : code[p] # "none" => pc[p] \in Leaving \cup Over
    /\ told \in [Procs -> SUBSET {"stdout", "stderr"}]
    /\ loggers \in [Procs -> SUBSET {"cis", "session", "queue", "combined"}]
    /\ onClose \subseteq Procs
    /\ todo \in [Procs -> Seq({"cis", "session", "queue", "combined"} \X Acts)]
    /\ log \in [Logs -> Seq(Procs \X Acts)]
    /\ link \in [Procs -> {"none", "up", "closed"}]
    /\ thread \in [Procs -> {"none", "runs", "returned", "ended"}]
    /\ running \in [Procs -> BOOLEAN]
    /\ refs \in [Procs -> SUBSET {"main", "logger"}]

Init ==
    /\ pc = [p \in Procs |-> IF p = Root THEN "context" ELSE "off"]
    /\ \E s \in [Procs -> Starts] :
           start = [s EXCEPT ![Root] = [program |-> "startjob", how |-> "alone", words |-> 2]]
    /\ ses = [p \in Procs |-> p] /\ mine = [p \in Procs |-> FALSE]
    /\ code = [p \in Procs |-> "none"] /\ told = [p \in Procs |-> {}]
    /\ loggers = [p \in Procs |-> {}] /\ onClose = {} /\ todo = [p \in Procs |-> <<>>]
    /\ log = [l \in Logs |-> <<>>]
    /\ link = [p \in Procs |-> "none"] /\ thread = [p \in Procs |-> "none"]
    /\ running = [p \in Procs |-> FALSE] /\ refs = [p \in Procs |-> {}]

-----------------------------------------------------------------------------
(* Records.  A call writes to the loggers that are set, one by one.        *)

\* A logger that is not set writes nothing.
To(p, kind, act) == IF kind \in loggers[p] THEN <<<<kind, act>>>> ELSE <<>>

webui_log(p, act) == To(p, "queue", act) \o To(p, "combined", act)
cis_log(p, act) ==
    IF "cis" \in loggers[p] THEN To(p, "cis", act) \o webui_log(p, act) ELSE <<>>
session_log(p, act) ==
    IF "session" \in loggers[p] THEN To(p, "session", act) \o webui_log(p, act) ELSE <<>>

\* Variant: an error is not passed on to the webui.
tee_log_at_home(p, act) == To(p, "cis", act) \o To(p, "session", act)

tee_log(p, act) == To(p, "cis", act) \o To(p, "session", act) \o webui_log(p, act)

Dest(p, kind) ==
    <<kind, CASE kind = "cis" -> Root [] kind = "queue" -> p [] OTHER -> ses[p]>>

\* What p has told a log.
Has(p, kind, act) == <<p, act>> \in ToSet(log[Dest(p, kind)])

Write(p) ==
    /\ todo[p] # <<>> /\ pc[p] \notin Over
    /\ LET w == Head(todo[p]) IN
           log' = [log EXCEPT ![Dest(p, w[1])] = Append(@, <<p, w[2]>>)]
    /\ todo' = [todo EXCEPT ![p] = Tail(@)]
    /\ UNCHANGED <<pc, idVars, code, told, loggers, onClose, webVars>>

-----------------------------------------------------------------------------
(* Steps of a main thread: from one place to another, with a record, or    *)
(* out of main, or out of the process.                                     *)

Step(p, from, to) == pc[p] = from /\ todo[p] = <<>> /\ pc' = [pc EXCEPT ![p] = to]
Record(p, s) == todo' = [todo EXCEPT ![p] = s]
End(p, c, said) == code' = [code EXCEPT ![p] = c] /\ told' = [told EXCEPT ![p] = said]

Return(p, from, c, said, s) ==
    /\ Step(p, from, "locals") /\ End(p, c, said) /\ Record(p, s)
    /\ UNCHANGED <<idVars, loggers, onClose, log, webVars>>

\* Variant: the error is not recorded.
FailsQuietly(p, from) == Return(p, from, "one", {"stderr"}, <<>>)

Fails(p, from) == Return(p, from, "one", {"stderr"}, tee_log(p, "error"))

Goes(p, from, to, s) ==
    /\ Step(p, from, to) /\ Record(p, s)
    /\ UNCHANGED <<idVars, code, told, loggers, onClose, log, webVars>>

\* on_error: the process leaves through exit, and main's locals stay.
Exit(p, from) ==
    /\ Step(p, from, "statics") /\ End(p, "one", {"stderr"})
    /\ UNCHANGED <<idVars, loggers, onClose, todo, log, webVars>>

\* Nothing catches what list_directory, spawn and others throw; no destructor runs.
Throws(p, from) ==
    /\ Step(p, from, "crashed") /\ told' = [told EXCEPT ![p] = {"stderr"}]
    /\ UNCHANGED <<idVars, code, loggers, onClose, todo, log, webVars>>

Opens(p) == start[p].program \in OpeningPrograms

-----------------------------------------------------------------------------
(* The start of every main                                                 *)

\* A process starts: by the script of Root, which outlives a kill of Root, or
\* on its own.
ScriptRuns == LET l == ToSet(log[<<"session", Root>>]) IN
    \/ pc[Root] = "execute" /\ todo[Root] = <<>>
    \/ /\ pc[Root] = "killed" /\ <<Root, "start_job">> \in l
       /\ {<<Root, "finish_job">>, <<Root, "error">>} \cap l = {}

Launch(p) ==
    /\ pc[p] = "off" /\ (start[p].how # "alone" => ScriptRuns)
    /\ pc' = [pc EXCEPT ![p] = "context"]
    /\ UNCHANGED <<idVars, code, told, loggers, onClose, todo, log, webVars>>

\* --version, before anything else is looked at.
Version(p) == start[p].words = 2 /\ Return(p, "context", "zero", {"stdout"}, <<>>)

\* startjob only: --help, and command lines that cannot be parsed.
Usage(p) ==
    /\ start[p].program = "startjob"
    /\ \E c \in {"zero", "one"} : Return(p, "context", c, {"stdout"}, <<>>)

\* init_context: without a base directory, or with no readable cis.conf in it.
NoContext(p) == Return(p, "context", "one", {"stderr"}, <<>>)
InitContext(p) == Opens(p) /\ Goes(p, "context", "session", <<>>)

\* The others have no session and no connection.
InitContextOnly(p) == ~Opens(p) /\ Goes(p, "context", "cis log", <<>>)

\* invoke_session: the session of the environment, unless there is none or
\* the command line (of startjob) wants another.
InvokeSession(p) ==
    /\ Step(p, "session", "connect")
    /\ \E force \in BOOLEAN :
           LET inherits == start[p].how # "alone" /\ ~force IN
           /\ force => start[p].program = "startjob"
           /\ ses' = [ses EXCEPT ![p] = IF inherits THEN ses[Root] ELSE p]
           /\ mine' = [mine EXCEPT ![p] = ~inherits]
    /\ UNCHANGED <<start, code, told, loggers, onClose, todo, log, webVars>>

\* init_webui_session: no address, or no answer at it.
NoWebui(p) == Goes(p, "connect", "cis log", <<>>)
Connect(p) ==
    /\ Cardinality({q \in Procs : link[q] # "none"}) < MaxLinks /\ Step(p, "connect", "run")
    /\ link' = [link EXCEPT ![p] = "up"] /\ refs' = [refs EXCEPT ![p] = {"main"}]
    /\ UNCHANGED <<idVars, code, told, loggers, onClose, todo, log, thread, running>>

\* webui_session::run starts the thread before it sets the flag.
RunThread(p) ==
    /\ Step(p, "run", "running") /\ thread' = [thread EXCEPT ![p] = "runs"]
    /\ UNCHANGED <<idVars, code, told, loggers, onClose, todo, log, link, running, refs>>

\* Variant: the flag is left as it is.
LeaveRunning(p) == UNCHANGED running

SetRunning(p) == running' = [running EXCEPT ![p] = TRUE]

\* The rest of run, and init_webui_log, which may leave the logger unset.
InitWebuiLog(p) ==
    /\ Step(p, "running", "cis log") /\ SetRunning(p)
    /\ \E made \in BOOLEAN :
           /\ loggers' = [loggers EXCEPT ![p] = IF made THEN @ \cup {"queue"} ELSE @]
           /\ refs' = [refs EXCEPT ![p] = IF made THEN @ \cup {"logger"} ELSE @]
    /\ UNCHANGED <<idVars, code, told, onClose, todo, log, link, thread>>

MakeLog(p, from, kind, to) ==
    /\ Step(p, from, to) /\ loggers' = [loggers EXCEPT ![p] = @ \cup {kind}]
    /\ UNCHANGED <<idVars, code, told, onClose, todo, log, webVars>>

init_cis_log(p) ==
    MakeLog(p, "cis log", "cis", IF Opens(p) THEN "auth" ELSE "main") \/ Exit(p, "cis log")

\* Variant: only who opened the session is authenticated.
AuthenticateOpener(p) ==
    /\ Step(p, "auth", "session log")
    /\ todo' = [todo EXCEPT ![p] = IF refs[p] # {} /\ mine[p] THEN <<<<"queue", "auth">>>> ELSE <<>>]
    /\ UNCHANGED <<idVars, code, told, loggers, onClose, log, webVars>>

\* webui_session::auth
Authenticate(p) ==
    /\ Step(p, "auth", "session log")
    /\ todo' = [todo EXCEPT ![p] = IF refs[p] # {} THEN <<<<"queue", "auth">>>> ELSE <<>>]
    /\ UNCHANGED <<idVars, code, told, loggers, onClose, log, webVars>>

init_session_log(p) ==
    MakeLog(p, "session log", "session", "offline log") \/ Exit(p, "session log")
init_offline_webui_log(p) ==
    MakeLog(p, "offline log", "combined", "main") \/ Exit(p, "offline log")

-----------------------------------------------------------------------------
(* startjob                                                                *)

\* The session is opened, if by this process, and will be closed.
OpenSession(p) ==
    /\ start[p].program = "startjob" /\ Step(p, "main", "params")
    /\ Record(p, IF mine[p] THEN cis_log(p, "open") \o webui_log(p, "id") ELSE <<>>)
    /\ onClose' = IF mine[p] THEN onClose \cup {p} ELSE onClose
    /\ UNCHANGED <<idVars, code, told, loggers, log, webVars>>

\* load_job fails, or who typed a parameter typed it badly.
NoJob(p) == Return(p, "params", "one", {"stdout"}, <<>>)
LoadJob(p) == Goes(p, "params", "build", <<>>) \/ Throws(p, "params")
PrepareBuild(p) ==
    \/ Fails(p, "build") \/ Throws(p, "build")
    \/ Goes(p, "build", "execute", session_log(p, "start_job"))

\* Variant: startjob waits for the script only.
ScriptEnds(p) == TRUE

\* The output pipes of Root's script end when all who hold them have ended.
PipesEnd(p) ==
    p = Root => \A q \in Procs : start[q].how = "attached" => pc[q] \in Over \cup {"off"}

Execute(p) ==
    /\ PipesEnd(p)
    /\ \/ Fails(p, "execute")
       \/ Goes(p, "execute", IF mine[p] THEN "print" ELSE "values", session_log(p, "finish_job"))

\* The script's name and number are left to the session.
LeaveName(p) == Fails(p, "values") \/ Goes(p, "values", "name", <<>>)
LeaveNumber(p) == Fails(p, "name") \/ Goes(p, "name", "print", <<>>)

PrintResult(p) ==
    Goes(p, "print", "spawn",
         IF mine[p] THEN webui_log(p, "done") \o webui_log(p, "done") ELSE <<>>)

\* maintenance is started, or spawn throws.
SpawnMaintenance(p) == Return(p, "spawn", "zero", {}, <<>>) \/ Throws(p, "spawn")

-----------------------------------------------------------------------------
(* The other programs                                                      *)

\* After the logs: the arguments are counted, the session must be another's,
\* the call may fail.
Call(p, words) ==
    \E ec \in BOOLEAN :
        IF start[p].words # words \/ mine[p] \/ ec
        THEN Fails(p, "main")
        ELSE Return(p, "main", "zero", {}, session_log(p, "called"))

SetValue(p) == start[p].program = "setvalue" /\ Call(p, 3)
GetValue(p) == start[p].program = "getvalue" /\ Call(p, 2)
SetParam(p) == start[p].program = "setparam" /\ Call(p, 3)
GetParam(p) == start[p].program = "getparam" /\ Call(p, 2)

\* A daemon that cannot be started is not told of.
start_daemon(p) == \E c \in {"zero", "one"} : Return(p, "main", c, {}, <<>>)

\* A table that cannot be read is recorded, other failures are only told; the
\* notification of the daemon, after a table is saved, may throw.
CisCron(p) ==
    /\ start[p].program = "cis_cron"
    /\ \/ start[p].words = 2 /\ start_daemon(p)
       \/ start[p].words # 4 /\ Return(p, "main", "zero", {"stdout"}, <<>>)
       \/ start[p].words = 4 /\ (Return(p, "main", "zero", {}, <<>>) \/ Throws(p, "main"))
       \/ Return(p, "main", "one", {"stdout"}, <<>>)
       \/ start[p].words # 2 /\ Return(p, "main", "one", {"stdout"}, cis_log(p, "error"))

\* The daemon removes the names of its condition and mutex, which may fail, and
\* makes them anew, which may throw; then it serves its timers.
Daemon(p) ==
    /\ start[p].program = "cis_cron_daemon"
    /\ \/ Return(p, "main", "one", {"stdout"}, <<>>) \/ Throws(p, "main")
       \/ Goes(p, "main", "serve", <<>>)

\* A job that the daemon cannot start, like a table that it cannot read, is an
\* error in the cis log that does not end it; bound: once.
run_job(p) == ~Has(p, "cis", "unstarted") /\ Goes(p, "serve", "serve", cis_log(p, "unstarted"))

\* update throws at an expression that is none; a signal stops the timers.
Serve(p) == run_job(p) \/ Throws(p, "serve") \/ Goes(p, "serve", "stop", <<>>)

\* main waits for the watcher, which has missed the signal's notification or not
\* (see CronDaemon).
WatcherEnds(p) == Return(p, "stop", "zero", {}, <<>>)

Maintenance(p) ==
    /\ start[p].program = "maintenance"
    /\ \/ Return(p, "main", "zero", {}, <<>>) \/ Return(p, "main", "one", {"stdout"}, <<>>)
       \/ Throws(p, "main")

-----------------------------------------------------------------------------
(* The end of the process                                                  *)

\* The locals of main go in reverse order: its share of the connection, then
\* the session, whose destructor calls the handler; the globals follow.
DropShare(p) ==
    /\ Step(p, "locals", IF refs[p] = {"main"} THEN "destroy" ELSE "close")
    /\ refs' = [refs EXCEPT ![p] = @ \ {"main"}]
    /\ UNCHANGED <<idVars, code, told, loggers, onClose, todo, log, link, thread, running>>

CloseSession(p) ==
    Goes(p, "close", "statics", IF p \in onClose THEN cis_log(p, "close") ELSE <<>>)

DropLoggers(p) ==
    /\ Step(p, "statics", IF refs[p] = {"logger"} THEN "destroy" ELSE "exited")
    /\ refs' = [refs EXCEPT ![p] = @ \ {"logger"}]
    /\ UNCHANGED <<idVars, code, told, loggers, onClose, todo, log, link, thread, running>>

\* webui_session::~webui_session
Disconnect(p) ==
    /\ Step(p, "destroy", "join")
    /\ link' = [link EXCEPT ![p] = IF running[p] THEN "closed" ELSE @]
    /\ UNCHANGED <<idVars, code, told, loggers, onClose, todo, log, thread, running, refs>>

\* Variant: the thread is detached.
Detach(p) == Goes(p, "join", IF "queue" \in loggers[p] THEN "exited" ELSE "close", <<>>)

Join(p) ==
    /\ thread[p] = "ended"
    /\ Goes(p, "join", IF "queue" \in loggers[p] THEN "exited" ELSE "close", <<>>)

-----------------------------------------------------------------------------
(* The thread of the connection, and the surroundings                      *)

Lives(p) == pc[p] \notin Over \cup {"off"}

\* io_context::run returns when the connection is gone.
RunReturns(p) ==
    /\ Lives(p) /\ thread[p] = "runs" /\ link[p] = "closed"
    /\ thread' = [thread EXCEPT ![p] = "returned"]
    /\ UNCHANGED <<pc, idVars, code, told, loggers, onClose, todo, log, link, running, refs>>
ClearRunning(p) ==
    /\ Lives(p) /\ thread[p] = "returned"
    /\ thread' = [thread EXCEPT ![p] = "ended"] /\ running' = [running EXCEPT ![p] = FALSE]
    /\ UNCHANGED <<pc, idVars, code, told, loggers, onClose, todo, log, link, refs>>

ServerCloses(p) ==
    /\ Lives(p) /\ link[p] = "up" /\ link' = [link EXCEPT ![p] = "closed"]
    /\ UNCHANGED <<pc, idVars, code, told, loggers, onClose, todo, log, thread, running, refs>>

Kill(p) ==
    /\ Lives(p) /\ Cardinality({q \in Procs : pc[q] = "killed"}) < MaxKills
    /\ pc' = [pc EXCEPT ![p] = "killed"]
    /\ UNCHANGED <<idVars, code, told, loggers, onClose, todo, log, webVars>>

Prepare(p) == \/ Version(p) \/ Usage(p) \/ NoContext(p) \/ InitContext(p)
              \/ InitContextOnly(p) \/ InvokeSession(p)
Converse(p) == NoWebui(p) \/ Connect(p) \/ RunThread(p) \/ InitWebuiLog(p)
MakeLogs(p) == \/ init_cis_log(p) \/ Authenticate(p) \/ init_session_log(p)
               \/ init_offline_webui_log(p)
Begin(p) == Prepare(p) \/ Converse(p) \/ MakeLogs(p)
StartJob(p) == \/ OpenSession(p) \/ NoJob(p) \/ LoadJob(p) \/ PrepareBuild(p) \/ Execute(p)
               \/ LeaveName(p) \/ LeaveNumber(p) \/ PrintResult(p) \/ SpawnMaintenance(p)
Other(p) == \/ SetValue(p) \/ GetValue(p) \/ SetParam(p) \/ GetParam(p)
            \/ CisCron(p) \/ Daemon(p) \/ Maintenance(p)
Leave(p) == \/ DropShare(p) \/ CloseSession(p) \/ DropLoggers(p) \/ Disconnect(p) \/ Join(p)

Main(p) == Write(p) \/ Begin(p) \/ StartJob(p) \/ Other(p) \/ Leave(p)
Thread(p) == RunReturns(p) \/ ClearRunning(p)

Next == \E p \in Procs :
    Launch(p) \/ Main(p) \/ Thread(p) \/ ServerCloses(p) \/ Serve(p) \/ WatcherEnds(p) \/ Kill(p)

Spec == Init /\ [][Next]_vars
FairSpec == Spec /\ \A p \in Procs : WF_vars(Main(p)) /\ WF_vars(Thread(p))

-----------------------------------------------------------------------------
(* Properties                                                              *)

\* The places of p's records in its session's combined log, and that of its n-th
\* record in the queue, whose first is the authentication.
Records(p) == {i \in DOMAIN log[Dest(p, "combined")] : log[Dest(p, "combined")][i][1] = p}
InQueue(p, i) == 1 + Cardinality({j \in Records(p) : j <= i})

\* The combined log of a session tells what the webui was told, in its order,
\* and all that a process wrote to the cis log and the session log; but for the
\* record it was at when it was killed (init_session_log, webui_log).
SameStory ==
    \A p \in Procs : Opens(p) =>
        /\ "queue" \in loggers[p] =>
               LET q == log[Dest(p, "queue")] IN
               /\ \A i \in Records(p) :
                      InQueue(p, i) \in DOMAIN q /\ q[InQueue(p, i)] = log[Dest(p, "combined")][i]
               /\ Len(q) <= Cardinality(Records(p)) + 2
        /\ \A kind \in {"cis", "session"}, act \in Acts :
               Has(p, kind, act) => \/ Has(p, "combined", act)
                                   \/ \E i \in DOMAIN todo[p] : todo[p][i] = <<"combined", act>>

\* Nothing goes to the webui before the session's authentication, and that once,
\* although logs are set up before it (webui_session::auth).
AuthComesFirst ==
    \A p \in Procs : \A i \in DOMAIN log[<<"queue", p>>] :
        log[<<"queue", p>>][i][2] = "auth" <=> i = 1

\* The combined log of a session begins with its opening, unless nothing was
\* ever done in it but to fail, and ends with its closing: what the script's
\* programs record is before that, unless they let go of the script's output.
SessionFramed ==
    \A s \in Procs : LET l == log[<<"combined", s>>] IN
        /\ \A i \in DOMAIN l : l[i][2] # "error" \/ l[i][1] # s => l[1] = <<s, "open">>
        /\ \A i, j \in DOMAIN l : i < j /\ l[i][2] = "close" => start[l[j][1]].how = "detached"

\* The logs with the error that ended p, and those it should have made before work.
Erring(p) == {kind \in {"cis", "session", "combined"} : Has(p, kind, "error")}
HasLogs(p) == (IF Opens(p) THEN {"cis", "session", "combined"} ELSE {"cis"}) \subseteq loggers[p]

\* The failures that no log has: an exception; what happens before the logs are
\* made; a startjob that does not get to its build; whatever fails in maintenance,
\* in the daemon's main and, but for a table it cannot read, in cis_cron.  The last
\* three, and startjob, tell stdout, and cis_cron --daemon tells nobody.
Unrecorded(p) ==
    \/ pc[p] = "crashed" /\ told[p] = {"stderr"}
    \/ ~HasLogs(p) /\ told[p] # {}
    \/ told[p] = {"stdout"} /\ start[p].program = "startjob" /\ ~Has(p, "session", "start_job")
    \/ told[p] = {"stdout"} /\ start[p].program \in {"cis_cron", "cis_cron_daemon", "maintenance"}
    \/ told[p] = {} /\ start[p].program = "cis_cron" /\ start[p].words = 2

\* devguide.md wants a failure on stderr and in one of the logs.  A process that
\* fails with its logs made, once it has ended, is on stderr and in each of them,
\* whatever others wrote between; or it is cis_cron with a table it cannot read,
\* on stdout and in the cis log; or it is one of the above, and in no log.  What
\* returns zero is in none, but for what a daemon has survived (run_job).
FailuresReported ==
    \A p \in Procs : pc[p] \in {"exited", "crashed"} =>
        IF code[p] = "zero" THEN Erring(p) = {}
        ELSE \/ Erring(p) = {"cis", "session", "combined"} /\ told[p] = {"stderr"}
             \/ /\ Erring(p) = {"cis"} /\ told[p] = {"stdout"}
                /\ start[p].program = "cis_cron" /\ start[p].words # 2
             \/ Erring(p) = {} /\ Unrecorded(p)

\* The thread never outlives the object it runs on (~webui_session joins it).
ObjectOutlivesThread ==
    \A p \in Procs : Lives(p) /\ pc[p] \notin {"destroy", "join"} /\ refs[p] = {} =>
        thread[p] \in {"none", "ended"}

\* A process that starts ends, whatever the webui does or fails to do; but for a
\* daemon, which may wait for its watcher even after a signal, and for a startjob
\* whose script started one and left it its output, as cis_cron --daemon does
\* (start_daemon, job_runner::run_impl).
Serves(p) == pc[p] \in {"serve", "stop"}
HeldByDaemon(p) == p = Root /\ \E q \in Procs : start[q].how = "attached" /\ Serves(q)
EveryProcessEnds == \A p \in Procs : Lives(p) ~> pc[p] \in Over \/ Serves(p) \/ HeldByDaemon(p)
=============================================================================
