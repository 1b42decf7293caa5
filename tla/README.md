# CIS1 core: verification project

TLA+ models of the CIS1 core (`src/src/*.cpp`, `src/include/*.h`, `src/deploy/`),
the runs that model-check them, and proofs that hold for every value of their
constants.

- [1. The system](#1-the-system): inventory, hard behaviours, what correct means
- [2. The models](#2-the-models): module by module, next to the code
- [3. The runs](#3-the-runs): what each shows, bounds, fairness
- [4. The proofs](#4-the-proofs)
- [5. Disagreements between code and documentation](#5-disagreements-between-code-and-documentation)
- [6. What is not modelled](#6-what-is-not-modelled)
- [7. Plan](#7-plan)

## 1. The system

CIS1 core is a set of small command-line programs around a directory tree.
There is no server: every program is a short-lived process (only the cron
daemon stays), and **the file system is the shared state**. Nothing locks it.

    jobs/<name>/job.conf, job.params, <script>     written by the operator
    jobs/<name>/NNNNNN/                            one directory per build
    sessions/<session_id>.dat, .prm                key-value stores of a session
    core/crons                                     the cron table
    logs/, sessions/*.log                          logs

| Component | Source | State | Operations | Interacts with |
|---|---|---|---|---|
| Job build directory | `job.cpp`, `maintenance.cpp`, `utils.cpp`, `os.cpp` | build directories, scripts and exit codes in them; load_job's three maps | `load_job`, `prepare_build`, `execute`, `cleanup` | every startjob and maintenance process of the job |
| startjob | `startjob.cpp` | one process: context, session, job, build handle | main | build directory, session store, job runner, loggers, webui; spawns maintenance; its script starts further startjobs |
| Session | `session.cpp` | id, who opened it, close handler | `invoke_session`, `on_close`, destructor | startjob, its children (through the environment), logs |
| Session store | `set_value.cpp`, `get_value.cpp`, `set_param.cpp`, `get_param.cpp`, `prepare_params` in `job.cpp` | `.dat` and `.prm` of a session | read-modify-write without a lock | every process of the session |
| Job runner | `job_runner.cpp`, `job_runner.h`, `process.h` | two pipes with their buffers, the child | `run`, two read handlers, exit handler | `execute`'s callbacks |
| Cron table and CLI | `cron.cpp`, `cis_cron.cpp` | core/crons; the names of a condition and a mutex | load, add, del, list, save, notify | other CLI runs, the daemons |
| Cron daemon | `cis_cron_daemon.cpp`, `cron.cpp` | timers, watcher thread, named mutex and condition | update, timer expiry, signals | CLI through `notify_daemon`; spawns startjob |
| Command-line mains | `startjob.cpp`, `setvalue.cpp`, `getvalue.cpp`, `setparam.cpp`, `getparam.cpp`, `cis_cron.cpp`, `cis_cron_daemon.cpp`, `maintenance.cpp` | one process each: how far it has set itself up, what it has to undo | argument checks, set-up, call, destructors, exit status | all of the above; the script's output pipes |
| Loggers | `logger.cpp`, `*_logger` | four global loggers, the files behind them | make, append | all programs of a session |
| webui session | `webui_session.cpp` | connection, its thread, a flag, a shared object | connect, run, auth, send, destructor | the mains, the loggers |
| Context, OS adapters, error codes | `context.cpp`, `os.cpp`, `*_adapter.cpp` | environment | pass-through | all |
| Deployment | `deploy/deploy.py`, pyinternal's `core_test` and its two jobs | a new directory tree; one session | make, fill, test, verdict | all programs, through the shell |

### Behaviours that are hard

The unit tests run each function alone against mocks. What they cannot reach is
what the processes do to each other:

- **interleaving without locks**: two startjobs choose one build number; several
  maintenance processes trim one directory from stale listings; several
  processes rewrite one `.dat` file or one cron table;
- **stale state**: a number chosen from an old listing, a table read while it is
  being rewritten, a timer whose expiry is queued when it is destroyed;
- **crashes**: a startjob killed between making a directory and writing an exit
  code, a setvalue or a cis_cron killed after it truncated the file, any process
  killed between two logs of one record;
- **lost wake-ups**: the daemon's condition is notified without its mutex, and a
  second daemon takes the condition's name away;
- **order of events**: child exit, end of stdout and end of stderr in any order;
  jobs a script leaves running while its session ends; what maintenance prints
  after the exit code;
- **limits**: build number 999999, zero builds to keep, a full pipe, a last line
  without a newline, an empty job name;
- **errors half way**: `remove_all` that stops in the middle, an error code that
  the next call clears, a log that cannot be made and leaves through `exit`.

Each is listed in `PROJECT.json` under `hazards` at the line where it bites.

### What makes each component correct

| Component | Properties |
|---|---|
| Build directory | a number has one owner; only finished builds are removed; the newest are kept; an exit code is final; the directory is trimmed in the end; without errors a startjob fails only because of another one |
| startjob, session | a session closes, and closes last; a script is told its own and its parent's job; parameters stay in their session; the script finds the job it started last; zero means that all was done |
| Session store | sets that do not overlap lose nothing; nothing that nobody set is read; a name and a number belong together; a file that does not parse stays so |
| Job runner | every character once and in order; `run` ends, with the output complete |
| Cron daemon | a timer per entry, once; the timers become the table; a cancelled timer is silent; a signal ends the daemon |
| Cron table | runs one after the other lose nothing; readers see whole entries; no entry ends a daemon; a daemon that is alone hears notifications |
| Mains, loggers, webui | the logs of a process agree; authentication comes first; a session's log is framed by its opening and closing; a failure is on stderr and in every log, or one of the listed exceptions; the thread does not outlive its object; every process ends |
| Deployment | success is said only of a tested deployment; an undisturbed one is not called a failure; one of two runs fills the directory; both end |

## 2. The models

    BuildSlots           promise of a job directory (abstract)
       ^ INSTANCE ... WITH
    BuildsRefinement     the mapping
       | EXTENDS
    Builds               <- BuildsProofs                         <- MCBuilds
    StartJob             <- StartJobProofs                       <- MCStartJob
    SessionStore         <- SessionStoreProofs                   <- MCSessionStore
    JobRunner            <- JobRunnerProofs                      <- MCJobRunner
    CronDaemon           <- CronDaemonProofs                     <- MCCronDaemon
    CronTable            <- CronTableProofs                      <- MCCronTable
    Programs             <- ProgramsProofs                       <- MCPrograms
    Deployment           <- DeploymentProofs                     <- MCDeployment

The arrows read "is extended by". The modules are cut along what runs at the same
time on the same state: the processes on one job directory, on one `.dat` file,
on one cron table, the threads of one daemon, the handlers of one run. `StartJob`
and `Deployment` lie above them and use, as one step, what the lower modules show
of an operation; `Programs` has the same processes from the side of what they
set up, record and undo.

Definitions whose comment begins with "Variant" are what the code would be with
a plausible mistake in it. No specification uses them: each replaces the
definition it varies to show that a property can fail.

### Builds: the build directories of one job

| TLA+ | Code |
|---|---|
| `present`, `script`, `exit` | the directory entry, the script copied into it, `exitcode.txt` |
| `pc[p]`, `num[p]` | a startjob between two file operations, its build number |
| `ListBuilds`, `MakeDir`, `CopyScript`, `FillDir` | `job::prepare_build` |
| `Launch`, `OpenExitFile`, `WriteExitCode` | `job::execute` and its exit callback |
| `SpawnMaintenance` | end of startjob's `main` |
| `cleaner[p]`, `toRead`, `kept`, `victim` | the maintenance that `p` spawned, `load_job`'s loop and maps |
| `ListDir`, `ReadExitCode` | `load_job` |
| `PickVictim`, `Unlink`, `RemoveDir`, ... | `job::cleanup`, `remove_all` file by file |
| `...Refused`, `Abort`, `CleanAbort` | error returns; `Abort` is also a kill |
| `erased`, `reused` | history: removal of a number has begun; an erased number was taken again |

`create_directory` does not report that the directory exists. What tells two
startjobs with the same number apart is the copy of the script, which refuses to
overwrite: `Holds(p)` begins there. The state `finish` is outside `Holds`
because the exit code is on disk by then, so maintenance may remove the build.

Assumptions: the exit code is small and is one write; `remove_all` removes a
directory's files in any order; job.conf does not change; every process in
`Procs` starts once (any number of them, so a second call is another element);
builds of earlier startjobs are in `Existing`, finished or abandoned.

`BuildSlots` is the promise: a number is taken once, gets an outcome once, and is
given up only after that. `BuildsRefinement` maps `Builds` onto it: taken when
the script is copied, finished when `exitcode.txt` is written, given up when
maintenance picks it.

### StartJob: startjob's main, and the tree of its processes

| TLA+ | Code |
|---|---|
| `env[p]`, `ctx[p]` | the process's own environment (`get_env_var` of `os`), and the one `context` hands to the script |
| `Start` | flags, `init_context`, `invoke_session`, `open_session` in cis.log |
| `LoadRefused`, `TypeParams`, `TypedInvalid`, `UseGiven`, `UseSession`, `SessionUnreadable`, `NoParams` | `load_job` and the branches that find the parameters |
| `Launch`, `LaunchRefused` | `prepare_build`, the variables of the script, the launch |
| `SetParam`, `ScriptEnds`, `Start(p, q)` | what a script does |
| `RunReturns`, `RunRefused` | `execute` returns: the script ended and nobody holds its output |
| `SetName`, `SetNumber`, `SetRefused` | the two `set_value` |
| `SpawnMaintenance`, `Throws` | the last call; `list_directory` in `load_job` and in `prepare_build`, and `spawn`, may throw, and nothing catches it: the process ends without a destructor |
| `Leave` | `return` from main: the session's destructor logs `close_session` |
| `prm`, `last`, `cisLog` | the `.prm` file, the two values in `.dat`, cis.log's entries of a session |

The steps inside a build directory, inside a rewrite and inside a run are those
of the other modules; here each is one step that does what they promise. A
parameter's value is abstracted to the process that chose it, so that where a
value came from can be read off it. A session is named by the process that
opened it (the code's time, pid and parent pid are unique in the same way).

`held` says whether a startjob still has the stdout or stderr of the script that
started it. This decides whether the run of that script waits for it
(JobRunner's `Close`), and so whether it can outlive its session.

### SessionStore: the values of a session

| TLA+ | Code |
|---|---|
| `file` | bytes of `<session>.dat` |
| `Load`, `LoadRefused` | `exists`, `open_ifstream`, `read_istream_kv_str` |
| `Truncate` | `open_ofstream(..., trunc)` |
| `Store` | the loop over the map, and the write when the stream closes |
| `Results` | `get_value` |
| `Order` | the order of the lines: the map's, then a new key |
| `LastJob`, `NameKey`, `NumberKey` | the two sets at the end of startjob, and what they set |
| `Kill` | a kill, or a failing open |
| `raced`, `mixed`, `overlaid` | history: sets or whole programs overlapped; a rewrite was shorter than what lay under it |

The bytes matter, because the shorter of two overlapping rewrites leaves the tail
of the longer one; the letters do not, so a key or a value is its length.
Assumptions: the rewrite fits the stream's buffer and is one write at offset 0;
a missing file reads as an empty one; what the library does with duplicate keys
and with lines without "=" is left open, a line that begins with "=" is refused;
a key that is not set reads as the empty text. `set_param` is the same code on the
`.prm` file.

### JobRunner: running a script

| TLA+ | Code |
|---|---|
| `pipe`, `buf` | the pipes, the two `streambuf`s |
| `Read`, `LineRead` | `async_read_until` and the line handlers |
| `OutEof`, `ErrEof` | the handlers at the end of the stream, which differ |
| `ExitHandler` | the exit callback in `execute` |
| `Returned` | `io_context::run` returned |
| `Write`, `Close`, `Exit` | the script: writes in pieces, closes its streams in any order, may exit first and leave a process behind that writes on |

Assumption: the script makes its writes one after another.

### CronDaemon: the daemon and the runs of cis_cron

| TLA+ | Code |
|---|---|
| `file`, `cli`, `toSave` | core/crons; `cis_cron` between load, truncate, write and notify |
| `watcher` | the thread in `cis_cron_daemon.cpp`: check, post, wait |
| `queue` | handlers that are ready in the `io_context` |
| `timers`, `armed`, `zombies` | `cron_manager::timers_`, waits that are pending, destroyed timers whose handler waits again in freed memory |
| `RunUpdate` | `cron_manager::update`: the merge of table and timers |
| `Expire`, `RunFire`, `RunStale` | `cron_timer`'s handler |
| `Signal`, ... | the signal handler, `stop`, `notify_one`, `join` |

The named mutex is not modelled: only the watcher locks it, and that is the
point: a notification sent between its post and its wait wakes nobody (`missed`).
Assumptions: one `cis_cron` at a time, one daemon, a table that exists and
parses (several of each, and tables that do not, are in CronTable); after the
first signal the handler is not armed again.

### CronTable: the bytes of core/crons, and who reads and writes them

| TLA+ | Code |
|---|---|
| `file`, `there` | the bytes of the table; whether it exists |
| `Line`, `At`, `Entries`, `EntryLess`, `InOrder` | `cron_list::save`'s line, the reading loop of `load_cron_list` and `update`, `cron_entry::operator<` |
| `ExprRefused`, `MaskRefused`, `LoadRefused`, `List`, `Add`, `Del`, `DelRefused` | `cis_cron`'s `add`, `del`, `list` up to the change of the loaded set |
| `Open`, `OpenFails`, `WriteLine` | `save`: the open that empties the table (or fails unnoticed), one flushed line per entry |
| `Notify` | `notify_daemon`: opens or makes the condition |
| `RemoveCv`, `RemoveMutex`, `MakeCv`, `MakeMutex` | the start of the daemon's `main`: remove both names, make both anew, throw if somebody was faster |
| `Update`, `End` | `cron_manager::update` (a text that is no expression ends the daemon); a signal or a kill |
| `cv`, `mutex` | who made what the two names stand for |
| `table`, `added`, `overlapped`, `cut` | history: the entries as the runs that ended left them; the entries saved, those of the first table among them; runs overlapped; one was killed while it wrote |

An entry is written as job, space, expression, newline, and the job is read back up
to the first space. So a job with a space comes back as another entry, an empty one,
or one that begins with a space, ends the table, and two runs that write across each
other can make entries nobody added. Bytes are letters of two kinds, space, newline
and the zero of a gap; which letters does not matter. Assumptions: an expression is
valid or not (`Exprs`); a mask is a job name; each line is one write at the writer's
own offset.

### Programs: from the command line to the end of the process

| TLA+ | Code |
|---|---|
| `pc[p]` | where the main thread is: set-up, work, destructors |
| `Version`, `Usage`, `NoContext`, `InitContext`, `InvokeSession` | argument checks, `init_context`, `invoke_session` |
| `Connect`, `NoWebui`, `RunThread`, `InitWebuiLog` | `init_webui_session`, `webui_session::run`, `init_webui_log` |
| `init_cis_log`, `init_session_log`, `init_offline_webui_log`, `Exit` | the functions of that name; a failure leaves through `exit` |
| `Authenticate` | `webui_session::auth` |
| `loggers`, `todo`, `Write` | the global loggers that are set; the logs one record has still to be written to; one write |
| `cis_log`, `session_log`, `webui_log`, `tee_log` | the functions of that name in `logger.cpp` |
| `log` | cis log; session log and combined log of a session; queue of a connection |
| `OpenSession` ... `SpawnMaintenance` | startjob's main |
| `SetValue`, `GetValue`, `SetParam`, `GetParam`, `CisCron`, `Daemon`, `Maintenance` | the other mains |
| `Serve`, `run_job`, `WatcherEnds` | the daemon's `io_ctx.run()`, until an exception or a signal ends it; a record that does not; the join with its watcher |
| `Throws` | exceptions nothing catches: `list_directory`, `spawn`, the daemon's `create_only` and `make_cron`, `notify_daemon` |
| `DropShare`, `CloseSession`, `DropLoggers`, `Disconnect`, `Join` | main's locals in reverse order, the globals, `~webui_session` |
| `link`, `thread`, `running`, `refs` | the connection, the thread that runs it, `running_`, who shares the object |
| `RunReturns`, `ClearRunning`, `ServerCloses` | the thread's body; the other end of the connection |

`Root` is a startjob that an operator started. The others start on their own, or
by its script, *attached* (they hold the script's output, so Root's `execute`
waits for them) or *detached*. After a kill of Root its script goes on and may
still start programs. `exit` runs the globals' destructors but not main's
locals', so a connection that main and the logger share is then never closed,
and a session not either; what `list_directory` and `spawn` throw runs none.

Assumptions: a write to a log is one step and succeeds; the client library's
queue is a log; `--force` of startjob is not told apart. What the daemon does
between its start and the signal that ends it, and whether its watcher then hears
of the signal, is in CronTable and CronDaemon; here `WatcherEnds` may never come.
What the daemon survives is recorded with an act of its own (`unstarted`) although
the code calls it an error too, so that it is told from what ends a process.

### Deployment: deploy.py and the jobs it tests with

| TLA+ | Code |
|---|---|
| `Look`, `Refuse`, `Mkdir`, `Fill` | `deploy.py` up to the copied pyinternal |
| `RunTest`, `CallCoreTest`, `Verdict` | the call of startjob on `core_test`, the last line of its output, the messages |
| `core_test`, `without_args`, `with_args` | the scripts, as sequences of calls with what they assert |
| `frames` | the scripts that run, each started by the one before |
| `Call`, `Finish` | `startjob`: begins a script, or fails before it; ends with an exit code printed or not, returned or not |
| `OwnerTest`, `setvalue`, `getvalue`, `setparam`, `getparam`, `startjob` | the calls through `cis.py` |
| `Prepared`, `LastJob` | `prepare_params`; the two `set_value` of startjob |
| `passed` | history: the calls whose assertions held |

Each CIS program is one step here. `CanFail` lets up to `MaxFaults` calls fail at
any place. Several runs may target one directory, and a run may itself be inside
a CIS session (`Inside`), which `deploy.py` hands on with its environment.


## 3. The runs

| Run | Instance | States | Shows |
|---|---|---|---|
| `builds_race` | 3 processes, empty directory, last number 3, errors and kills | 2.0 M | `ExclusiveBuild`, `RemovesFinishedOnly`, `KeepsNewest`, `OutcomeIsFinal` |
| `builds_limit` | 3 processes, one build left by others, last number 1, no broken build kept | 725 k | `TypeOK`, `FailureMeansContention`, `ImplementsSlots`, `EventuallyTrimmed` |
| `startjob_tree` | 3 startjobs, 2 jobs, one failure, exception or kill | 554 k | `TypeOK`, `SessionClosesLast`, `ScriptKnowsItsPlace`, `ParamsStayInSession`, `LastJobIsTheScripts`, `SessionsClose` |
| `startjob_params` | 2 startjobs | violated | `ZeroMeansParams` |
| `store_safe` | 3 processes, each a setvalue or a startjob, kills | 898 k | `Durable`, `NothingInvented`, `SamePair`, `PoisonStays` |
| `runner_run` | texts up to 3 characters, pipes of 2 | 329 k | `NothingLost`, `OutputComplete`, `RunEnds` |
| `cron_run` | 2 entries, 2 cis_cron runs, a signal, spurious wake-ups | 399 k | `TypeOK`, `EveryTimerRunsOnce`, `FollowsTable`, `SignalEnds` |
| `cron_stale` | 1 entry | violated | `CancelledStaysSilent` |
| `table_run` | 2 cis_cron runs of 7 command lines, 2 daemons, kills, files that do not open | 2.28 M | `Durable`, `NothingTorn`, `DaemonSurvives`, `OnlyStartsDeafen`, `PoisonStays` |
| `table_spaced` | 1 cis_cron run | violated | `ZeroMeansAdded` |
| `programs_run` | a startjob and one other program, a webui that answers, closes or fails, one kill | 380 k | `SameStory`, `AuthComesFirst`, `SessionFramed`, `FailuresReported`, `ObjectOutlivesThread`, `EveryProcessEnds` |
| `deploy_run` | 2 runs of deploy.py for one directory, one inside a session, up to 3 failing calls | 3,588 | `SuccessMeansTested`, `FailureHasCause`, `OneFills`, `DeployEnds` |

### Bounds, and why they are enough

- **Builds.** Three processes: a race for a number needs two, the reuse of a
  number needs a third (one that listed early, one that finished, one whose
  maintenance removes). `MaxBuild` stands for 999999; with 3 in `builds_race`
  the numbers do not run out, with 1 in `builds_limit` they do. Limits of 0 and 1
  are both used. The proofs need none of these bounds.
- **StartJob.** `N = 3` is the smallest tree with a grandchild and with siblings,
  which `LastJobIsTheScripts` and the chain of environments need. `MaxRoots = 1`:
  the operator starts one; a second session comes from `--new_session`, with no
  loss, because sessions of different operators share nothing in this module but
  build numbers. `MaxFailures = 1`: every place can fail, one at a time. Again,
  the proofs need none of them.
- **SessionStore.** Two keys of different lengths and values of different lengths
  make rewrites that are shorter than, as long as and longer than the one they
  overlap. Three processes: two that overlap and one that reads what they left.
- **JobRunner.** Three characters, each a letter or a newline, give an empty line, a
  line cut in two, two lines in one read and a rest without a newline; a pipe of 2
  fills up.
- **CronDaemon.** Two entries: one that changes and one that must not be
  disturbed. Two runs of cis_cron: an add that is followed by a del of the same
  entry, or the reverse. `MaxQueue` bounds timer expirations only: a timer does
  not expire while that many handlers wait (updates and signals are not bounded).
  A spurious wake-up is only taken when the queue is empty, otherwise the watcher
  could post updates without end.
- **CronTable.** Two runs of cis_cron that overlap or follow each other, on no
  table, an empty one and tables of one and two entries. Job names that are
  short, long (the rewrite is then shorter or longer than what it overlaps), with
  a space and beginning with one (an empty name ends the table in the same way);
  an expression that is too short. Two daemons are enough for one to take the
  other's names away. What `notify_daemon` may throw has, for the table and the
  daemons, the effect of a kill at that place, which is there.
- **Programs.** One startjob and one other program, which is each of the other
  programs in turn, in each way of starting. With one connection
  (`MaxLinks`) either of the two may have it, or none; one kill (`MaxKills`) may
  hit any process at any step. Processes share only the logs of a
  session, so a pair shows all that two can do to each other. cis_cron is called
  with one, two and three arguments; the daemon records one thing it survives.
- **Deployment.** Two runs race for one directory. The scripts make a bounded
  number of calls; three failures are enough for one in `deploy.py`, one in
  `core_test` and one in a job it starts.

### Symmetry and deadlock

`builds_race` uses the symmetry of the processes, `table_run` that of the runs
and of the daemons; neither checks liveness. Deadlock is checked where the code
has an end that the model shows as a stuttering step (`Done`, `AllEnded`), so a
process that waits for ever is an error. The `cron`, `table`, `programs` and
`deploy` runs switch it off, because the system really stops there: when the
bounded number of `cis_cron` runs has ended and the daemon has exited, crashed or
nothing left to do; when all processes have ended; when each run of `deploy.py`
has said how it went. That nobody waits for ever there is what
`SignalEnds`, `EveryProcessEnds` and `DeployEnds` say.

### Fairness

- **Builds** (`FairSpec`): every startjob and every maintenance that can take a
  step takes one at last. They are operating system processes, none waits for
  another. A kill is never forced.
- **StartJob**: while a startjob can take a step or a script can end, one does.
  This is weaker than fairness of each process, and enough because each takes
  finitely many steps. That scripts end is an assumption about the operator's
  scripts. Nobody has to start a job, set a parameter, fail or be killed.
- **JobRunner**: the `io_context` serves what is ready; scripts, and what they
  leave behind, write what they have and end.
- **CronDaemon**: both threads, and a cis_cron that was started, go on while they
  can. Nobody has to run cis_cron, send a signal, or let a timer expire; wake-ups
  for nothing are not fair.
- **Programs**: the main thread and the connection's thread of each process go on
  while they can. Nobody has to start a program, or to send the daemon a signal, and
  the webui does not have to answer, or to close the connection: `EveryProcessEnds`
  holds without that.
- **Deployment**: the calls of the scripts and the steps of each `deploy.py` go on
  while they can; the calls are processes of their own, and the waits are for
  their ends.

### Conditions in the properties

Some properties hold only under a condition, and the condition says where the
code is exposed. Without it each is violated.

| Property | Unless |
|---|---|
| `KeepsNewest` | a number was taken again while it was being removed (`reused`) |
| `FollowsTable`, `SignalEnds` | a notification fell between the watcher's post and its wait (`missed`) |
| `Durable`, `SamePair`, `NothingInvented` of SessionStore | sets overlap (`raced`, `mixed`, `overlaid`) |
| `Durable`, `NothingTorn`, `DaemonSurvives` of CronTable | runs of cis_cron overlap, for `Durable` also one is killed while it writes (`cut`); a saved entry is not `Plain`: its job name is empty or has a space, its expression a newline |
| `PoisonStays` of CronTable | runs overlap or one is cut; a saved entry is not `OneLine`: its job name is empty or begins with a space, or its line is two |
| `SessionClosesLast` | the process is below a startjob that was left behind or killed |
| `LastJobIsTheScripts` | a script has two jobs at once, leaves one behind, or a startjob is killed (`calm`) |
| `SessionsClose` | the opener was killed, or ended by an exception (`Throws`) |
| `FailuresReported` | an exception; a failure before the logs are made; a startjob before its build; cis_cron, its daemon's main, maintenance |
| `SessionFramed` | the program let go of the script's output (detached) |
| `EveryProcessEnds` | the process is a daemon, which may wait for its watcher even after a signal, or a startjob whose script left its output to one |
| `OnlyStartsDeafen` | another daemon was started |
| `FailureHasCause` | a call failed, another run has the directory, or `deploy.py` runs inside a session |

## 4. The proofs

`tlapm` checks them for every value of the constants: any number of processes,
jobs, entries and daemons, any limits, with errors and kills. The assumptions are
those that the modules name (`ProcsAssumption`, `LimitsAssumption`,
`CronAssumption`, `StartJobAssumption`, `TableAssumption`, `StoreAssumption`,
`RunnerAssumption`, `DeploymentAssumption`, `ProgramsAssumption`); TLC evaluates them
in every run.

| Module | Theorem | States |
|---|---|---|
| BuildsProofs | `TypeCorrect` | `Spec => []TypeOK` |
| | `Exclusive` | `Spec => []ExclusiveBuild` |
| | `FinishedOnly` | `Spec => RemovesFinishedOnly` |
| | `FinalOutcome` | `Spec => OutcomeIsFinal` |
| | `Contention` | without errors and kills, `Spec => []FailureMeansContention` |
| | `Implementation` | `Spec => ImplementsSlots`: the refinement of `BuildSlots` |
| | `NewestKept` | `Spec => KeepsNewest` |
| JobRunnerProofs | `TextKept` | `Spec => []NothingLost` |
| | `OutputKept` | `Spec => []OutputComplete` |
| CronDaemonProofs | `TypeCorrect` | `Spec => []TypeOK` |
| | `TimersRunOnce` | `Spec => []EveryTimerRunsOnce` |
| StartJobProofs | `TypeCorrect` | `Spec => []TypeOK` |
| | `PlaceKnown` | `Spec => []ScriptKnowsItsPlace` |
| | `ParamsOfSession` | `Spec => []ParamsStayInSession` |
| | `LastJobFound` | `Spec => []LastJobIsTheScripts` |
| | `ClosesLast` | `Spec => []SessionClosesLast` |
| CronTableProofs | `TypesKept` | `Spec => []TypeOK` |
| | `TableKept` | `Spec => []Durable` |
| | `WholeEntries` | `Spec => []NothingTorn` |
| | `DaemonSafe` | `Spec => []DaemonSurvives` |
| | `PoisonKept` | `Spec => PoisonStays` |
| | `AloneHears` | `Spec => []OnlyStartsDeafen` |
| SessionStoreProofs | `LastValueKept` | `Spec => []Durable` |
| | `NothingMadeUp` | `Spec => []NothingInvented` |
| | `PairKept` | with `OnlyStartjobs`, `Spec => []SamePair` |
| | `PoisonForEver` | `Spec => PoisonStays` |
| ProgramsProofs | `AuthFirst` | `Spec => []AuthComesFirst` |
| | `ThreadHasObject` | `Spec => []ObjectOutlivesThread` |
| | `FailuresRecorded` | `Spec => []FailuresReported` |
| | `OneStory` | `Spec => []SameStory` |
| | `OpenedToClosed` | `Spec => []SessionFramed` |
| DeploymentProofs | `TestedBeforeSuccess` | `Spec => []SuccessMeansTested` |
| | `OneDeployer` | `Spec => []OneFills` |
| | `NoFalseAlarm` | `Spec => []FailureHasCause` |

In every module the property is not inductive as it stands; what makes it so is
the part worth reading.

- **Builds.** From `ExclusiveBuild` alone a maintenance could remove a build that
  is at work, because nothing says that what maintenance has read is still true.
  `IInv` adds: the startjob that copied the script into a number that is not
  erased finds its script there and the exit code in the state it left it in
  (`Owned`); a directory without a script has no exit code, so the winner of a
  number starts without one (`NoScriptNoExit`); what maintenance has read of a
  number that is not erased is still what `exitcode.txt` says, although its
  listing is stale (`ReadsHold`), which is why it gives up finished builds only;
  files are removed only of numbers that are given up (`GivenUpFirst`). The
  action properties and the refinement follow from `IInv` and the step. For
  `Contention`, `Blamed` says who won the number that a startjob lost.
  For `NewestKept`: several processes give up builds by maps of different ages, so
  what one gives up others still count as kept. `Counted` says it of the numbers
  already given up: while anybody can still take one of them for a build of some
  outcome, as many newer builds of this outcome stay as job.conf says. Giving up
  one of these leaves as many that are newer still. `Undisturbed`: nobody works in
  a directory that is being removed.
- **JobRunner.** `NothingLost` says that the parts of a text, put together, are the
  text; each step moves characters from one part to the next. The line handler's
  step is the hard one: `Unlines`, what lines stand for, is a fold over them, and it
  has to be known what it makes of one line more. `FlattenAppend` finds it without
  induction over data: functions of the recursive form exist (`FlatExists`) and
  agree as far as their arguments do (`FlatSame`), since there is no least number
  for which they would not. `AtEnd` keeps what is true of a stream once it has
  ended, and `WrittenFirst` is why nothing of it is on the way then.
- **CronDaemon.** `FiresOnce` ties the queue to the timers: the handler of an
  entry's timer is ready, once, exactly if the entry has a timer that does not
  wait. This rests on `update` erasing exactly the timers whose entries are gone.
- **StartJob.** What a startjob knows of its ancestors it read when it started.
  `Placed` says that this stays true: the job and the build of a startjob whose
  script has begun no longer change, and before that no script can hand them on.
  `SetInSession`: a `.prm` file holds what scripts of its session have set.
  For `LastJobFound`, `Waits` orders the startjobs of a session that are at work
  in a line in which each but the last waits for the next, and `Left` says that
  what the last one wrote to the session is still there when it ends.
  For `ClosesLast`, `Held` says who waits whatever fails: a startjob that holds its
  starter's output is waited for until it ends. `OpenedAbove`: the opener of a
  session is in every set of startjobs that has the process and, with each, the one
  above. The set of those in the line that are at work is such a set, so the
  opener is at work too. `Line` is a recursive function; `LineExists` exhibits
  a function of that form, and `LineClosed` finds it closed by the least number
  for which it would not be.
- **CronTable.** Where an entry begins depends on all that is before it in the file.
  The way out is `Reads(f, t)`: f is read as the entries t *whatever follows it*. Two
  files with that property have it after one another (`ReadsBoth`), and a line has it
  (`LineReads`), because the loop reads what follows as it would alone
  (`LoopSecond`, by the greatest place where it would not). `Cut(e)` is what e's line
  comes back as; for a plain entry it is e (`CutPlain`). `save` goes through the set in
  the order of `operator<`: this is an order (`EntryOrder`), so `InOrder` has each entry
  once. The invariant speaks of every place of a run: `OneByOne`, what it has loaded and
  changed is the table as it is; `Written`, what is in the file and what is still to be
  written are together what it saves, and it writes at the end; `Whole` and `Kept` say
  the same of the histories. `Genuine`: what was loaded came back from a line, so it is
  plain, and what is added make_cron accepts; that is why an expression that is none
  comes through every rewrite (`PoisonKept`), and why none comes up from plain entries
  (`DaemonSafe`). The proof of `PoisonStays` showed that its condition was too weak:
  besides an empty job name one that begins with a space ends the table, and takes
  the poison with it; TLC confirmed it. A name that stands for nothing is made by
  whoever opens it first. `Hears`: from its own `create_only` on, the condition is that of a
  daemon that is the only one ever started, although every cis_cron may make it.
- **SessionStore.** The first half is about bytes: which lines, and so which pairs, a
  file has. `LinesAppend` says what a line more makes of it, `PairLine` that a pair's
  line has one "=", and `RewriteReads` that what `Rewrite` writes reads as the map with
  the new pair. The rewrite is a fold; what it returns is found as in JobRunner, by the
  least number of lines for which it would be something else. `Maps` leaves open which
  of two lines with one key wins, so `ResultOf` needs that there is one line for a key.
  The second half is about sets of pairs. `Genuine`: what is in the file, or in a map
  that was read, was set. A rewrite that is not shorter than what is under it leaves
  nothing of it (`OverlayIs`), which is the condition of `NothingInvented`.
  `OneByOne`: while no set overlaps another, the map of the one process in a set is
  the file as it was before, and the file is empty when it is written. `InTurn` is
  the same for whole programs: whoever begins finds startjob's two values paired, and
  a startjob between its two sets finds the name it has set. `PairKept` assumes
  `OnlyStartjobs`: no other program sets `last_job_name` or `last_job_build_number`.
  Nothing keeps a script from doing so with `setvalue`, and then the pair is its own
  affair. For `PoisonForEver`: a set that begins on a poisoned file is refused before
  it empties the file, and nobody is between load and store.
- **Programs.** Three invariants, each used by the next. `IInv` is of each process
  alone, since a step touches no queue but its own process': nothing recorded before
  the authentication; the queue's first record is it, or it is the next to be
  written; and while the thread is there, so is a share of its object. The logs of a
  session are shared, and the properties about them speak of records that are only
  partly written when the others step in. So `RInv` speaks of what is `Noted`: told
  to a log already, or due in the call the process is in. With this a call is one
  step: writing a record changes what is told and what is due, but not what is
  noted. `Local` says where a process stands when it has which logs, which session
  and which ending; `Codes` has what it told whom with its exit status. `Noting` is
  about errors: `Erred`, who has noted one, with which ending, and that a startjob
  which has begun its build fails on stderr (`Begun`). Nothing is due once a process
  has ended, and what has crashed has no exit status, so `Codes` and `Noting` give
  `FailuresReported` for every program. `Twin` is for the order: what is left of a
  call has each record for the queue right before the same for the combined log
  (`Balanced`), so the process is either between two such pairs, and the two logs
  agree, or at the second half of one, and the queue is ahead by that record. `FInv`
  relates processes. `Framed`: by the time Root's script starts a program, the
  opening is in the log, and before it nothing but a failure is. `Waited` and
  `Closed`: Root closes last, after the script ended, and then whoever holds its
  output has gone and cannot come; `LastIn` says what that makes of the log. The
  model has some forty actions. Instead of proving each invariant for each, every
  action is shown once to be one of three: a `Move`, which starts a call and is a
  line of a table (`Moves`), the `Writes` of one record, or `Idle`.
- **Deployment.** The invariant follows the verdict back to the assertions: a
  script whose next line is n has passed the lines before n (`FrameSeen`),
  core_test gets beyond a startjob only with the code of a job that passed
  all of its lines (`AllSeen`), and deploy.py only waits for what core_test says
  (`Waits`). `OwnParts`: who fills a directory made it. `FailureHasCause` is the
  converse and needs what the scripts leave to each other: `FInv` says, as long as
  no call has failed and the directory's owner is outside a session, for each line of
  `core_test` what its session holds then (`Session`), and for each line of
  `with_args` what it was given and has left (`Passing`). That `prm1` arrives with
  its default rests on nobody having set it in the session, by then or before.

**Only model-checked.** All liveness (`EventuallyTrimmed`, `SessionsClose`,
`RunEnds`, `FollowsTable`, `SignalEnds`, `EveryProcessEnds`, `DeployEnds`): the
prover does not handle fairness. Every invariant and every action property that a
run checks is also proved.

## 5. Disagreements between code and documentation

Three runs are violated, with the lines they are about in `PROJECT.json`:

1. **cron_stale**: `cron.h:145` says `cancel` cancels a timer. A timer that has
   already expired starts the deleted job, and runs on in freed memory.
2. **startjob_params**: `devguide.md:7` says that zero means success. A startjob
   that could not read its session's parameters runs with the defaults and
   returns zero.
3. **table_spaced**: the same line. `cis_cron --add` of a job name with a space
   returns zero, and what is in the table afterwards is another entry.

The conditions of section 3 are the hazards behind properties that hold. In words:

- `job.h:120` says cleanup removes outdated builds. A startjob that chose its
  number from an old listing can settle in a directory that is being removed, and
  loses its files while it runs (`reused`, `erased` in Builds).
- `cron.h:203` says `notify_daemon` notifies the daemon. A notification between
  the watcher's post and its wait is lost (`missed` in CronDaemon). Two daemons
  that start at once can leave the survivor deaf for good (`OnlyStartsDeafen`).
- `set_value.h:21` says that it sets a value. Of two sets that overlap, both
  without an error, one value is gone (`raced` in SessionStore). `setparam` sets
  a parameter "for the next job" (`set_param.h:20`), but it stays for all later
  jobs of the session.
- `job_runner.h:56` promises stderr lines. A last one without a newline never
  arrives, nor does it get into output.txt. `newline_cb` of `job::execute`
  (`job.h:69`) is never called, so no line of a job's output reaches the webui.
- `exitcode.txt` is written by the exit callback (`job.cpp:185`) while output.txt
  may still grow, so a build can be finished for maintenance before it is quiet.
- `devguide.md:9` wants a failure on stderr and in one of the logs. On stdout only,
  and in no log, are: a job that cannot be loaded and a parameter typed badly
  (`startjob.cpp:162-168`, `:188`); an expression or a mask that is refused, an entry
  that is not there, a table that cannot be opened for writing, and wrong arguments
  (`cis_cron.cpp:46`, `:71`, `:92`, `:113`, `:122`, `:213`, `:226`, `:247`); all
  failures of maintenance (`maintenance.cpp:54`, `:62`, `:71`); and the daemon's two
  `remove` (`cis_cron_daemon.cpp:67`, `:76`). A table that cannot be read is in the
  cis log and on stdout. `cis_cron --daemon` returns one and says nothing at all
  (`cron.cpp:296-299`). An exception is in no log, and leaves a session open. These
  are the alternatives in `FailuresReported`; every other failure is as the guide says.
- A table that cannot be written is reported as success (`cron.cpp:59`); an empty
  job name, or one that begins with a space, ends the table at its line;
  `cis_cron` with an option it does not know returns zero (`cis_cron.cpp:231-233`);
  a daemon that did not start is not noticed. `deploy.py` makes no `core/crons`,
  so the first `--add` on a fresh deployment fails.
- `parent_startjob_id` is read from the environment (`context.cpp:32`) but set
  nowhere, so the `ppid=` that startjob prints is always 0.
- `cis_cron --daemon` in a script hands the daemon the script's output, and the
  startjob above waits for it until the daemon ends.

## 6. What is not modelled

- **Context, OS adapters, error codes** are pass-through: what they do is in the
  actions that call them, so the component is only partly there. The texts of
  errors and logs, log levels and file names are left out.
- **External**, and modelled by how the code uses it: the grammar of cron
  expressions, the regular expressions of masks, the encoding of parameters, the
  client library of the webui, the order in which `remove_all` takes files.
- **test_package**: the unit tests. They were read as documentation.

## 7. Plan

All modules of the plan are there: Builds with BuildSlots and its refinement,
CronDaemon, SessionStore, JobRunner, StartJob, CronTable, Programs (which took the
place of a module for the webui session alone), Deployment. What is left:

1. JobRunner composed with Builds, to show for which scripts a build is quiet when
   `exitcode.txt` is there.
2. An abstract key-value store that SessionStore implements when sets do not
   overlap.
