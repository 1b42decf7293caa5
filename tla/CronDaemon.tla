----------------------------- MODULE CronDaemon -----------------------------
(***************************************************************************)
(* cis_cron_daemon and the cis_cron runs that feed it.                     *)
(*                                                                         *)
(* The cron table core/crons is rewritten by cis_cron --add and --del,     *)
(* which then notify a named condition.  In the daemon a watcher thread    *)
(* waits on the condition and posts cron_manager::update; the thread that  *)
(* runs the io_context executes the posted handlers in order: updates,     *)
(* expired timers, the signal handler.  notify_daemon does not take the    *)
(* mutex the watcher waits with, nor does the signal handler.              *)
(*                                                                         *)
(* The mutex is not modelled: only the watcher ever locks it.              *)
(***************************************************************************)
EXTENDS Naturals, Sequences, FiniteSets

CONSTANTS
    Entries,        \* cron entries: a job and an expression
    NoEntry,        \* the entry of handlers that concern none
    MaxRuns,        \* bound: how often cis_cron is run
    MaxQueue,       \* bound: timers expire while fewer handlers are ready
    Signals,        \* TRUE: SIGINT or SIGTERM may come
    Spurious        \* TRUE: a wait may return although nobody notified

ASSUME CronAssumption ==
    /\ NoEntry \notin Entries
    /\ MaxRuns \in Nat /\ MaxQueue \in Nat
    /\ Signals \in BOOLEAN /\ Spurious \in BOOLEAN

VARIABLES
    file,           \* the entries in core/crons
    cli, toSave,    \* cis_cron: where it is, the entries it has yet to write
    runs,           \* cis_cron runs so far
    watcher,        \* the watcher thread
    queue,          \* handlers of the io_context that are ready to run
    timers,         \* entries of cron_manager::timers_
    armed,          \* timers whose wait is pending
    zombies,        \* destroyed timers that wait on in freed memory
    daemon,         \* "running", "stopped" (io_context), "exited" or "crashed"
    signalled,      \* a signal was sent
    missed          \* history: a notification since the watcher's last post
                    \* came before the watcher was waiting

cliVars == <<file, cli, toSave, runs>>
timerVars == <<timers, armed, zombies>>
vars == <<cliVars, timerVars, watcher, queue, daemon, signalled, missed>>

Handler == [kind: {"update", "signal"}, entry: {NoEntry}]
           \cup [kind: {"fire", "stale"}, entry: Entries]

TypeOK ==
    /\ file \subseteq Entries /\ toSave \subseteq Entries
    /\ cli \in {"idle", "loaded", "saving", "notify"}
    /\ runs \in 0..MaxRuns
    /\ watcher \in {"check", "posted", "waiting", "exited"}
    /\ queue \in Seq(Handler)
    /\ timers \subseteq Entries /\ armed \subseteq timers /\ zombies \subseteq Entries
    /\ daemon \in {"running", "stopped", "exited", "crashed"}
    /\ signalled \in BOOLEAN /\ missed \in BOOLEAN

Init ==
    /\ file \in SUBSET Entries
    /\ cli = "idle" /\ toSave = {} /\ runs = 0
    /\ watcher = "check"
    /\ queue = <<>>
    /\ timers = {} /\ armed = {} /\ zombies = {}
    /\ daemon = "running"
    /\ signalled = FALSE /\ missed = FALSE

Up == daemon \in {"running", "stopped"}

-----------------------------------------------------------------------------
(* cis_cron: one run at a time                                             *)

CliIdleVars == <<timerVars, watcher, queue, daemon, signalled, missed>>

\* A cis_cron run loads the table and changes its copy.
CliLoad(copy) ==
    /\ cli = "idle"
    /\ runs < MaxRuns
    /\ toSave' = copy
    /\ cli' = "loaded"
    /\ runs' = runs + 1
    /\ UNCHANGED <<file, CliIdleVars>>

CliAdd == \E e \in Entries : CliLoad(file \cup {e})

\* To delete an entry that is not there ends the run.
CliDel == \E e \in file : CliLoad(file \ {e})

\* save opens the table for writing, which empties it ...
CliTruncate ==
    /\ cli = "loaded"
    /\ cli' = "saving"
    /\ file' = {}
    /\ UNCHANGED <<toSave, runs, CliIdleVars>>

\* ... and flushes it line by line.
CliWriteLine ==
    /\ cli = "saving"
    /\ \E e \in toSave :
        /\ file' = file \cup {e}
        /\ toSave' = toSave \ {e}
    /\ UNCHANGED <<cli, runs, CliIdleVars>>

CliSaved ==
    /\ cli = "saving"
    /\ toSave = {}
    /\ cli' = "notify"
    /\ UNCHANGED <<file, toSave, runs, CliIdleVars>>

\* notify_one wakes the watcher if it waits, and is forgotten if it does not.
NotifyOne ==
    IF watcher = "waiting"
    THEN watcher' = "check" /\ UNCHANGED missed
    ELSE UNCHANGED watcher /\ missed' = (missed \/ watcher = "posted")

\* Variant: cis_cron does not notify the daemon.
CliForgetsNotify ==
    /\ cli = "notify"
    /\ cli' = "idle"
    /\ UNCHANGED <<file, toSave, runs, CliIdleVars>>

CliNotify ==
    /\ cli = "notify"
    /\ cli' = "idle"
    /\ NotifyOne
    /\ UNCHANGED <<file, toSave, runs, timerVars, queue, daemon, signalled>>

Cli == CliTruncate \/ CliWriteLine \/ CliSaved \/ CliNotify

-----------------------------------------------------------------------------
(* The watcher thread                                                      *)

Post(h) == queue' = Append(queue, h)

Plain(kind) == [kind |-> kind, entry |-> NoEntry]

WatcherPost ==
    /\ Up /\ watcher = "check"
    /\ daemon = "running"
    /\ Post(Plain("update"))
    /\ watcher' = "posted"
    /\ missed' = FALSE
    /\ UNCHANGED <<cliVars, timerVars, daemon, signalled>>

WatcherWait ==
    /\ Up /\ watcher = "posted"
    /\ watcher' = "waiting"
    /\ UNCHANGED <<cliVars, timerVars, queue, daemon, signalled, missed>>

\* The io_context is stopped: the thread ends, main joins it and returns.
WatcherExit ==
    /\ Up /\ watcher = "check"
    /\ daemon = "stopped"
    /\ watcher' = "exited"
    /\ daemon' = "exited"
    /\ UNCHANGED <<cliVars, timerVars, queue, signalled, missed>>

\* Only while no handler is ready: a bound.
SpuriousWake ==
    /\ Spurious
    /\ Up /\ watcher = "waiting"
    /\ queue = <<>>
    /\ watcher' = "check"
    /\ UNCHANGED <<cliVars, timerVars, queue, daemon, signalled, missed>>

Watcher == WatcherPost \/ WatcherWait \/ WatcherExit

-----------------------------------------------------------------------------
(* The io thread: handlers run one at a time, in the order they got ready  *)

Ready(kind) == daemon = "running" /\ queue # <<>> /\ Head(queue).kind = kind

\* A handler that is ready when its timer is destroyed still runs: the cancel
\* comes too late for it.
Orphan(q, gone) ==
    [i \in DOMAIN q |->
        IF q[i].kind = "fire" /\ q[i].entry \in gone
        THEN [q[i] EXCEPT !.kind = "stale"] ELSE q[i]]

\* Variant: timers are erased without being cancelled.
UpdateForgetsCancel ==
    /\ Ready("update")
    /\ timers' = file
    /\ armed' = armed \cup (file \ timers)
    /\ queue' = Orphan(Tail(queue), timers \ file)
    /\ UNCHANGED <<cliVars, zombies, watcher, daemon, signalled, missed>>

\* cron_manager::update: cancel and erase the timers of entries that are no
\* longer in the table, start timers for new ones, leave the others alone.
RunUpdate ==
    /\ Ready("update")
    /\ timers' = file
    /\ armed' = (armed \cap file) \cup (file \ timers)
    /\ queue' = Orphan(Tail(queue), timers \ file)
    /\ UNCHANGED <<cliVars, zombies, watcher, daemon, signalled, missed>>

\* Variant: the timer does not wait for the next time.
FireOnce ==
    /\ Ready("fire")
    /\ queue' = Tail(queue)
    /\ UNCHANGED <<cliVars, timerVars, watcher, daemon, signalled, missed>>

\* cron_timer's handler: start the job, then wait for the next time.
RunFire ==
    /\ Ready("fire")
    /\ armed' = armed \cup {Head(queue).entry}
    /\ queue' = Tail(queue)
    /\ UNCHANGED <<cliVars, timers, zombies, watcher, daemon, signalled, missed>>

\* The same handler of a destroyed timer: the job starts, then run is called
\* on freed memory, which kills the daemon or leaves a timer no update knows.
RunStale ==
    /\ Ready("stale")
    /\ queue' = Tail(queue)
    /\ \/ daemon' = "crashed" /\ UNCHANGED zombies
       \/ zombies' = zombies \cup {Head(queue).entry} /\ UNCHANGED daemon
    /\ UNCHANGED <<cliVars, timers, armed, watcher, signalled, missed>>

\* Variant: the signal handler does not wake the watcher.
SignalForgetsNotify ==
    /\ Ready("signal")
    /\ queue' = Tail(queue)
    /\ daemon' = "stopped"
    /\ UNCHANGED <<cliVars, timerVars, watcher, signalled, missed>>

RunSignal ==
    /\ Ready("signal")
    /\ queue' = Tail(queue)
    /\ daemon' = "stopped"
    /\ NotifyOne
    /\ UNCHANGED <<cliVars, timerVars, signalled>>

Io == RunUpdate \/ RunFire \/ RunStale \/ RunSignal

-----------------------------------------------------------------------------
(* The clock and the operator                                              *)

Expire ==
    /\ daemon = "running"
    /\ Len(queue) < MaxQueue
    /\ \E e \in armed :
        /\ armed' = armed \ {e}
        /\ Post([kind |-> "fire", entry |-> e])
    /\ UNCHANGED <<cliVars, timers, zombies, watcher, daemon, signalled, missed>>

ExpireZombie ==
    /\ daemon = "running"
    /\ Len(queue) < MaxQueue
    /\ \E e \in zombies :
        /\ zombies' = zombies \ {e}
        /\ Post([kind |-> "stale", entry |-> e])
    /\ UNCHANGED <<cliVars, timers, armed, watcher, daemon, signalled, missed>>

Signal ==
    /\ Signals
    /\ daemon = "running" /\ ~signalled
    /\ signalled' = TRUE
    /\ Post(Plain("signal"))
    /\ UNCHANGED <<cliVars, timerVars, watcher, daemon, missed>>

Next ==
    \/ CliAdd \/ CliDel \/ Cli \/ Watcher \/ SpuriousWake \/ Io
    \/ Expire \/ ExpireZombie \/ Signal

Spec == Init /\ [][Next]_vars

\* Threads and a started cis_cron go on while they can; nobody has to run
\* cis_cron, send a signal, let time pass or wake the watcher for nothing.
Fairness == WF_vars(Cli) /\ WF_vars(Watcher) /\ WF_vars(Io)

FairSpec == Spec /\ Fairness

-----------------------------------------------------------------------------
(* Properties                                                              *)

Queued(kind, e) == {i \in DOMAIN queue : queue[i] = [kind |-> kind, entry |-> e]}

\* Every timer of the daemon waits or is about to run, and only once: no
\* sequence of updates and expirations loses an entry's timer or doubles it
\* (cron_timer::run, cron_manager::update).
EveryTimerRunsOnce ==
    Up => \A e \in timers :
            Cardinality(Queued("fire", e)) = IF e \in armed THEN 0 ELSE 1

\* Once cis_cron is no longer run, the daemon's timers are the table, unless
\* its last notification came in the one moment in which it is lost: after
\* the watcher posted an update and before it waits (the watcher's loop).
FollowsTable ==
    <>[](\/ cli # "idle" \/ missed
         \/ timers = file
         \/ signalled \/ daemon = "crashed")

\* A signal ends the daemon, unless its notification is lost the same way
\* (the signal handler, main's join).
SignalEnds ==
    signalled ~> (daemon \in {"exited", "crashed"} \/ missed)

\* cron.h:145: cancel "Cancels timer": a timer that update erased starts no
\* job any more.
CancelledStaysSilent == ~Ready("stale")
=============================================================================
