------------------------------ MODULE CronTable ------------------------------
(***************************************************************************)
(* The cron table core/crons: cis_cron --add, --del and --list, several of *)
(* them at once, and the daemons that read it.                             *)
(*                                                                         *)
(* A run loads the table into a set, changes the set, opens the file anew, *)
(* which empties it, writes one line for each entry, flushed line by line, *)
(* and notifies a condition by its name.  Nothing locks the table.  A line *)
(* is the job, a space, the expression and a newline; the job is read back *)
(* up to the first space, the expression up to the next newline, and the   *)
(* first line that lacks either ends the table.  So a job with a space, or *)
(* without a letter, and lines that two runs wrote across each other, come *)
(* back as something else, and the bytes matter; the letters do not.       *)
(*                                                                         *)
(* A daemon reads the table when it starts and whenever its condition is   *)
(* notified.  CronDaemon has its threads, timers and lost notifications;   *)
(* here update may run at any time.                                        *)
(***************************************************************************)
EXTENDS Naturals, Sequences, FiniteSets, SequencesExt

CONSTANTS
    Clients,        \* cis_cron runs
    Commands,       \* their command lines, see Command
    Exprs,          \* texts that make_cron accepts
    Tables,         \* entries the table may have been saved with at first
    Daemons,        \* daemons that may be started
    Nobody,         \* the name of the condition or the mutex does not exist
    Stray,          \* it was made by notify_daemon, and no daemon uses it
    Kills,          \* TRUE: a cis_cron may be killed, a daemon ended
    Faults          \* TRUE: the table may be missing, or not open

Bytes == {"nul", "nl", "sp", "e", "j"}
Text == Seq(Bytes)
Entry == [job : Text, expr : Text]
Command == [op : {"add", "del", "list"}, job : Text, expr : Text]

ASSUME TableAssumption ==
    /\ Commands \subseteq Command /\ Commands # {}
    /\ Exprs \subseteq Text
    /\ \A t \in Tables : IsFiniteSet(t) /\ t \subseteq [job : Text, expr : Exprs]
    /\ Nobody # Stray /\ {Nobody, Stray} \cap Daemons = {}
    /\ {Kills, Faults} \subseteq BOOLEAN

VARIABLES
    file, there,    \* the bytes of the table; whether the file exists
    cmd,            \* cmd[p]: the command line of run p
    pc,             \* pc[p]: where it is
    copy,           \* copy[p]: the set it loaded and changed
    todo, off,      \* todo[p]: entries it has yet to write, off[p]: from where on
    shown,          \* shown[p]: what --list printed
    daemon,         \* daemon[d]: where daemon d is
    timers,         \* timers[d]: the entries it has timers for
    cv, mutex,      \* who made what the two names stand for
    table,          \* history: the entries as the runs that ended left them
    added,          \* history: the entries a run has saved
    overlapped,     \* history: a run loaded while another was at work
    cut             \* history: a run was killed while it wrote

cliVars == <<file, there, cmd, pc, copy, todo, off, shown>>
daemonVars == <<daemon, timers, cv, mutex>>
histVars == <<table, added, overlapped, cut>>
vars == <<cliVars, daemonVars, histVars>>

-----------------------------------------------------------------------------
(* The file                                                                *)

Line(e) == e.job \o <<"sp">> \o e.expr \o <<"nl">>

\* The first c from i on, or the end of f.
At(f, c, i) == Min({Len(f) + 1} \cup {j \in i .. Len(f) : f[j] = c})

\* The loop of load_cron_list and update: a job up to the next space, wherever
\* that is, and an expression up to the next newline, until one is empty.
Parsed(f, stop) ==
    LET from[i \in 1 .. Len(f) + 2] ==
            LET s == At(f, "sp", i)
                n == At(f, stop, s + 1)
            IN  IF i > Len(f) \/ s = i \/ n <= s + 1 \/ s > Len(f) THEN {}
                ELSE {[job |-> SubSeq(f, i, s - 1), expr |-> SubSeq(f, s + 1, n - 1)]}
                     \cup from[n + 1]
    IN  from[1]

\* Variant: the expression ends at a space.
EntriesCutShort(f) == Parsed(f, "sp")

Entries(f) == Parsed(f, "nl")

Rank == [c \in Bytes |-> CASE c = "nul" -> 0 [] c = "nl" -> 1 [] c = "sp" -> 2
                           [] c = "e" -> 3 [] OTHER -> 4]

Before(s, t) ==
    \E i \in 1 .. Len(t) :
        /\ i <= Len(s) + 1 /\ \A j \in 1 .. i - 1 : s[j] = t[j]
        /\ i > Len(s) \/ Rank[s[i]] < Rank[t[i]]

\* cron_entry's operator<, the order of the set.
EntryLess(d, e) == Before(d.job, e.job) \/ (d.job = e.job /\ Before(d.expr, e.expr))

\* A write at an offset; what lies between the end and the offset reads as zero.
WriteAt(f, n, s) ==
    [i \in 1 .. Max({Len(f), n + Len(s)}) |->
        IF i \in n + 1 .. n + Len(s) THEN s[i - n] ELSE IF i <= Len(f) THEN f[i] ELSE "nul"]

\* The entries of a set, in its order.
InOrder(t) ==
    [i \in 1 .. Cardinality(t) |->
        CHOOSE e \in t : Cardinality({d \in t : EntryLess(d, e)}) = i - 1]

\* The table as one run writes it.
Contents(t) == FlattenSeq([i \in DOMAIN InOrder(t) |-> Line(InOrder(t)[i])])

-----------------------------------------------------------------------------
Over == {"ok", "failed", "killed"}

TypeOK ==
    /\ file \in Text /\ there \in BOOLEAN /\ (~there => file = <<>>)
    /\ cmd \in [Clients -> Commands]
    /\ pc \in [Clients -> {"start", "loaded", "writing", "unopened"} \cup Over]
    /\ \A p \in Clients : copy[p] \subseteq Entry /\ shown[p] \subseteq Entry
    /\ todo \in [Clients -> Seq(Entry)] /\ off \in [Clients -> Nat]
    /\ daemon \in [Daemons -> {"off", "cv removed", "removed", "cv made", "up", "ended", "thrown"}]
    /\ \A d \in Daemons : timers[d] \subseteq Entry
    /\ {cv, mutex} \subseteq Daemons \cup {Nobody, Stray}
    /\ table \subseteq Entry /\ added \subseteq Entry
    /\ {overlapped, cut} \subseteq BOOLEAN

Init ==
    /\ \/ \E t \in Tables : file = Contents(t) /\ there = TRUE /\ table = t
       \/ Faults /\ file = <<>> /\ there = FALSE /\ table = {}
    /\ cmd \in [Clients -> Commands]
    /\ pc = [p \in Clients |-> "start"]
    /\ copy = [p \in Clients |-> {}] /\ shown = [p \in Clients |-> {}]
    /\ todo = [p \in Clients |-> <<>>] /\ off = [p \in Clients |-> 0]
    /\ daemon = [d \in Daemons |-> "off"] /\ timers = [d \in Daemons |-> {}]
    /\ cv = Nobody /\ mutex = Nobody
    /\ added = table /\ overlapped = FALSE /\ cut = FALSE

Moves(p, from, to) == pc[p] = from /\ pc' = [pc EXCEPT ![p] = to]

EntryOf(p) == [job |-> cmd[p].job, expr |-> cmd[p].expr]

\* cron_list's changes to its set.
add(list, e) == list \cup {e}
del(list, e) == list \ {e}

make_cron(text) == text \in Exprs
Saving(p) == pc[p] \in {"loaded", "writing"}

-----------------------------------------------------------------------------
(* cis_cron                                                                *)

\* --add and --del look at the expression first, --list at its mask.
ExprRefused(p) ==
    /\ Moves(p, "start", "failed")
    /\ cmd[p].op # "list" /\ ~make_cron(cmd[p].expr)
    /\ UNCHANGED <<file, there, cmd, copy, todo, off, shown, daemonVars, histVars>>

MaskRefused(p) ==
    /\ Moves(p, "start", "failed")
    /\ cmd[p].op = "list"
    /\ UNCHANGED <<file, there, cmd, copy, todo, off, shown, daemonVars, histVars>>

LoadRefused(p) ==
    /\ Moves(p, "start", "failed")
    /\ ~there \/ Faults
    /\ UNCHANGED <<file, there, cmd, copy, todo, off, shown, daemonVars, histVars>>

\* --list prints the entries whose job the mask matches; a mask is a job here.
List(p) ==
    /\ Moves(p, "start", "ok")
    /\ cmd[p].op = "list" /\ there
    /\ shown' = [shown EXCEPT ![p] = {e \in Entries(file) : e.job = cmd[p].job}]
    /\ UNCHANGED <<file, there, cmd, copy, todo, off, daemonVars, histVars>>

Load(p, new) ==
    /\ Moves(p, "start", "loaded")
    /\ there
    /\ copy' = [copy EXCEPT ![p] = new]
    /\ overlapped' = (overlapped \/ \E q \in Clients \ {p} : Saving(q))
    /\ UNCHANGED <<file, there, cmd, todo, off, shown, daemonVars, table, added, cut>>

\* Variant: the expression is not looked at.
AddAnything(p) == cmd[p].op = "add" /\ Load(p, add(Entries(file), EntryOf(p)))

Add(p) ==
    /\ cmd[p].op = "add" /\ make_cron(cmd[p].expr)
    /\ Load(p, add(Entries(file), EntryOf(p)))

\* Variant: entries go by their job.
DelByJob(p) ==
    /\ cmd[p].op = "del" /\ make_cron(cmd[p].expr)
    /\ \E e \in Entries(file) : e.job = cmd[p].job
    /\ Load(p, {e \in Entries(file) : e.job # cmd[p].job})

Del(p) ==
    /\ cmd[p].op = "del" /\ make_cron(cmd[p].expr)
    /\ EntryOf(p) \in Entries(file)
    /\ Load(p, del(Entries(file), EntryOf(p)))

DelRefused(p) ==
    /\ Moves(p, "start", "failed")
    /\ cmd[p].op = "del" /\ there /\ EntryOf(p) \notin Entries(file)
    /\ UNCHANGED <<file, there, cmd, copy, todo, off, shown, daemonVars, histVars>>

Added(p) == IF cmd[p].op = "add" THEN {EntryOf(p)} ELSE {}

\* save opens the table ...
Open(p) ==
    /\ Moves(p, "loaded", "writing")
    /\ file' = <<>>
    /\ todo' = [todo EXCEPT ![p] = InOrder(copy[p])]
    /\ off' = [off EXCEPT ![p] = 0]
    /\ added' = added \cup Added(p)
    /\ UNCHANGED <<there, cmd, copy, shown, daemonVars, table, overlapped, cut>>

\* ... and does not notice when it could not: all is written to nowhere.
OpenFails(p) ==
    /\ Faults
    /\ Moves(p, "loaded", "unopened")
    /\ UNCHANGED <<file, there, cmd, copy, todo, off, shown, daemonVars, histVars>>

\* Variant: job and expression are flushed one after the other.
WriteInTwo(p) ==
    /\ pc[p] = "writing" /\ todo[p] # <<>>
    /\ LET e == Head(todo[p])
           first == e.job \o <<"sp">> \o SubSeq(e.expr, 1, 1)
           rest == SubSeq(e.expr, 2, Len(e.expr)) \o <<"nl">>
           whole == Len(file) > 0 /\ Last(file) # "nl"
           part == IF whole THEN rest ELSE first
       IN  /\ file' = WriteAt(file, off[p], part)
           /\ off' = [off EXCEPT ![p] = @ + Len(part)]
           /\ todo' = IF whole THEN [todo EXCEPT ![p] = Tail(@)] ELSE todo
    /\ UNCHANGED <<there, cmd, pc, copy, shown, daemonVars, histVars>>

WriteLine(p) ==
    /\ pc[p] = "writing" /\ todo[p] # <<>>
    /\ file' = WriteAt(file, off[p], Line(Head(todo[p])))
    /\ off' = [off EXCEPT ![p] = @ + Len(Line(Head(todo[p])))]
    /\ todo' = [todo EXCEPT ![p] = Tail(@)]
    /\ UNCHANGED <<there, cmd, pc, copy, shown, daemonVars, histVars>>

\* Variant: notify_daemon makes the condition anew.
NotifyAnew(p) ==
    /\ \/ /\ pc[p] = "writing" /\ todo[p] = <<>>
          /\ table' = IF cmd[p].op = "add" THEN add(table, EntryOf(p)) ELSE del(table, EntryOf(p))
       \/ pc[p] = "unopened" /\ UNCHANGED table
    /\ pc' = [pc EXCEPT ![p] = "ok"]
    /\ cv' = Stray
    /\ UNCHANGED <<file, there, cmd, copy, todo, off, shown, daemon, timers, mutex,
                   added, overlapped, cut>>

\* The run has saved.  notify_daemon opens the condition, or makes it.
Notify(p) ==
    /\ \/ /\ pc[p] = "writing" /\ todo[p] = <<>>
          /\ table' = IF cmd[p].op = "add" THEN add(table, EntryOf(p)) ELSE del(table, EntryOf(p))
       \/ pc[p] = "unopened" /\ UNCHANGED table
    /\ pc' = [pc EXCEPT ![p] = "ok"]
    /\ cv' = IF cv = Nobody THEN Stray ELSE cv
    /\ UNCHANGED <<file, there, cmd, copy, todo, off, shown, daemon, timers, mutex,
                   added, overlapped, cut>>

Kill(p) ==
    /\ Kills
    /\ Saving(p)
    /\ pc' = [pc EXCEPT ![p] = "killed"]
    /\ cut' = (cut \/ pc[p] = "writing")
    /\ UNCHANGED <<file, there, cmd, copy, todo, off, shown, daemonVars, table, added, overlapped>>

Cli(p) ==
    \/ ExprRefused(p) \/ MaskRefused(p) \/ LoadRefused(p) \/ List(p) \/ Add(p) \/ Del(p) \/ DelRefused(p)
    \/ Open(p) \/ OpenFails(p) \/ WriteLine(p) \/ Notify(p) \/ Kill(p)

-----------------------------------------------------------------------------
(* The daemons                                                             *)

Becomes(d, from, to) == daemon[d] = from /\ daemon' = [daemon EXCEPT ![d] = to]

\* main removes the two names, whoever uses them ...
RemoveCv(d) ==
    /\ Becomes(d, "off", "cv removed")
    /\ cv' = Nobody
    /\ UNCHANGED <<cliVars, timers, mutex, histVars>>

RemoveMutex(d) ==
    /\ Becomes(d, "cv removed", "removed")
    /\ mutex' = Nobody
    /\ UNCHANGED <<cliVars, timers, cv, histVars>>

\* ... and makes them anew, which throws when they are there again.
MakeCv(d) ==
    /\ \/ cv = Nobody /\ Becomes(d, "removed", "cv made") /\ cv' = d
       \/ cv # Nobody /\ Becomes(d, "removed", "ended") /\ UNCHANGED cv
    /\ UNCHANGED <<cliVars, timers, mutex, histVars>>

MakeMutex(d) ==
    /\ \/ mutex = Nobody /\ Becomes(d, "cv made", "up") /\ mutex' = d
       \/ mutex # Nobody /\ Becomes(d, "cv made", "ended") /\ UNCHANGED mutex
    /\ UNCHANGED <<cliVars, timers, cv, histVars>>

\* update starts a timer for each entry that has none.  make_cron throws on a
\* text that is no expression, out of the io_context and of main.
Update(d) ==
    /\ daemon[d] = "up" /\ there
    /\ IF \A e \in Entries(file) \ timers[d] : make_cron(e.expr)
       THEN timers' = [timers EXCEPT ![d] = Entries(file)] /\ UNCHANGED daemon
       ELSE UNCHANGED timers /\ Becomes(d, "up", "thrown")
    /\ UNCHANGED <<cliVars, cv, mutex, histVars>>

\* A signal, or a kill.
End(d) ==
    /\ Kills
    /\ Becomes(d, "up", "ended")
    /\ UNCHANGED <<cliVars, timers, cv, mutex, histVars>>

Daemon(d) ==
    \/ RemoveCv(d) \/ RemoveMutex(d) \/ MakeCv(d) \/ MakeMutex(d) \/ Update(d) \/ End(d)

Next == (\E p \in Clients : Cli(p)) \/ (\E d \in Daemons : Daemon(d))

Spec == Init /\ [][Next]_vars

-----------------------------------------------------------------------------
(* Properties                                                              *)

\* An entry whose line is read as one, and one that comes back as it went in.
OneLine(e) ==
    /\ e.job # <<>> /\ e.job[1] # "sp"
    /\ e.expr # <<>> /\ "nl" \notin Range(e.expr)
    /\ "sp" \in Range(e.job) => "nl" \notin Range(e.job)
Plain(e) == OneLine(e) /\ "sp" \notin Range(e.job)
AllPlain == \A e \in added : Plain(e)

Quiet == \A p \in Clients : pc[p] # "writing"

\* Runs one after the other, of plain entries, none killed half way: the
\* table is what their additions and deletions make of it, in whatever order
\* the entries sort and however long their lines are (cron_list::save,
\* load_cron_list).
Durable == ~overlapped /\ ~cut /\ AllPlain /\ Quiet => Entries(file) = table

\* Whenever a run is interrupted, by a reader or by a kill: as long as runs do
\* not overlap, what the table holds are whole entries, each of them one that
\* was saved (the flush of each line in cron_list::save).
NothingTorn == ~overlapped /\ AllPlain => Entries(file) \subseteq added

\* No expression that cis_cron is given ends a daemon, nor does a table that
\* is being rewritten; only runs that overlap, and a job name with a space, do
\* (make_cron in add and in update).
DaemonSurvives == ~overlapped /\ AllPlain => \A d \in Daemons : daemon[d] # "thrown"

\* The table, or while it is rewritten what it will be.
Content == IF Quiet THEN Entries(file) ELSE UNION {copy[p] : p \in {q \in Clients : pc[q] = "writing"}}
Poisoned(t) == \E e \in t : ~make_cron(e.expr)

\* An entry that ends the daemon cannot be deleted again: neither --add nor
\* --del gets rid of it, because --del wants an expression that make_cron
\* accepts (del).  The exception, a job name that is empty or begins with a
\* space, ends the table where it sorts, at its beginning.
PoisonStays ==
    [][~overlapped' /\ ~cut' /\ (\A e \in added' : OneLine(e)) /\ Poisoned(Content)
            => Poisoned(Content')]_vars

\* A daemon that came up hears notifications as long as no other daemon is
\* started, however cis_cron runs fall into its start (main's remove and
\* create_only, notify_daemon's open_or_create).
OnlyStartsDeafen ==
    \A d \in Daemons :
        daemon[d] = "up" /\ (\A c \in Daemons \ {d} : daemon[c] = "off") => cv = d

\* devguide.md:7: "Every executable should return exitcode zero in case of
\* success and non-zero in other cases."  With one run alone: zero from --add
\* means that the entry is in the table.
ZeroMeansAdded ==
    \A p \in Clients : cmd[p].op = "add" /\ pc[p] = "ok" => EntryOf(p) \in Entries(file)
=============================================================================
