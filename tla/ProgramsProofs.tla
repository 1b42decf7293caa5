---------------------------- MODULE ProgramsProofs ----------------------------
(***************************************************************************)
(* Proofs about Programs for any number of processes, started in any way,  *)
(* any number of connections and kills.                                    *)
(*                                                                         *)
(* IInv is of each process alone: before the authentication nothing is     *)
(* recorded; after it, if the webui's logger is set, the record of the     *)
(* authentication is in the queue or is the next to be written; and while  *)
(* the thread is there, so is a share of its object.                       *)
(*                                                                         *)
(* RInv adds where a process stands when it has which logs, session and    *)
(* ending, and what that says of its records: written, or still to be      *)
(* written.  FInv adds what the records of a session's processes are to    *)
(* one another: its opening comes before them, its closing after.          *)
(*                                                                         *)
(* Every step is of one process and touches no queue but its own, so IInv  *)
(* is proved action by action.  For the others each action is first shown  *)
(* to be one of three: a Move, which starts a call of a logger and writes  *)
(* nothing, by the table of the moves; the Writes of one record; or Idle.  *)
(* What is noted, told already or due in the call a process is in, changes *)
(* with a Move only, and what is told with a Writes only.                  *)
(***************************************************************************)
EXTENDS Programs, TLAPS, FiniteSetTheorems

Kinds == {"cis", "session", "queue", "combined"}

\* Where a main is before its authentication, and of these, where it has no
\* logger yet; and where it may record something.
Unlogged == {"off", "context", "session", "connect", "run", "running"}
Early == Unlogged \cup {"cis log", "auth"}
Recorders == {"session log", "offline log", "locals", "close"} \cup Working

Queue(p) == log[<<"queue", p>>]
AuthDue(p) == todo[p] = <<<<"queue", "auth">>>>

\* The queue of p begins with the authentication, if with anything, and what p
\* is about to write leaves it so.
Authenticated(p) ==
    /\ Queue(p) \in Seq(Procs \X Acts) /\ todo[p] \in Seq(Kinds \X Acts)
    /\ \A i \in DOMAIN Queue(p) : Queue(p)[i][2] = "auth" <=> i = 1
    /\ \/ AuthDue(p) /\ Queue(p) = <<>>
       \/ \A i \in DOMAIN todo[p] : /\ todo[p][i][2] # "auth"
                                    /\ todo[p][i][1] = "queue" => Queue(p) # <<>>
    /\ pc[p] \in Early => todo[p] = <<>> /\ Queue(p) = <<>>
    /\ pc[p] \in Recorders /\ "queue" \in loggers[p] => AuthDue(p) \/ Queue(p) # <<>>

\* Only a program that opens a session has the webui's logger, and with it a
\* share of the connection.
Connected(p) ==
    /\ pc[p] \in Unlogged => "queue" \notin loggers[p]
    /\ pc[p] \in {"session", "connect", "run", "running"} => Opens(p)
    /\ "queue" \in loggers[p] => Opens(p)
    /\ pc[p] \in {"cis log", "auth"} /\ "queue" \in loggers[p] => refs[p] # {}
    /\ pc[p] \in {"run", "running"} => refs[p] # {}

Shared(p) ==
    /\ pc[p] = "off" => thread[p] = "none"
    /\ Lives(p) /\ pc[p] \notin {"destroy", "join"} /\ refs[p] = {} =>
           thread[p] \in {"none", "ended"}

Functional ==
    /\ pc = [p \in Procs |-> pc[p]] /\ todo = [p \in Procs |-> todo[p]]
    /\ loggers = [p \in Procs |-> loggers[p]] /\ refs = [p \in Procs |-> refs[p]]
    /\ thread = [p \in Procs |-> thread[p]] /\ log = [l \in Logs |-> log[l]]

Own(p) == Authenticated(p) /\ Connected(p) /\ Shared(p)

IInv == Functional /\ \A p \in Procs : Own(p)

-----------------------------------------------------------------------------
(* Who has which logs, where and with which ending.                        *)

Job == {"params", "build", "execute", "values", "name", "print", "spawn"}
Equipped(p) == {"cis", "session", "combined"} \subseteq loggers[p]

\* A main makes its logs one after the other.
Phase(p) ==
    /\ "cis" \in loggers[p] => pc[p] \notin Unlogged \cup {"cis log"}
    /\ "session" \in loggers[p] =>
           "cis" \in loggers[p] /\ Opens(p) /\ pc[p] \notin Early \cup {"session log"}
    /\ "combined" \in loggers[p] =>
           "session" \in loggers[p] /\ pc[p] \notin Early \cup {"session log", "offline log"}
    /\ pc[p] \in {"auth", "session log"} => Opens(p) /\ "cis" \in loggers[p]
    /\ pc[p] = "offline log" => "session" \in loggers[p]
    /\ pc[p] \in Working => "cis" \in loggers[p] /\ (Opens(p) => Equipped(p))
    /\ pc[p] \in Job => start[p].program = "startjob"
    /\ pc[p] \in {"serve", "stop"} => ~Opens(p)
    /\ pc[p] = "session" => Opens(p)
    /\ "logger" \in refs[p] => "queue" \in loggers[p]

\* It ends with a code, and says why on a stream, unless it is cis_cron --daemon.
StartsDaemon(p) == start[p].program = "cis_cron" /\ start[p].words = 2
Codes(p) ==
    /\ code[p] # "none" => pc[p] \in Leaving \cup {"exited", "killed"}
    /\ pc[p] \in Leaving \cup {"exited"} => code[p] \in {"zero", "one"}
    /\ code[p] = "one" => told[p] # {} \/ StartsDaemon(p)
    /\ code[p] = "one" /\ Equipped(p) =>
           told[p] = {"stderr"} \/ (start[p].program = "startjob" /\ told[p] = {"stdout"})
    /\ code[p] = "one" /\ "cis" \in loggers[p] /\ ~Opens(p) =>
           told[p] = {"stdout"} \/ (StartsDaemon(p) /\ told[p] = {})
    /\ pc[p] = "crashed" => told[p] = {"stderr"}

\* Its session is its own or Root's.
Member(p) ==
    \/ mine[p] /\ ses[p] = p
    \/ ~mine[p] /\ ses[p] = Root /\ start[p].how # "alone"
Belongs(p) ==
    /\ ses[p] = p \/ (ses[p] = Root /\ start[p].how # "alone")
    /\ pc[p] \in {"off", "context", "session"} \/ ~Opens(p) => ses[p] = p /\ ~mine[p]
    /\ Opens(p) /\ pc[p] \in Early \cup {"session log", "offline log"} =>
           pc[p] \in {"off", "context", "session"} \/ Member(p)
    /\ Equipped(p) => Member(p)
    /\ p \in onClose => /\ mine[p] /\ Equipped(p) /\ start[p].program = "startjob"
                        /\ pc[p] \notin Early \cup {"session log", "offline log", "main"}
    /\ pc[p] \in Job /\ mine[p] => p \in onClose

Typed ==
    /\ ses = [p \in Procs |-> ses[p]] /\ mine = [p \in Procs |-> mine[p]]
    /\ code = [p \in Procs |-> code[p]] /\ told = [p \in Procs |-> told[p]]
    /\ onClose \subseteq Procs /\ start \in [Procs -> Start]
    /\ start[Root].program = "startjob" /\ start[Root].how = "alone"
    /\ \A p \in Procs : ses[p] \in Procs
    /\ \A l \in Logs : log[l] \in Seq(Procs \X Acts)

Local(p) == Phase(p) /\ Codes(p) /\ Belongs(p)

-----------------------------------------------------------------------------
(* The moves of a main between two calls of a logger: what each starts to   *)
(* record, s, and how it leaves the variables of its process.               *)

Keeps(p) == ses'[p] = ses[p] /\ mine'[p] = mine[p] /\ loggers'[p] = loggers[p]
SameEnd(p) == code'[p] = code[p] /\ told'[p] = told[p]
Ends(p, c, said) == code'[p] = c /\ told'[p] = said
From(p, from, to) == pc[p] = from /\ pc'[p] = to
StartJobOf(p) == start[p].program = "startjob"

\* When Root's script has ended, so have all that hold its output.
Gone == \A q \in Procs : start[q].how = "attached" => pc[q] \in Over \cup {"off"}

Passes(p, s) ==
    /\ s = <<>> /\ Keeps(p) /\ SameEnd(p) /\ onClose' = onClose
    /\ \/ From(p, "context", "session") /\ Opens(p)
       \/ From(p, "context", "cis log") /\ ~Opens(p)
       \/ From(p, "connect", "cis log")
       \/ From(p, "connect", "run")
       \/ From(p, "run", "running")
       \/ From(p, "main", "params") /\ ~mine[p] /\ StartJobOf(p)
       \/ From(p, "params", "build")
       \/ From(p, "values", "name")
       \/ From(p, "name", "print")
       \/ From(p, "print", "spawn")
       \/ From(p, "main", "serve") /\ ~Opens(p)
       \/ From(p, "serve", "stop")
       \/ From(p, "locals", "destroy")
       \/ From(p, "locals", "close")
       \/ From(p, "close", "statics") /\ p \notin onClose
       \/ From(p, "statics", "exited")
       \/ From(p, "statics", "destroy") /\ "logger" \in refs[p]
       \/ From(p, "destroy", "join")
       \/ From(p, "join", "exited")
       \/ From(p, "join", "close") /\ "queue" \notin loggers[p]

Invokes(p, s) ==
    /\ s = <<>> /\ SameEnd(p) /\ loggers'[p] = loggers[p] /\ onClose' = onClose
    /\ From(p, "session", "connect")
    /\ \/ mine'[p] = TRUE /\ ses'[p] = p
       \/ mine'[p] = FALSE /\ ses'[p] = ses[Root] /\ start[p].how # "alone"

Equips(p, s) ==
    /\ s = <<>> /\ SameEnd(p) /\ ses'[p] = ses[p] /\ mine'[p] = mine[p] /\ onClose' = onClose
    /\ \/ From(p, "running", "cis log") /\ loggers'[p] \in {loggers[p], loggers[p] \cup {"queue"}}
       \/ From(p, "cis log", "auth") /\ Opens(p) /\ loggers'[p] = loggers[p] \cup {"cis"}
       \/ From(p, "cis log", "main") /\ ~Opens(p) /\ loggers'[p] = loggers[p] \cup {"cis"}
       \/ From(p, "session log", "offline log") /\ loggers'[p] = loggers[p] \cup {"session"}
       \/ From(p, "offline log", "main") /\ loggers'[p] = loggers[p] \cup {"combined"}

Authenticates(p, s) ==
    /\ s = <<>> \/ s = <<<<"queue", "auth">>>>
    /\ Keeps(p) /\ SameEnd(p) /\ onClose' = onClose /\ From(p, "auth", "session log")

\* To the end, with nothing to record.
Gives(p, s) ==
    /\ s = <<>> /\ Keeps(p) /\ onClose' = onClose
    /\ \E c, said : /\ Ends(p, c, said) /\ c \in {"zero", "one"}
                    /\ \/ From(p, "context", "locals") /\ said # {}
                       \/ From(p, "params", "locals") /\ said = {"stdout"}
                       \/ From(p, "spawn", "locals") /\ c = "zero"
                       \/ /\ From(p, "main", "locals") /\ ~Opens(p)
                          /\ c = "one" => said = {"stdout"} \/ (StartsDaemon(p) /\ said = {})
                       \/ From(p, "stop", "locals") /\ c = "zero"
Quits(p, s) ==
    /\ s = <<>> /\ Keeps(p) /\ onClose' = onClose /\ Ends(p, "one", {"stderr"})
    /\ pc[p] \in {"cis log", "session log", "offline log"} /\ pc'[p] = "statics"
Crashes(p, s) ==
    /\ s = <<>> /\ Keeps(p) /\ onClose' = onClose /\ Ends(p, code[p], {"stderr"})
    /\ pc[p] \in Working /\ pc'[p] = "crashed"

\* To the end, with an error to record.
Reports(p, s) ==
    /\ s = tee_log(p, "error") /\ Keeps(p) /\ onClose' = onClose /\ Ends(p, "one", {"stderr"})
    /\ \/ From(p, "main", "locals") /\ Opens(p) /\ ~StartJobOf(p)
       \/ From(p, "build", "locals")
       \/ From(p, "values", "locals")
       \/ From(p, "name", "locals")
       \/ From(p, "execute", "locals") /\ (p = Root => Gone)
Complains(p, s) ==
    /\ s = cis_log(p, "error") /\ Keeps(p) /\ onClose' = onClose /\ Ends(p, "one", {"stdout"})
    /\ From(p, "main", "locals") /\ start[p].program = "cis_cron" /\ start[p].words # 2

\* On its way, with a record.
Tells(p, s) ==
    /\ Keeps(p) /\ SameEnd(p) /\ onClose' = onClose
    /\ \/ s = session_log(p, "start_job") /\ From(p, "build", "execute")
       \/ /\ s = session_log(p, "finish_job") /\ (p = Root => Gone)
          /\ From(p, "execute", "print") \/ From(p, "execute", "values")
       \/ s = webui_log(p, "done") \o webui_log(p, "done") /\ From(p, "print", "spawn")
       \/ s = cis_log(p, "close") /\ From(p, "close", "statics") /\ p \in onClose
       \/ s = cis_log(p, "unstarted") /\ From(p, "serve", "serve")
Calls(p, s) ==
    /\ s = session_log(p, "called") /\ Keeps(p) /\ onClose' = onClose /\ Ends(p, "zero", {})
    /\ From(p, "main", "locals") /\ Opens(p) /\ ~mine[p]
OpensIt(p, s) ==
    /\ s = cis_log(p, "open") \o webui_log(p, "id") /\ mine[p] /\ StartJobOf(p)
    /\ Keeps(p) /\ SameEnd(p) /\ onClose' = onClose \cup {p} /\ From(p, "main", "params")

Moves(p, s) ==
    \/ Passes(p, s) \/ Invokes(p, s) \/ Equips(p, s) \/ Authenticates(p, s)
    \/ Gives(p, s) \/ Quits(p, s) \/ Crashes(p, s)
    \/ Reports(p, s) \/ Complains(p, s) \/ Tells(p, s) \/ Calls(p, s) \/ OpensIt(p, s)

\* What a step of p leaves to the others.
Apart(p) ==
    /\ start' = start /\ Functional' /\ Typed'
    /\ \A r \in Procs \ {p} :
           /\ pc'[r] = pc[r] /\ ses'[r] = ses[r] /\ mine'[r] = mine[r] /\ code'[r] = code[r]
           /\ told'[r] = told[r] /\ loggers'[r] = loggers[r] /\ todo'[r] = todo[r]
           /\ refs'[r] = refs[r] /\ (r \in onClose' <=> r \in onClose)

Move(p, s) ==
    /\ Apart(p) /\ log' = log /\ todo[p] = <<>> /\ todo'[p] = s /\ Moves(p, s)
    /\ "logger" \in refs'[p] => "logger" \in refs[p] \/ "queue" \in loggers'[p]

-----------------------------------------------------------------------------
(* What a process has told a log, and what it is about to tell it.         *)

Told(p, kind, act) ==
    \E i \in DOMAIN log[Dest(p, kind)] : log[Dest(p, kind)][i] = <<p, act>>
Due(p, kind, act) == \E i \in DOMAIN todo[p] : todo[p][i] = <<kind, act>>
Noted(p, kind, act) == Told(p, kind, act) \/ Due(p, kind, act)

\* Until it has all its logs it has told them nothing.
Fresh == Early \cup {"session log", "offline log", "main"}
NoRecord(p) == \A l \in Logs : l[1] # "queue" => \A i \in DOMAIN log[l] : log[l][i][1] # p
Silent(p) == pc[p] \in Fresh => NoRecord(p) /\ (todo[p] = <<>> \/ AuthDue(p))

In(s, x) == \E i \in DOMAIN s : s[i] = x

\* A step that records nothing and is not one of a main's.
Idle(p) ==
    /\ UNCHANGED <<start, ses, mine, code, told, loggers, onClose, todo, log, refs>>
    /\ Functional' /\ Typed' /\ \A r \in Procs \ {p} : pc'[r] = pc[r]
    /\ \/ pc'[p] = pc[p]
       \/ pc'[p] = "killed" /\ pc[p] \notin Over \cup {"off"}
       \/ pc'[p] = "context" /\ pc[p] = "off" /\ (start[p].how # "alone" => ScriptRuns)

\* A main writes the next record of a call to the log it is for.
Writes(p, w) ==
    /\ UNCHANGED <<start, ses, mine, code, told, loggers, onClose, refs, pc>>
    /\ Functional' /\ Typed' /\ \A r \in Procs \ {p} : todo'[r] = todo[r]
    /\ pc[p] \notin Over /\ todo[p] # <<>> /\ todo'[p] = Tail(todo[p])
    /\ w = todo[p][1] /\ w \in Kinds \X Acts
    /\ \A l \in Logs : log'[l] = IF l = Dest(p, w[1]) THEN Append(log[l], <<p, w[2]>>) ELSE log[l]

-----------------------------------------------------------------------------
(* What is recorded where.                                                  *)

\* Every log has the error of a process that failed on stderr with its logs made.
\* Of the others only cis_cron has one, in the cis log.
Failed(p) == code[p] = "one" /\ told[p] = {"stderr"}
FailedCron(p) ==
    /\ start[p].program = "cis_cron" /\ start[p].words # 2
    /\ code[p] = "one" /\ told[p] = {"stdout"}
Erred(p) ==
    \A kind \in {"cis", "session", "combined"} :
        IF Equipped(p) THEN Noted(p, kind, "error") <=> Failed(p)
        ELSE Noted(p, kind, "error") => kind = "cis" /\ FailedCron(p)

\* A startjob that has begun its build fails on stderr.
Before == Fresh \cup {"params", "build"}
Begun(p) == Noted(p, "session", "start_job") =>
                pc[p] \notin Before /\ (code[p] = "one" => told[p] = {"stderr"})

\* The combined log has all that the other two have.
Teed(p) == Opens(p) => \A kind \in {"cis", "session"}, act \in Acts :
                           Noted(p, kind, act) => Noted(p, "combined", act)
Noting(p) == Erred(p) /\ Begun(p) /\ Teed(p) /\ (pc[p] = "exited" => todo[p] = <<>>)

\* In what is left of a call each record for the queue is followed by the same
\* for the combined log.
Balanced(t) ==
    \A i \in DOMAIN t :
        /\ t[i][1] = "queue" => i + 1 \in DOMAIN t /\ t[i + 1] = <<"combined", t[i][2]>>
        /\ t[i][1] = "combined" => i - 1 \in DOMAIN t /\ t[i - 1][1] = "queue"

Combined(p) == log[Dest(p, "combined")]
Match(p) == \A i \in Records(p) :
                InQueue(p, i) \in DOMAIN Queue(p) /\ Queue(p)[InQueue(p, i)] = Combined(p)[i]

\* The queue and the combined log agree, and p is between two calls or in one
\* at the record it has told the queue only, or before all.
Twin(p) ==
    /\ \A i \in DOMAIN Queue(p) : Queue(p)[i][1] = p
    /\ "queue" \in loggers[p] =>
           /\ Match(p)
           /\ \/ Queue(p) = <<>> /\ Records(p) = {} /\ (todo[p] = <<>> \/ AuthDue(p))
              \/ Balanced(todo[p]) /\ Len(Queue(p)) = Cardinality(Records(p)) + 1
              \/ /\ todo[p] # <<>> /\ Balanced(Tail(todo[p]))
                 /\ Len(Queue(p)) = Cardinality(Records(p)) + 2
                 /\ todo[p][1] = <<"combined", Queue(p)[Len(Queue(p))][2]>>

\* Of each process, with its own records.
RInv == Typed /\ \A p \in Procs : Local(p) /\ Silent(p) /\ Noting(p) /\ Twin(p)

-----------------------------------------------------------------------------
(* How a session's combined log begins and ends.                           *)

Comb(s) == log[<<"combined", s>>]
Opened(s) == Comb(s) # <<>> /\ Comb(s)[1] = <<s, "open">>

\* p is about to open its session, before all else it tells the combined log.
Opening(p) ==
    /\ ses[p] = p /\ Comb(p) = <<>> /\ Due(p, "combined", "open")
    /\ \A j \in DOMAIN todo[p] : todo[p][j][1] = "combined" =>
           \/ todo[p][j][2] = "open"
           \/ \E k \in DOMAIN todo[p] : k < j /\ todo[p][k] = <<"combined", "open">>

\* What p is about to tell the combined log of an unopened session is an error.
Covered(p) ==
    \/ Opening(p)
    \/ \A i \in DOMAIN todo[p] : todo[p][i][1] = "combined" =>
           Opened(ses[p]) \/ (ses[p] = p /\ todo[p][i][2] = "error")

First(s) == \A i \in DOMAIN Comb(s) : Comb(s)[i] = <<s, "error">> \/ Opened(s)
Authors(s) == \A i \in DOMAIN Comb(s) : ses[Comb(s)[i][1]] = s

Framed ==
    /\ \A s \in Procs : First(s) /\ Authors(s) /\ Covered(s)
    /\ \A s \in onClose : Opened(s) \/ Opening(s)
    /\ \A p \in Procs : pc[p] # "off" /\ start[p].how # "alone" => Opened(Root)
    /\ Noted(Root, "session", "start_job") => Opened(Root)

After == {"values", "name", "print", "spawn"} \cup Leaving \cup {"exited"}
Closing == {"statics", "destroy", "join", "exited", "killed"}

\* The closing is a process' last record.
Closed(p) ==
    /\ Noted(p, "combined", "close") =>
           /\ p \in onClose /\ pc[p] \in Closing
           /\ pc[p] \in {"destroy", "join"} => "queue" \in loggers[p]
    /\ \A i \in DOMAIN todo[p] : todo[p][i] = <<"combined", "close">> => i = Len(todo[p])
    /\ Told(p, "combined", "close") => todo[p] = <<>>

\* Root waits for those that hold its script's output, and closes its session
\* when they have gone and cannot come.
Waited ==
    /\ pc[Root] \in Before => /\ \A q \in Procs : start[q].how # "alone" => pc[q] = "off"
                              /\ ~Noted(Root, "session", "start_job")
    /\ pc[Root] \in After => Gone
    /\ pc[Root] \in After /\ Noted(Root, "session", "start_job") =>
           Noted(Root, "session", "finish_job") \/ Noted(Root, "session", "error")
    /\ Noted(Root, "combined", "close") =>
           /\ Gone
           /\ Noted(Root, "session", "start_job") =>
                  Told(Root, "session", "finish_job") \/ Told(Root, "session", "error")

LastIn(s) ==
    /\ \A i \in DOMAIN Comb(s) : Comb(s)[i][2] = "close" => Comb(s)[i][1] = s
    /\ \A i, j \in DOMAIN Comb(s) :
           i < j /\ Comb(s)[i][2] = "close" => start[Comb(s)[j][1]].how = "detached"

FInv == Framed /\ Waited /\ \A s \in Procs : Closed(s) /\ LastIn(s)

-----------------------------------------------------------------------------
(* Records.                                                                *)

\* Records other than the authentication, to loggers that p has.
Plain(p, s) ==
    /\ s \in Seq(Kinds \X Acts)
    /\ \A i \in DOMAIN s : s[i][2] # "auth" /\ (s[i][1] = "queue" => "queue" \in loggers[p])

\* Plain records in a row,
LEMMA ConcatPlain ==
    ASSUME NEW p, NEW s, NEW t, Plain(p, s), Plain(p, t) PROVE Plain(p, s \o t)
<1>1. s \in Seq(Kinds \X Acts) /\ t \in Seq(Kinds \X Acts)
  BY DEF Plain
<1>2. /\ s \o t \in Seq(Kinds \X Acts) /\ DOMAIN (s \o t) = 1 .. Len(s) + Len(t)
      /\ Len(s) \in Nat /\ Len(t) \in Nat /\ DOMAIN s = 1 .. Len(s) /\ DOMAIN t = 1 .. Len(t)
      /\ \A i \in 1 .. Len(s) + Len(t) :
             (s \o t)[i] = IF i <= Len(s) THEN s[i] ELSE t[i - Len(s)]
  <2> HIDE DEF Kinds, Acts
  <2> QED BY <1>1
<1> DEFINE u == s \o t
<1>3. /\ u \in Seq(Kinds \X Acts) /\ DOMAIN u = 1 .. Len(s) + Len(t)
      /\ \A i \in 1 .. Len(s) + Len(t) : u[i] = IF i <= Len(s) THEN s[i] ELSE t[i - Len(s)]
  BY <1>2
<1> HIDE DEF u
<1>4. ASSUME NEW i \in DOMAIN u
      PROVE  u[i][2] # "auth" /\ (u[i][1] = "queue" => "queue" \in loggers[p])
  <2>1. CASE i <= Len(s)
    <3>1. i \in DOMAIN s /\ u[i] = s[i] BY <1>2, <1>3, <1>4, <2>1
    <3> QED BY <3>1 DEF Plain
  <2>2. CASE ~(i <= Len(s))
    <3>1. i - Len(s) \in DOMAIN t /\ u[i] = t[i - Len(s)] BY <1>2, <1>3, <1>4, <2>2
    <3> QED BY <3>1 DEF Plain
  <2> QED BY <2>1, <2>2
<1> QED BY <1>3, <1>4 DEF Plain, u

\* none,
LEMMA EmptyPlain == \A p : Plain(p, <<>>)
<1>1. <<>> \in Seq(Kinds \X Acts) /\ DOMAIN <<>> = {}
  <2> HIDE DEF Kinds, Acts
  <2> QED OBVIOUS
<1> QED BY <1>1 DEF Plain

\* or one are plain records.
LEMMA ToPlain ==
    ASSUME NEW p, NEW kind \in Kinds, NEW act \in Acts, act # "auth"
    PROVE  Plain(p, To(p, kind, act))
<1>1. CASE kind \in loggers[p]
  <2> DEFINE s == <<<<kind, act>>>>
  <2>1. s \in Seq(Kinds \X Acts) /\ DOMAIN s = {1} /\ s[1] = <<kind, act>>
    <3> HIDE DEF Kinds, Acts
    <3> QED OBVIOUS
  <2>2. To(p, kind, act) = s BY <1>1 DEF To
  <2> HIDE DEF s
  <2> QED BY <1>1, <2>1, <2>2 DEF Plain
<1>2. CASE kind \notin loggers[p]
  BY <1>2, EmptyPlain DEF To
<1> QED BY <1>1, <1>2

\* The four functions that record.
LEMMA LogsPlain ==
    ASSUME NEW p, NEW act \in Acts, act # "auth"
    PROVE  /\ Plain(p, webui_log(p, act)) /\ Plain(p, cis_log(p, act))
           /\ Plain(p, session_log(p, act)) /\ Plain(p, tee_log(p, act))
<1>1. \A kind \in Kinds : Plain(p, To(p, kind, act))
  BY ToPlain
<1>2. Plain(p, webui_log(p, act))
  BY <1>1, ConcatPlain DEF webui_log, Kinds
<1>3. Plain(p, cis_log(p, act))
  BY <1>1, <1>2, ConcatPlain, EmptyPlain DEF cis_log, Kinds
<1>4. Plain(p, session_log(p, act))
  BY <1>1, <1>2, ConcatPlain, EmptyPlain DEF session_log, Kinds
<1>5. Plain(p, To(p, "cis", act) \o To(p, "session", act))
  BY <1>1, ConcatPlain DEF Kinds
<1>6. Plain(p, tee_log(p, act))
  BY <1>2, <1>5, ConcatPlain DEF tee_log
<1> QED BY <1>2, <1>3, <1>4, <1>6
-----------------------------------------------------------------------------
(* What a step of p leaves to the others.                                  *)

Frame(p) ==
    /\ start' = start /\ Functional'
    /\ \A r \in Procs \ {p} :
           /\ pc'[r] = pc[r] /\ todo'[r] = todo[r] /\ loggers'[r] = loggers[r]
           /\ refs'[r] = refs[r] /\ thread'[r] = thread[r]
           /\ log'[<<"queue", r>>] = log[<<"queue", r>>]

\* A step that frames the other processes has its own to look after only.
LEMMA OwnEnough ==
    ASSUME IInv, NEW p \in Procs, Frame(p), Own(p)' PROVE IInv'
<1>1. ASSUME NEW r \in Procs \ {p} PROVE Own(r)'
  <2>1. Own(r) BY DEF IInv
  <2>2. /\ pc'[r] = pc[r] /\ todo'[r] = todo[r] /\ loggers'[r] = loggers[r]
        /\ refs'[r] = refs[r] /\ thread'[r] = thread[r] /\ Queue(r)' = Queue(r)
        /\ Opens(r)' = Opens(r)
    BY DEF Frame, Queue, Opens
  <2>3. Authenticated(r)' BY <2>1, <2>2 DEF Own, Authenticated, AuthDue
  <2>4. Connected(r)' BY <2>1, <2>2 DEF Own, Connected
  <2>5. Shared(r)' BY <2>1, <2>2 DEF Own, Shared, Lives
  <2> QED BY <2>3, <2>4, <2>5 DEF Own
<1> QED BY <1>1 DEF IInv, Frame

\* A step of main that records nothing itself.
LEMMA StepFrame ==
    ASSUME IInv, NEW p \in Procs, NEW from, NEW to, Step(p, from, to),
           NEW s, NEW l, NEW f, NEW t, UNCHANGED <<start, log>>,
           todo' = todo \/ todo' = [todo EXCEPT ![p] = s],
           loggers' = loggers \/ loggers' = [loggers EXCEPT ![p] = l],
           refs' = refs \/ refs' = [refs EXCEPT ![p] = f],
           thread' = thread \/ thread' = [thread EXCEPT ![p] = t]
    PROVE  Frame(p) /\ pc[p] = from /\ pc'[p] = to /\ todo[p] = <<>>
           /\ (todo' = [todo EXCEPT ![p] = s] => todo'[p] = s)
           /\ (loggers' = [loggers EXCEPT ![p] = l] => loggers'[p] = l)
           /\ (refs' = [refs EXCEPT ![p] = f] => refs'[p] = f)
           /\ (thread' = [thread EXCEPT ![p] = t] => thread'[p] = t)
           /\ Queue(p)' = Queue(p) /\ Opens(p)' = Opens(p)
<1> USE DEF IInv, Functional, Step
<1>1. /\ pc' = [r \in Procs |-> pc'[r]] /\ \A r \in Procs \ {p} : pc'[r] = pc[r]
      /\ pc'[p] = to
  OBVIOUS
<1>2. /\ todo' = [r \in Procs |-> todo'[r]] /\ \A r \in Procs \ {p} : todo'[r] = todo[r]
      /\ (todo' = [todo EXCEPT ![p] = s] => todo'[p] = s)
  OBVIOUS
<1>3. /\ loggers' = [r \in Procs |-> loggers'[r]]
      /\ \A r \in Procs \ {p} : loggers'[r] = loggers[r]
      /\ (loggers' = [loggers EXCEPT ![p] = l] => loggers'[p] = l)
  OBVIOUS
<1>4. /\ refs' = [r \in Procs |-> refs'[r]] /\ \A r \in Procs \ {p} : refs'[r] = refs[r]
      /\ (refs' = [refs EXCEPT ![p] = f] => refs'[p] = f)
  OBVIOUS
<1>5. /\ thread' = [r \in Procs |-> thread'[r]]
      /\ \A r \in Procs \ {p} : thread'[r] = thread[r]
      /\ (thread' = [thread EXCEPT ![p] = t] => thread'[p] = t)
  OBVIOUS
<1>6. log' = [l0 \in Logs |-> log'[l0]]
  OBVIOUS
<1> HIDE DEF IInv, Functional
<1> QED BY <1>1, <1>2, <1>3, <1>4, <1>5, <1>6 DEF Frame, Functional, Queue, Opens

-----------------------------------------------------------------------------
(* Steps that record.                                                      *)

\* From one place after the logs to another, or out.
LEMMA RecordKeeps ==
    ASSUME IInv, NEW p \in Procs, NEW from \in Recorders,
           NEW to \in Recorders \cup Over \cup {"statics"}, NEW s, Plain(p, s),
           Step(p, from, to), Record(p, s), UNCHANGED <<start, loggers, log, refs, thread>>
    PROVE  IInv'
<1>1. /\ Frame(p) /\ pc[p] = from /\ pc'[p] = to /\ todo[p] = <<>> /\ todo'[p] = s
      /\ Queue(p)' = Queue(p) /\ Opens(p)' = Opens(p)
  BY StepFrame DEF Record
<1>2. Own(p) BY DEF IInv
<1>3. /\ from \notin Early \cup Over \cup {"destroy", "join", "off"}
      /\ to \notin Early \cup {"off"}
  BY DEF Recorders, Early, Unlogged, Working, Over
<1>4. Queue(p) # <<>> \/ "queue" \notin loggers[p]
  BY <1>1, <1>2 DEF Own, Authenticated, AuthDue
<1>5. Authenticated(p)'
  BY <1>1, <1>2, <1>3, <1>4 DEF Own, Authenticated, AuthDue, Plain
<1>6. Connected(p)'
  BY <1>1, <1>2, <1>3 DEF Own, Connected, Early, Unlogged
<1>7. Shared(p)'
  BY <1>1, <1>2, <1>3 DEF Own, Shared, Lives
<1> QED BY <1>1, <1>5, <1>6, <1>7, OwnEnough DEF Own

\* From a place of main to its locals, or to another place after the logs.
LEMMA ReturnKeeps ==
    ASSUME IInv, NEW p \in Procs, NEW from \in Recorders, NEW c, NEW said, NEW s,
           Plain(p, s), Return(p, from, c, said, s)
    PROVE  IInv'
BY RecordKeeps DEF Return, Recorders, idVars, webVars

\* The ways out of a place, on to the next, and out of main keep IInv,
LEMMA FailsKeeps ==
    ASSUME IInv, NEW p \in Procs, NEW from \in Recorders, Fails(p, from) PROVE IInv'
<1>1. Plain(p, tee_log(p, "error"))
  BY LogsPlain DEF Acts
<1> QED BY <1>1, ReturnKeeps DEF Fails

LEMMA GoesKeeps ==
    ASSUME IInv, NEW p \in Procs, NEW from \in Recorders, NEW to \in Recorders \cup {"statics"},
           NEW s, Plain(p, s), Goes(p, from, to, s)
    PROVE  IInv'
BY RecordKeeps DEF Goes, idVars, webVars

LEMMA ThrowsKeeps ==
    ASSUME IInv, NEW p \in Procs, NEW from \in Recorders, Throws(p, from) PROVE IInv'
<1>1. todo[p] = <<>> /\ todo' = [todo EXCEPT ![p] = todo[p]]
  BY DEF Throws, Step, IInv, Functional
<1> QED BY <1>1, RecordKeeps, EmptyPlain DEF Throws, Record, Over, idVars, webVars

\* and so do the actions made of them, group by group.
LEMMA StartJobKeeps ==
    ASSUME IInv, NEW p \in Procs, StartJob(p) PROVE IInv'
<1> USE DEF Recorders, Working
<1>1. CASE OpenSession(p)
  <2>1. Plain(p, cis_log(p, "open") \o webui_log(p, "id"))
    BY LogsPlain, ConcatPlain DEF Acts
  <2> QED BY <1>1, <2>1, EmptyPlain, RecordKeeps DEF OpenSession, idVars, webVars
<1>2. CASE NoJob(p)
  BY <1>2, EmptyPlain, ReturnKeeps DEF NoJob
<1>3. CASE LoadJob(p)
  BY <1>3, EmptyPlain, GoesKeeps, ThrowsKeeps DEF LoadJob
<1>4. CASE PrepareBuild(p)
  <2>1. Plain(p, session_log(p, "start_job"))
    BY LogsPlain DEF Acts
  <2> QED BY <1>4, <2>1, FailsKeeps, ThrowsKeeps, GoesKeeps DEF PrepareBuild
<1>5. CASE Execute(p)
  <2>1. Plain(p, session_log(p, "finish_job"))
    BY LogsPlain DEF Acts
  <2> QED BY <1>5, <2>1, FailsKeeps, GoesKeeps DEF Execute
<1>6. CASE LeaveName(p)
  BY <1>6, EmptyPlain, FailsKeeps, GoesKeeps DEF LeaveName
<1>7. CASE LeaveNumber(p)
  BY <1>7, EmptyPlain, FailsKeeps, GoesKeeps DEF LeaveNumber
<1>8. CASE PrintResult(p)
  <2>1. Plain(p, webui_log(p, "done") \o webui_log(p, "done"))
    BY LogsPlain, ConcatPlain DEF Acts
  <2> QED BY <1>8, <2>1, EmptyPlain, GoesKeeps DEF PrintResult
<1>9. CASE SpawnMaintenance(p)
  BY <1>9, EmptyPlain, ReturnKeeps, ThrowsKeeps DEF SpawnMaintenance
<1> QED BY <1>1, <1>2, <1>3, <1>4, <1>5, <1>6, <1>7, <1>8, <1>9 DEF StartJob

LEMMA OtherKeeps ==
    ASSUME IInv, NEW p \in Procs, Other(p) \/ Serve(p) \/ WatcherEnds(p) PROVE IInv'
<1> USE DEF Recorders, Working
<1>1. ASSUME NEW words, Call(p, words) PROVE IInv'
  <2>1. Plain(p, session_log(p, "called"))
    BY LogsPlain DEF Acts
  <2> QED BY <1>1, <2>1, FailsKeeps, ReturnKeeps DEF Call
<1>2. CASE CisCron(p)
  <2>1. Plain(p, cis_log(p, "error"))
    BY LogsPlain DEF Acts
  <2> QED BY <1>2, <2>1, EmptyPlain, ReturnKeeps, ThrowsKeeps DEF CisCron, start_daemon
<1>3. CASE Maintenance(p)
  BY <1>3, EmptyPlain, ReturnKeeps, ThrowsKeeps DEF Maintenance
<1>4. CASE Daemon(p)
  BY <1>4, EmptyPlain, ReturnKeeps, ThrowsKeeps, GoesKeeps DEF Daemon
<1>5. CASE Serve(p)
  <2>1. Plain(p, cis_log(p, "unstarted"))
    BY LogsPlain DEF Acts
  <2> QED BY <1>5, <2>1, EmptyPlain, GoesKeeps, ThrowsKeeps DEF Serve, run_job
<1>6. CASE WatcherEnds(p)
  BY <1>6, EmptyPlain, ReturnKeeps DEF WatcherEnds
<1> QED BY <1>1, <1>2, <1>3, <1>4, <1>5, <1>6 DEF Other, SetValue, GetValue, SetParam, GetParam

-----------------------------------------------------------------------------
(* The start and the end of a main.                                        *)

\* From a place before the logs to its locals, or to another place.
LEMMA EarlyKeeps ==
    ASSUME IInv, NEW p \in Procs, NEW from \in Unlogged,
           NEW to \in {"locals", "session", "connect", "cis log"},
           Step(p, from, to), to \in {"session", "connect"} => Opens(p),
           Record(p, <<>>) \/ UNCHANGED todo,
           UNCHANGED <<start, loggers, log, refs, thread>>
    PROVE  IInv'
<1>1. /\ Frame(p) /\ pc[p] = from /\ pc'[p] = to /\ todo[p] = <<>> /\ todo'[p] = <<>>
      /\ Queue(p)' = Queue(p) /\ Opens(p)' = Opens(p)
  BY StepFrame DEF Record
<1>2. Own(p) BY DEF IInv
<1> USE DEF Recorders, Early, Unlogged, Working
<1>3. Authenticated(p)'
  BY <1>1, <1>2 DEF Own, Authenticated, Connected, AuthDue
<1>4. Connected(p)'
  BY <1>1, <1>2 DEF Own, Connected
<1>5. Shared(p)'
  BY <1>1, <1>2 DEF Own, Shared, Lives, Over
<1> QED BY <1>1, <1>3, <1>4, <1>5, OwnEnough DEF Own

LEMMA MakeLogKeeps ==
    ASSUME IInv, NEW p \in Procs, NEW kind \in {"cis", "session", "combined"},
           NEW from, NEW to, MakeLog(p, from, kind, to),
           \/ from = "cis log" /\ to = IF Opens(p) THEN "auth" ELSE "main"
           \/ from \in {"session log", "offline log"} /\ to \in {"offline log", "main"}
    PROVE  IInv'
<1>1. /\ Frame(p) /\ pc[p] = from /\ pc'[p] = to /\ todo[p] = <<>> /\ todo' = todo
      /\ refs' = refs /\ thread' = thread /\ loggers'[p] = loggers[p] \cup {kind}
      /\ Queue(p)' = Queue(p) /\ Opens(p)' = Opens(p)
  <2> DEFINE l == loggers[p] \cup {kind}
  <2>1. /\ Step(p, from, to) /\ UNCHANGED <<start, log, todo, refs, thread>>
        /\ loggers' = [loggers EXCEPT ![p] = l]
    BY DEF MakeLog, idVars, webVars
  <2> HIDE DEF l
  <2>2. /\ Frame(p) /\ pc[p] = from /\ pc'[p] = to /\ todo[p] = <<>> /\ loggers'[p] = l
        /\ Queue(p)' = Queue(p) /\ Opens(p)' = Opens(p)
    BY <2>1, StepFrame
  <2> QED BY <2>1, <2>2 DEF l
<1>2. Own(p) /\ ("queue" \in loggers'[p] <=> "queue" \in loggers[p])
  BY <1>1 DEF IInv
<1> USE DEF Recorders, Early, Unlogged, Working
<1>3. Authenticated(p)'
  BY <1>1, <1>2 DEF Own, Authenticated, Connected, AuthDue
<1>4. Connected(p)'
  BY <1>1, <1>2 DEF Own, Connected
<1>5. Shared(p)'
  BY <1>1, <1>2 DEF Own, Shared, Lives, Over
<1> QED BY <1>1, <1>3, <1>4, <1>5, OwnEnough DEF Own

\* A log that cannot be made ends the process.
LEMMA ExitKeeps ==
    ASSUME IInv, NEW p \in Procs, NEW from \in {"cis log", "session log", "offline log"},
           Exit(p, from)
    PROVE  IInv'
<1>1. /\ Frame(p) /\ pc[p] = from /\ pc'[p] = "statics" /\ todo[p] = <<>> /\ todo' = todo
      /\ refs' = refs /\ thread' = thread /\ loggers' = loggers
      /\ Queue(p)' = Queue(p) /\ Opens(p)' = Opens(p)
  BY StepFrame DEF Exit, idVars, webVars
<1>2. Own(p) BY DEF IInv
<1> USE DEF Recorders, Early, Unlogged, Working
<1>3. Authenticated(p)'
  BY <1>1, <1>2 DEF Own, Authenticated, AuthDue
<1>4. Connected(p)' /\ Shared(p)'
  BY <1>1, <1>2 DEF Own, Connected, Shared, Lives, Over
<1> QED BY <1>1, <1>3, <1>4, OwnEnough DEF Own

LEMMA ConnectionKeeps ==
    ASSUME IInv, NEW p \in Procs, Connect(p) \/ RunThread(p) \/ InitWebuiLog(p)
    PROVE  IInv'
<1>1. Own(p) BY DEF IInv
<1> USE DEF Recorders, Early, Unlogged, Working, Over
<1>2. CASE Connect(p)
  <2>1. /\ Frame(p) /\ pc[p] = "connect" /\ pc'[p] = "run" /\ todo' = todo
        /\ refs'[p] = {"main"} /\ thread' = thread /\ loggers' = loggers
        /\ Queue(p)' = Queue(p) /\ Opens(p)' = Opens(p)
    BY <1>2, StepFrame DEF Connect, idVars
  <2>2. Authenticated(p)'
    BY <1>1, <2>1 DEF Own, Authenticated, AuthDue
  <2>3. Connected(p)' /\ Shared(p)'
    BY <1>1, <2>1 DEF Own, Connected, Shared
  <2> QED BY <2>1, <2>2, <2>3, OwnEnough DEF Own
<1>3. CASE RunThread(p)
  <2>1. /\ Frame(p) /\ pc[p] = "run" /\ pc'[p] = "running" /\ todo' = todo
        /\ refs' = refs /\ loggers' = loggers
        /\ Queue(p)' = Queue(p) /\ Opens(p)' = Opens(p)
    BY <1>3, StepFrame DEF RunThread, idVars
  <2>2. Authenticated(p)'
    BY <1>1, <2>1 DEF Own, Authenticated, AuthDue
  <2>3. Connected(p)' /\ Shared(p)'
    BY <1>1, <2>1 DEF Own, Connected, Shared
  <2> QED BY <2>1, <2>2, <2>3, OwnEnough DEF Own
<1>4. CASE InitWebuiLog(p)
  <2>1. PICK made \in BOOLEAN :
            /\ loggers' = [loggers EXCEPT ![p] = IF made THEN @ \cup {"queue"} ELSE @]
            /\ refs' = [refs EXCEPT ![p] = IF made THEN @ \cup {"logger"} ELSE @]
    BY <1>4 DEF InitWebuiLog
  <2>2. /\ Frame(p) /\ pc[p] = "running" /\ pc'[p] = "cis log" /\ todo' = todo
        /\ refs'[p] = (IF made THEN refs[p] \cup {"logger"} ELSE refs[p])
        /\ loggers'[p] = (IF made THEN loggers[p] \cup {"queue"} ELSE loggers[p])
        /\ thread' = thread /\ Queue(p)' = Queue(p) /\ Opens(p)' = Opens(p)
    <3> DEFINE f == IF made THEN refs[p] \cup {"logger"} ELSE refs[p]
               l == IF made THEN loggers[p] \cup {"queue"} ELSE loggers[p]
    <3>1. /\ Step(p, "running", "cis log") /\ UNCHANGED <<start, log, todo, thread>>
          /\ loggers' = [loggers EXCEPT ![p] = l] /\ refs' = [refs EXCEPT ![p] = f]
      BY <1>4, <2>1 DEF InitWebuiLog, idVars
    <3> HIDE DEF f, l
    <3>2. /\ Frame(p) /\ pc[p] = "running" /\ pc'[p] = "cis log" /\ refs'[p] = f
          /\ loggers'[p] = l /\ Queue(p)' = Queue(p) /\ Opens(p)' = Opens(p)
      BY <3>1, StepFrame
    <3> QED BY <3>1, <3>2 DEF f, l
  <2>3. refs'[p] # {}
    BY <1>1, <2>2 DEF Own, Connected
  <2>4. Authenticated(p)'
    BY <1>1, <2>2 DEF Own, Authenticated, AuthDue
  <2>5. Connected(p)' /\ Shared(p)'
    BY <1>1, <2>2, <2>3 DEF Own, Connected, Shared
  <2> QED BY <2>2, <2>4, <2>5, OwnEnough DEF Own
<1> QED BY <1>2, <1>3, <1>4

LEMMA AuthenticateKeeps ==
    ASSUME IInv, NEW p \in Procs, Authenticate(p) PROVE IInv'
<1> DEFINE s == IF refs[p] # {} THEN <<<<"queue", "auth">>>> ELSE <<>>
<1>1. /\ Frame(p) /\ pc[p] = "auth" /\ pc'[p] = "session log" /\ todo'[p] = s
      /\ refs' = refs /\ loggers' = loggers /\ thread' = thread
      /\ Queue(p)' = Queue(p) /\ Opens(p)' = Opens(p)
  BY StepFrame DEF Authenticate, idVars, webVars
<1>2. Own(p) BY DEF IInv
<1>3. s \in Seq(Kinds \X Acts) /\ (s = <<>> \/ s = <<<<"queue", "auth">>>>)
  <2>1. <<"queue", "auth">> \in Kinds \X Acts BY DEF Kinds, Acts
  <2> HIDE DEF Kinds, Acts
  <2> QED BY <2>1
<1>4. s = <<>> => "queue" \notin loggers[p]
  BY <1>1, <1>2 DEF Own, Connected
<1> HIDE DEF s
<1> USE DEF Recorders, Early, Unlogged, Working, Over
<1>5. Queue(p) = <<>> BY <1>1, <1>2 DEF Own, Authenticated
<1>6. Authenticated(p)'
  BY <1>1, <1>2, <1>3, <1>4, <1>5 DEF Own, Authenticated, AuthDue
<1>7. Connected(p)' /\ Shared(p)'
  BY <1>1, <1>2 DEF Own, Connected, Shared, Lives
<1> QED BY <1>1, <1>6, <1>7, OwnEnough DEF Own

LEMMA BeginKeeps ==
    ASSUME IInv, NEW p \in Procs, Begin(p) PROVE IInv'
<1> USE DEF Unlogged
<1>1. CASE Version(p) \/ Usage(p) \/ NoContext(p)
  <2>1. PICK c, said : Return(p, "context", c, said, <<>>)
    BY <1>1 DEF Version, Usage, NoContext
  <2> QED BY <2>1, EarlyKeeps DEF Return, idVars, webVars
<1>2. CASE InitContext(p) \/ InitContextOnly(p)
  BY <1>2, EarlyKeeps DEF InitContext, InitContextOnly, Goes, idVars, webVars
<1>3. CASE InvokeSession(p)
  <2>1. Opens(p) BY <1>3 DEF InvokeSession, Step, IInv, Own, Connected
  <2> QED BY <1>3, <2>1, EarlyKeeps DEF InvokeSession, webVars
<1>4. CASE NoWebui(p)
  BY <1>4, EarlyKeeps DEF NoWebui, Goes, idVars, webVars
<1>5. CASE init_cis_log(p)
  BY <1>5, MakeLogKeeps, ExitKeeps DEF init_cis_log
<1>6. CASE init_session_log(p)
  BY <1>6, MakeLogKeeps, ExitKeeps DEF init_session_log
<1>7. CASE init_offline_webui_log(p)
  BY <1>7, MakeLogKeeps, ExitKeeps DEF init_offline_webui_log
<1> QED
  BY <1>1, <1>2, <1>3, <1>4, <1>5, <1>6, <1>7, ConnectionKeeps, AuthenticateKeeps
     DEF Begin, Prepare, Converse, MakeLogs

LEMMA LeaveKeeps ==
    ASSUME IInv, NEW p \in Procs, Leave(p) PROVE IInv'
<1>1. Own(p) BY DEF IInv
<1> USE DEF Recorders, Early, Unlogged, Working, Over
<1>2. CASE DropShare(p)
  <2> DEFINE to == IF refs[p] = {"main"} THEN "destroy" ELSE "close"
             f == refs[p] \ {"main"}
  <2>1. to \in {"destroy", "close"} /\ (to = "close" /\ f = {} => refs[p] = {})
    OBVIOUS
  <2>2. /\ Step(p, "locals", to) /\ UNCHANGED <<start, log, todo, thread, loggers>>
        /\ refs' = [refs EXCEPT ![p] = f]
    BY <1>2 DEF DropShare, idVars
  <2> HIDE DEF to, f
  <2>3. /\ Frame(p) /\ pc[p] = "locals" /\ pc'[p] = to /\ todo[p] = <<>> /\ refs'[p] = f
        /\ Queue(p)' = Queue(p) /\ Opens(p)' = Opens(p)
    BY <2>2, StepFrame
  <2>4. Authenticated(p)'
    BY <1>1, <2>1, <2>2, <2>3 DEF Own, Authenticated, AuthDue
  <2>5. Connected(p)' /\ Shared(p)'
    BY <1>1, <2>1, <2>2, <2>3 DEF Own, Connected, Shared, Lives
  <2> QED BY <2>3, <2>4, <2>5, OwnEnough DEF Own
<1>3. CASE CloseSession(p)
  <2>1. Plain(p, cis_log(p, "close"))
    BY LogsPlain DEF Acts
  <2> QED BY <1>3, <2>1, EmptyPlain, GoesKeeps DEF CloseSession
<1>4. CASE DropLoggers(p)
  <2> DEFINE to == IF refs[p] = {"logger"} THEN "destroy" ELSE "exited"
             f == refs[p] \ {"logger"}
  <2>1. to \in {"destroy", "exited"}
    OBVIOUS
  <2>2. /\ Step(p, "statics", to) /\ UNCHANGED <<start, log, todo, thread, loggers>>
        /\ refs' = [refs EXCEPT ![p] = f]
    BY <1>4 DEF DropLoggers, idVars
  <2> HIDE DEF to, f
  <2>3. /\ Frame(p) /\ pc[p] = "statics" /\ pc'[p] = to /\ todo[p] = <<>> /\ refs'[p] = f
        /\ Queue(p)' = Queue(p) /\ Opens(p)' = Opens(p)
    BY <2>2, StepFrame
  <2>4. Authenticated(p)'
    BY <1>1, <2>1, <2>2, <2>3 DEF Own, Authenticated, AuthDue
  <2>5. Connected(p)' /\ Shared(p)'
    BY <1>1, <2>1, <2>2, <2>3 DEF Own, Connected, Shared, Lives
  <2> QED BY <2>3, <2>4, <2>5, OwnEnough DEF Own
<1>5. CASE Disconnect(p)
  <2>1. /\ Frame(p) /\ pc[p] = "destroy" /\ pc'[p] = "join" /\ todo' = todo
        /\ refs' = refs /\ loggers' = loggers /\ thread' = thread
        /\ Queue(p)' = Queue(p) /\ Opens(p)' = Opens(p)
    BY <1>5, StepFrame DEF Disconnect, idVars
  <2>2. Authenticated(p)'
    BY <1>1, <2>1 DEF Own, Authenticated, AuthDue
  <2>3. Connected(p)' /\ Shared(p)'
    BY <1>1, <2>1 DEF Own, Connected, Shared
  <2> QED BY <2>1, <2>2, <2>3, OwnEnough DEF Own
<1>6. CASE Join(p)
  <2> DEFINE to == IF "queue" \in loggers[p] THEN "exited" ELSE "close"
  <2>1. /\ to \in {"exited", "close"} /\ (to = "close" => "queue" \notin loggers[p])
        /\ thread[p] = "ended"
    BY <1>6 DEF Join
  <2>2. /\ Step(p, "join", to) /\ UNCHANGED <<start, log, thread, refs, loggers>>
        /\ todo' = [todo EXCEPT ![p] = <<>>]
    BY <1>6 DEF Join, Goes, Record, idVars, webVars
  <2> HIDE DEF to
  <2>3. /\ Frame(p) /\ pc[p] = "join" /\ pc'[p] = to /\ todo[p] = <<>> /\ todo'[p] = <<>>
        /\ Queue(p)' = Queue(p) /\ Opens(p)' = Opens(p)
    BY <2>2, StepFrame
  <2>4. Authenticated(p)'
    BY <1>1, <2>1, <2>2, <2>3 DEF Own, Authenticated, AuthDue
  <2>5. Connected(p)' /\ Shared(p)'
    BY <1>1, <2>1, <2>2, <2>3 DEF Own, Connected, Shared
  <2> QED BY <2>3, <2>4, <2>5, OwnEnough DEF Own
<1> QED BY <1>2, <1>3, <1>4, <1>5, <1>6 DEF Leave

-----------------------------------------------------------------------------
(* Writing, the thread and the surroundings.                               *)

\* What Append makes of a sequence.
LEMMA AppendFacts ==
    ASSUME NEW T, NEW q \in Seq(T), NEW x \in T
    PROVE  /\ Append(q, x) \in Seq(T) /\ Append(q, x) # <<>>
           /\ DOMAIN Append(q, x) = 1 .. Len(q) + 1 /\ DOMAIN q = 1 .. Len(q)
           /\ Len(q) \in Nat /\ (q # <<>> => Len(q) # 0)
           /\ \A i \in 1 .. Len(q) + 1 : Append(q, x)[i] = IF i = Len(q) + 1 THEN x ELSE q[i]
<1>1. Append(q, x) \in Seq(T) /\ Len(Append(q, x)) = Len(q) + 1 /\ Len(q) \in Nat
  OBVIOUS
<1>2. DOMAIN Append(q, x) = 1 .. Len(q) + 1 /\ DOMAIN q = 1 .. Len(q)
  BY <1>1
<1>3. \A i \in 1 .. Len(q) + 1 : Append(q, x)[i] = IF i = Len(q) + 1 THEN x ELSE q[i]
  OBVIOUS
<1>4. Append(q, x) # <<>> /\ (q # <<>> => Len(q) # 0)
  BY <1>1
<1> QED BY <1>1, <1>2, <1>3, <1>4

\* A record is written to the queue behind those it has.
LEMMA WriteKeeps ==
    ASSUME IInv, NEW p \in Procs, Write(p) PROVE IInv'
<1> DEFINE w == Head(todo[p])
           d == Dest(p, w[1])
<1>1. Own(p) /\ todo[p] \in Seq(Kinds \X Acts) /\ todo[p] # <<>>
  BY DEF IInv, Own, Authenticated, Write
<1>2. /\ w \in Kinds \X Acts /\ w = todo[p][1] /\ 1 \in DOMAIN todo[p]
      /\ Tail(todo[p]) \in Seq(Kinds \X Acts)
      /\ \A i \in DOMAIN Tail(todo[p]) : i + 1 \in DOMAIN todo[p] /\ Tail(todo[p])[i] = todo[p][i + 1]
  <2> HIDE DEF Kinds, Acts
  <2> QED BY <1>1
<1>3. /\ UNCHANGED <<pc, start, loggers, thread, refs>>
      /\ todo' = [todo EXCEPT ![p] = Tail(todo[p])]
      /\ log' = [log EXCEPT ![d] = Append(log[d], <<p, w[2]>>)]
  BY DEF Write, idVars, webVars
<1>4. \A r \in Procs : d = <<"queue", r>> <=> r = p /\ w[1] = "queue"
  BY DEF Dest
<1>5. <<"queue", p>> \in Logs BY DEF Logs
<1> HIDE DEF d, w
<1>6. Frame(p) /\ todo'[p] = Tail(todo[p])
  <2>1. log' = [l \in Logs |-> log'[l]]
    BY <1>3 DEF IInv, Functional
  <2>2. /\ todo' = [r \in Procs |-> todo'[r]] /\ todo'[p] = Tail(todo[p])
        /\ \A r \in Procs \ {p} : todo'[r] = todo[r]
    BY <1>3 DEF IInv, Functional
  <2>3. \A r \in Procs \ {p} : log'[<<"queue", r>>] = log[<<"queue", r>>]
    BY <1>3, <1>4 DEF IInv, Functional
  <2> QED BY <1>3, <2>1, <2>2, <2>3 DEF Frame, IInv, Functional
<1>7. /\ w[1] # "queue" => Queue(p)' = Queue(p)
      /\ w[1] = "queue" => Queue(p)' = Append(Queue(p), <<p, w[2]>>)
  BY <1>3, <1>4, <1>5 DEF Queue, IInv, Functional
<1>8. pc'[p] = pc[p] /\ pc[p] \notin Early
  BY <1>1, <1>3 DEF Own, Authenticated
<1>9. /\ Queue(p) \in Seq(Procs \X Acts) /\ w[2] \in Acts
      /\ w = <<w[1], w[2]>>
  BY <1>1, <1>2 DEF Own, Authenticated
<1>10. Authenticated(p)'
  <2>1. CASE AuthDue(p) /\ Queue(p) = <<>>
    <3>1. w = <<"queue", "auth">> /\ Tail(todo[p]) = <<>>
      BY <1>2, <2>1 DEF AuthDue
    <3>2. Queue(p)' = <<<<p, "auth">>>>
      BY <1>7, <2>1, <3>1
    <3>3. /\ Queue(p)' \in Seq(Procs \X Acts) /\ DOMAIN Queue(p)' = {1} /\ Queue(p)' # <<>>
          /\ Queue(p)'[1] = <<p, "auth">>
      <4>1. <<p, "auth">> \in Procs \X Acts BY DEF Acts
      <4> HIDE DEF Acts
      <4> QED BY <3>2, <4>1
    <3>4. todo'[p] \in Seq(Kinds \X Acts) /\ DOMAIN todo'[p] = {}
      BY <1>2, <1>6, <3>1
    <3> QED BY <1>8, <3>3, <3>4 DEF Authenticated
  <2>2. CASE \A i \in DOMAIN todo[p] : /\ todo[p][i][2] # "auth"
                                       /\ todo[p][i][1] = "queue" => Queue(p) # <<>>
    <3>1. \A i \in DOMAIN todo'[p] : /\ todo'[p][i][2] # "auth"
                                     /\ todo'[p][i][1] = "queue" => Queue(p) # <<>>
      BY <1>2, <1>6, <2>2
    <3>2. w[2] # "auth" /\ (w[1] = "queue" => Queue(p) # <<>>)
      BY <1>2, <2>2
    <3>3. /\ Queue(p)' \in Seq(Procs \X Acts) /\ (Queue(p) # <<>> => Queue(p)' # <<>>)
          /\ \A i \in DOMAIN Queue(p)' : Queue(p)'[i][2] = "auth" <=> i = 1
      <4>1. CASE w[1] # "queue"
        BY <1>1, <1>7, <1>9, <4>1 DEF Own, Authenticated
      <4>2. CASE w[1] = "queue"
        <5> DEFINE q == Queue(p)
                   x == <<p, w[2]>>
        <5>1. q \in Seq(Procs \X Acts) /\ x \in Procs \X Acts /\ q # <<>> /\ x[2] # "auth"
          BY <1>9, <3>2, <4>2
        <5>2. Queue(p)' = Append(q, x) /\ \A i \in DOMAIN q : q[i][2] = "auth" <=> i = 1
          BY <1>1, <1>7, <4>2 DEF Own, Authenticated
        <5> HIDE DEF q, x, Acts
        <5>3. /\ Append(q, x) \in Seq(Procs \X Acts) /\ Append(q, x) # <<>>
              /\ DOMAIN Append(q, x) = 1 .. Len(q) + 1 /\ DOMAIN q = 1 .. Len(q)
              /\ Len(q) \in Nat /\ Len(q) # 0
              /\ \A i \in 1 .. Len(q) + 1 :
                     Append(q, x)[i] = IF i = Len(q) + 1 THEN x ELSE q[i]
          BY <5>1, AppendFacts
        <5>4. ASSUME NEW i \in 1 .. Len(q) + 1 PROVE Append(q, x)[i][2] = "auth" <=> i = 1
          <6>1. CASE i = Len(q) + 1
            BY <5>1, <5>3, <6>1
          <6>2. CASE i # Len(q) + 1
            BY <5>2, <5>3, <6>2
          <6> QED BY <6>1, <6>2
        <5> QED BY <5>2, <5>3, <5>4
      <4> QED BY <4>1, <4>2
    <3>4. pc[p] \in Recorders /\ "queue" \in loggers[p] => AuthDue(p) \/ Queue(p) # <<>>
      BY <1>1 DEF Own, Authenticated
    <3>5. AuthDue(p) => FALSE
      BY <2>2, <1>2 DEF AuthDue
    <3>6. todo'[p] \in Seq(Kinds \X Acts)
      BY <1>2, <1>6
    <3> QED BY <1>3, <1>8, <3>1, <3>3, <3>4, <3>5, <3>6 DEF Authenticated
  <2> QED BY <1>1, <2>1, <2>2 DEF Own, Authenticated
<1>11. Connected(p)' /\ Shared(p)'
  BY <1>1, <1>3 DEF Own, Connected, Shared, Lives, Opens
<1> QED BY <1>6, <1>10, <1>11, OwnEnough DEF Own

\* Steps that touch none of the variables of IInv.
LEMMA StutterKeeps ==
    ASSUME IInv, UNCHANGED <<pc, start, todo, loggers, refs, thread, log>> PROVE IInv'
<1>1. Functional'
  BY DEF IInv, Functional
<1>2. ASSUME NEW p \in Procs PROVE Own(p)'
  <2>1. Own(p) /\ Queue(p)' = Queue(p) /\ Opens(p)' = Opens(p)
    BY DEF IInv, Queue, Opens
  <2>2. Authenticated(p)'
    BY <2>1 DEF Own, Authenticated, AuthDue
  <2>3. Connected(p)' /\ Shared(p)'
    BY <2>1 DEF Own, Connected, Shared, Lives
  <2> QED BY <2>2, <2>3 DEF Own
<1> QED BY <1>1, <1>2 DEF IInv

\* What the thread and the surroundings do records nothing.
LEMMA BesideKeeps ==
    ASSUME IInv, NEW p \in Procs, Launch(p) \/ Thread(p) \/ ServerCloses(p) \/ Kill(p)
    PROVE  IInv'
<1>1. Own(p) BY DEF IInv
<1> USE DEF Recorders, Early, Unlogged, Working, Over
<1>2. ASSUME NEW to, pc' = [pc EXCEPT ![p] = to],
             to \in {"context", "killed"},
             to = "context" => pc[p] = "off", to = "killed" => Lives(p),
             UNCHANGED <<start, log, todo, loggers, refs, thread>>
      PROVE  IInv'
  <2>3. /\ pc' = [r \in Procs |-> pc'[r]] /\ pc'[p] = to
        /\ \A r \in Procs \ {p} : pc'[r] = pc[r]
    BY <1>2 DEF IInv, Functional
  <2>4. Frame(p) /\ Queue(p)' = Queue(p) /\ Opens(p)' = Opens(p)
    BY <1>2, <2>3 DEF Frame, IInv, Functional, Queue, Opens
  <2>5. Authenticated(p)'
    BY <1>1, <1>2, <2>3, <2>4 DEF Own, Authenticated, AuthDue
  <2>6. Connected(p)' /\ Shared(p)'
    BY <1>1, <1>2, <2>3, <2>4 DEF Own, Connected, Shared, Lives
  <2> QED BY <2>4, <2>5, <2>6, OwnEnough DEF Own
<1>3. CASE Thread(p)
  <2>1. PICK to : /\ thread' = [thread EXCEPT ![p] = to] /\ Lives(p)
                  /\ thread[p] \notin {"none", "ended"}
    BY <1>3 DEF Thread, RunReturns, ClearRunning
  <2>2. UNCHANGED <<start, log, todo, loggers, refs, pc>>
    BY <1>3 DEF Thread, RunReturns, ClearRunning, idVars
  <2>3. thread' = [r \in Procs |-> thread'[r]] /\ \A r \in Procs \ {p} : thread'[r] = thread[r]
    BY <2>1 DEF IInv, Functional
  <2>4. Frame(p) /\ Queue(p)' = Queue(p) /\ Opens(p)' = Opens(p)
    BY <2>2, <2>3 DEF Frame, IInv, Functional, Queue, Opens
  <2>5. Authenticated(p)' /\ Connected(p)'
    BY <1>1, <2>2, <2>4 DEF Own, Authenticated, AuthDue, Connected
  <2>6. Shared(p)'
    BY <1>1, <2>1, <2>2 DEF Own, Shared, Lives
  <2> QED BY <2>4, <2>5, <2>6, OwnEnough DEF Own
<1>4. CASE ServerCloses(p)
  BY <1>4, StutterKeeps DEF ServerCloses, idVars
<1>5. CASE Launch(p)
  <2>1. /\ pc' = [pc EXCEPT ![p] = "context"] /\ pc[p] = "off"
        /\ UNCHANGED <<start, log, todo, loggers, refs, thread>>
    BY <1>5 DEF Launch, idVars, webVars
  <2> QED BY <1>2, <2>1
<1>6. CASE Kill(p)
  <2>1. /\ pc' = [pc EXCEPT ![p] = "killed"] /\ Lives(p)
        /\ UNCHANGED <<start, log, todo, loggers, refs, thread>>
    BY <1>6 DEF Kill, idVars, webVars
  <2> QED BY <1>2, <2>1
<1> QED BY <1>3, <1>4, <1>5, <1>6

-----------------------------------------------------------------------------
\* IInv is inductive.
LEMMA IInvInit == Init => IInv
<1> SUFFICES ASSUME Init PROVE IInv
  OBVIOUS
<1>1. Functional
  BY DEF Init, Functional
<1>2. ASSUME NEW p \in Procs PROVE Own(p)
  <2>1. /\ pc[p] \in {"off", "context"} /\ todo[p] = <<>> /\ loggers[p] = {}
        /\ thread[p] = "none" /\ refs[p] = {} /\ Queue(p) = <<>>
    <3>1. <<"queue", p>> \in Logs BY DEF Logs
    <3> QED BY <3>1 DEF Init, Queue
  <2>2. <<>> \in Seq(Procs \X Acts) /\ <<>> \in Seq(Kinds \X Acts) /\ DOMAIN <<>> = {}
    <3> HIDE DEF Acts, Kinds
    <3> QED OBVIOUS
  <2>3. Authenticated(p)
    BY <2>1, <2>2 DEF Authenticated, Recorders, Working
  <2> QED BY <2>1, <2>3 DEF Own, Connected, Shared, Unlogged
<1> QED BY <1>1, <1>2 DEF IInv

LEMMA IInvAlways == Spec => []IInv
<1>1. IInv /\ [Next]_vars => IInv'
  <2> SUFFICES ASSUME IInv, [Next]_vars PROVE IInv'
    OBVIOUS
  <2>1. ASSUME NEW p \in Procs,
               \/ Launch(p) \/ Main(p) \/ Thread(p) \/ ServerCloses(p)
               \/ Serve(p) \/ WatcherEnds(p) \/ Kill(p)
        PROVE  IInv'
    BY <2>1, WriteKeeps, BeginKeeps, StartJobKeeps, OtherKeeps, LeaveKeeps, BesideKeeps DEF Main
  <2>2. CASE UNCHANGED vars
    BY <2>2, StutterKeeps DEF vars, idVars, webVars
  <2> QED BY <2>1, <2>2 DEF Next
<1> QED BY <1>1, IInvInit, PTL DEF Spec

\* Any number of programs, ways of starting them, connections and kills: what a
\* program sends to the webui begins with the session's authentication, which is
\* sent once, although the logs are set up around it.
THEOREM AuthFirst == Spec => []AuthComesFirst
<1>1. IInv => AuthComesFirst
  BY DEF IInv, Own, Authenticated, AuthComesFirst, Queue
<1> QED BY <1>1, IInvAlways, PTL

\* However the server, the thread and the end of main interleave, and whoever
\* drops the last share: while the thread runs, its object is there.
THEOREM ThreadHasObject == Spec => []ObjectOutlivesThread
<1>1. IInv => ObjectOutlivesThread
  BY DEF IInv, Own, Shared, ObjectOutlivesThread
<1> QED BY <1>1, IInvAlways, PTL

-----------------------------------------------------------------------------
(* The moves keep to the stages of a main.                                  *)

\* Each of the three conjuncts of Local survives a move of its process.
LEMMA PhaseMoves ==
    ASSUME NEW p \in Procs, NEW s, Local(p), Move(p, s) PROVE Phase(p)'
<1> USE DEF Unlogged, Early, Working, Job, Leaving, Over, Keeps, From, Equipped
<1>1. /\ Phase(p) /\ Opens(p)' = Opens(p) /\ start' = start /\ (StartJobOf(p) => Opens(p))
      /\ "logger" \in refs'[p] => "logger" \in refs[p] \/ "queue" \in loggers'[p]
      /\ (StartJobOf(p) <=> start[p].program = "startjob")
  BY DEF Local, Move, Apart, Opens, StartJobOf, OpeningPrograms
<1>2. CASE Passes(p, s) BY <1>1, <1>2 DEF Passes, Phase
<1>3. CASE Invokes(p, s) BY <1>1, <1>3 DEF Invokes, Phase
<1>4. CASE Equips(p, s) BY <1>1, <1>4 DEF Equips, Phase
<1>5. CASE Authenticates(p, s) BY <1>1, <1>5 DEF Authenticates, Phase
<1>6. CASE Gives(p, s) BY <1>1, <1>6 DEF Gives, Phase
<1>7. CASE Quits(p, s) BY <1>1, <1>7 DEF Quits, Phase
<1>8. CASE Crashes(p, s) BY <1>1, <1>8 DEF Crashes, Phase
<1>9. CASE Reports(p, s) BY <1>1, <1>9 DEF Reports, Phase
<1>10. CASE Complains(p, s) BY <1>1, <1>10 DEF Complains, Phase
<1>11. CASE Tells(p, s) BY <1>1, <1>11 DEF Tells, Phase
<1>12. CASE Calls(p, s) BY <1>1, <1>12 DEF Calls, Phase
<1>13. CASE OpensIt(p, s) BY <1>1, <1>13 DEF OpensIt, Phase
<1> QED
  BY <1>2, <1>3, <1>4, <1>5, <1>6, <1>7, <1>8, <1>9, <1>10, <1>11, <1>12, <1>13 DEF Move, Moves

LEMMA CodesMoves ==
    ASSUME NEW p \in Procs, NEW s, Local(p), Move(p, s) PROVE Codes(p)'
<1> USE DEF Unlogged, Early, Working, Job, Leaving, Over, Keeps, From, Equipped, SameEnd, Ends
<1>1. /\ Phase(p) /\ Codes(p) /\ start' = start /\ (StartJobOf(p) => Opens(p))
      /\ (StartJobOf(p) <=> start[p].program = "startjob")
      /\ (start[p].program = "cis_cron" => ~Opens(p)) /\ Opens(p)' = Opens(p)
      /\ StartsDaemon(p)' = StartsDaemon(p)
      /\ {"stderr"} # {} /\ {"stdout"} # {} /\ {"stderr"} # {"stdout"}
  BY DEF Local, Move, Apart, Opens, StartJobOf, StartsDaemon, OpeningPrograms
<1>2. CASE Passes(p, s) BY <1>1, <1>2 DEF Passes, Phase, Codes
<1>3. CASE Invokes(p, s) BY <1>1, <1>3 DEF Invokes, Codes
<1>4. CASE Equips(p, s) BY <1>1, <1>4 DEF Equips, Codes
<1>5. CASE Authenticates(p, s) BY <1>1, <1>5 DEF Authenticates, Codes
<1>6. CASE Gives(p, s) BY <1>1, <1>6 DEF Gives, Codes, Phase
<1>7. CASE Quits(p, s) BY <1>1, <1>7 DEF Quits, Codes, Phase
<1>8. CASE Crashes(p, s) BY <1>1, <1>8 DEF Crashes, Codes
<1>9. CASE Reports(p, s) BY <1>1, <1>9 DEF Reports, Codes, Phase
<1>10. CASE Complains(p, s) BY <1>1, <1>10 DEF Complains, Codes, Phase
<1>11. CASE Tells(p, s) BY <1>1, <1>11 DEF Tells, Codes
<1>12. CASE Calls(p, s) BY <1>1, <1>12 DEF Calls, Codes
<1>13. CASE OpensIt(p, s) BY <1>1, <1>13 DEF OpensIt, Codes
<1> QED
  BY <1>2, <1>3, <1>4, <1>5, <1>6, <1>7, <1>8, <1>9, <1>10, <1>11, <1>12, <1>13 DEF Move, Moves

LEMMA BelongsMoves ==
    ASSUME NEW p \in Procs, NEW s, Local(p), ses[Root] = Root, Move(p, s) PROVE Belongs(p)'
<1> USE DEF Unlogged, Early, Working, Job, Leaving, Over, Keeps, From, Equipped, Member
<1>1. /\ Phase(p) /\ Belongs(p) /\ start' = start /\ (StartJobOf(p) => Opens(p))
      /\ (StartJobOf(p) <=> start[p].program = "startjob") /\ Opens(p)' = Opens(p)
  BY DEF Local, Move, Apart, Opens, StartJobOf, OpeningPrograms
<1>2. CASE Passes(p, s) BY <1>1, <1>2 DEF Passes, Phase, Belongs
<1>3. CASE Invokes(p, s) BY <1>1, <1>3 DEF Invokes, Phase, Belongs
<1>4. CASE Equips(p, s) BY <1>1, <1>4 DEF Equips, Phase, Belongs
<1>5. CASE Authenticates(p, s) BY <1>1, <1>5 DEF Authenticates, Belongs
<1>6. CASE Gives(p, s) BY <1>1, <1>6 DEF Gives, Belongs, Phase
<1>7. CASE Quits(p, s) BY <1>1, <1>7 DEF Quits, Belongs
<1>8. CASE Crashes(p, s) BY <1>1, <1>8 DEF Crashes, Belongs
<1>9. CASE Reports(p, s) BY <1>1, <1>9 DEF Reports, Belongs
<1>10. CASE Complains(p, s) BY <1>1, <1>10 DEF Complains, Belongs
<1>11. CASE Tells(p, s) BY <1>1, <1>11 DEF Tells, Belongs
<1>12. CASE Calls(p, s) BY <1>1, <1>12 DEF Calls, Belongs
<1>13. CASE OpensIt(p, s) BY <1>1, <1>13 DEF OpensIt, Belongs, Phase
<1> QED
  BY <1>2, <1>3, <1>4, <1>5, <1>6, <1>7, <1>8, <1>9, <1>10, <1>11, <1>12, <1>13 DEF Move, Moves

-----------------------------------------------------------------------------
(* The steps that the actions are made of are moves.                        *)

\* A step that updates the variables at p only leaves the other processes alone,
LEMMA ApartEnough ==
    ASSUME IInv, Typed, NEW p \in Procs, UNCHANGED <<start, log>>, \A r \in Procs : ses'[r] \in Procs,
           pc' = pc \/ \E e : pc' = [pc EXCEPT ![p] = e],
           ses' = ses \/ \E e : ses' = [ses EXCEPT ![p] = e],
           mine' = mine \/ \E e : mine' = [mine EXCEPT ![p] = e],
           code' = code \/ \E e : code' = [code EXCEPT ![p] = e],
           told' = told \/ \E e : told' = [told EXCEPT ![p] = e],
           loggers' = loggers \/ \E e : loggers' = [loggers EXCEPT ![p] = e],
           todo' = todo \/ \E e : todo' = [todo EXCEPT ![p] = e],
           refs' = refs \/ \E e : refs' = [refs EXCEPT ![p] = e],
           thread' = thread \/ \E e : thread' = [thread EXCEPT ![p] = e],
           onClose' = onClose \/ onClose' = onClose \cup {p}
    PROVE  Apart(p)
<1> USE DEF IInv, Functional, Typed
<1>1. pc' = [r \in Procs |-> pc'[r]] /\ \A r \in Procs \ {p} : pc'[r] = pc[r]
  OBVIOUS
<1>2. ses' = [r \in Procs |-> ses'[r]] /\ \A r \in Procs \ {p} : ses'[r] = ses[r]
  OBVIOUS
<1>3. mine' = [r \in Procs |-> mine'[r]] /\ \A r \in Procs \ {p} : mine'[r] = mine[r]
  OBVIOUS
<1>4. code' = [r \in Procs |-> code'[r]] /\ \A r \in Procs \ {p} : code'[r] = code[r]
  OBVIOUS
<1>5. told' = [r \in Procs |-> told'[r]] /\ \A r \in Procs \ {p} : told'[r] = told[r]
  OBVIOUS
<1>6. loggers' = [r \in Procs |-> loggers'[r]] /\ \A r \in Procs \ {p} : loggers'[r] = loggers[r]
  OBVIOUS
<1>7. todo' = [r \in Procs |-> todo'[r]] /\ \A r \in Procs \ {p} : todo'[r] = todo[r]
  OBVIOUS
<1>8. refs' = [r \in Procs |-> refs'[r]] /\ \A r \in Procs \ {p} : refs'[r] = refs[r]
  OBVIOUS
<1>9. thread' = [r \in Procs |-> thread'[r]]
  OBVIOUS
<1>10. log' = [l \in Logs |-> log'[l]] /\ \A l \in Logs : log'[l] \in Seq(Procs \X Acts)
  OBVIOUS
<1>11. /\ onClose' \subseteq Procs /\ start' \in [Procs -> Start]
       /\ start'[Root].program = "startjob" /\ start'[Root].how = "alone"
       /\ \A r \in Procs \ {p} : r \in onClose' <=> r \in onClose
  OBVIOUS
<1>12. Functional' /\ Typed'
  <2> HIDE DEF IInv, Functional, Typed
  <2> QED BY <1>1, <1>2, <1>3, <1>4, <1>5, <1>6, <1>7, <1>8, <1>9, <1>10, <1>11
             DEF Functional, Typed
<1> HIDE DEF IInv, Functional, Typed
<1> QED BY <1>1, <1>2, <1>3, <1>4, <1>5, <1>6, <1>7, <1>8, <1>11, <1>12 DEF Apart

\* and has at p what it was updated to.
LEMMA At ==
    ASSUME IInv, Typed, NEW p \in Procs, NEW e
    PROVE  /\ pc' = [pc EXCEPT ![p] = e] => pc'[p] = e
           /\ ses' = [ses EXCEPT ![p] = e] => ses'[p] = e
           /\ mine' = [mine EXCEPT ![p] = e] => mine'[p] = e
           /\ code' = [code EXCEPT ![p] = e] => code'[p] = e
           /\ told' = [told EXCEPT ![p] = e] => told'[p] = e
           /\ loggers' = [loggers EXCEPT ![p] = e] => loggers'[p] = e
           /\ todo' = [todo EXCEPT ![p] = e] => todo'[p] = e
           /\ refs' = [refs EXCEPT ![p] = e] => refs'[p] = e
BY DEF IInv, Functional, Typed

\* What the steps of a main leave, in the words of the table of moves.
LEMMA GoesMove ==
    ASSUME IInv, Typed, NEW p \in Procs, NEW from, NEW to, NEW s, Goes(p, from, to, s)
    PROVE  /\ Apart(p) /\ log' = log /\ todo[p] = <<>> /\ todo'[p] = s /\ refs' = refs
           /\ Keeps(p) /\ SameEnd(p) /\ onClose' = onClose /\ From(p, from, to)
<1>1. /\ pc[p] = from /\ todo[p] = <<>> /\ pc' = [pc EXCEPT ![p] = to]
      /\ todo' = [todo EXCEPT ![p] = s]
      /\ UNCHANGED <<start, log, ses, mine, code, told, loggers, refs, thread, onClose>>
  BY DEF Goes, Step, Record, idVars, webVars
<1>2. Apart(p) BY <1>1, ApartEnough DEF Typed
<1>3. pc'[p] = to /\ todo'[p] = s BY <1>1, At
<1> QED BY <1>1, <1>2, <1>3 DEF Keeps, SameEnd, From

LEMMA ReturnMove ==
    ASSUME IInv, Typed, NEW p \in Procs, NEW from, NEW c, NEW said, NEW s, Return(p, from, c, said, s)
    PROVE  /\ Apart(p) /\ log' = log /\ todo[p] = <<>> /\ todo'[p] = s /\ refs' = refs
           /\ Keeps(p) /\ Ends(p, c, said) /\ onClose' = onClose /\ From(p, from, "locals")
<1>1. /\ pc[p] = from /\ todo[p] = <<>> /\ pc' = [pc EXCEPT ![p] = "locals"]
      /\ todo' = [todo EXCEPT ![p] = s]
      /\ code' = [code EXCEPT ![p] = c] /\ told' = [told EXCEPT ![p] = said]
      /\ UNCHANGED <<start, log, ses, mine, loggers, refs, thread, onClose>>
  BY DEF Return, Step, Record, End, idVars, webVars
<1>2. Apart(p) BY <1>1, ApartEnough DEF Typed
<1>3. pc'[p] = "locals" /\ todo'[p] = s /\ code'[p] = c /\ told'[p] = said BY <1>1, At
<1> QED BY <1>1, <1>2, <1>3 DEF Keeps, Ends, From

\* Steps that are a move from wherever they are taken.
LEMMA ThrowsMove ==
    ASSUME IInv, Typed, NEW p \in Procs, NEW from, Throws(p, from), from \in Working
    PROVE  Move(p, <<>>)
<1>1. /\ pc[p] = from /\ todo[p] = <<>> /\ pc' = [pc EXCEPT ![p] = "crashed"]
      /\ told' = [told EXCEPT ![p] = {"stderr"}]
      /\ UNCHANGED <<start, log, ses, mine, loggers, refs, thread, onClose, code, todo>>
  BY DEF Throws, Step, idVars, webVars
<1>2. Apart(p) BY <1>1, ApartEnough DEF Typed
<1>3. pc'[p] = "crashed" /\ told'[p] = {"stderr"} BY <1>1, At
<1> QED BY <1>1, <1>2, <1>3 DEF Keeps, Ends, From, Crashes, Move, Moves

LEMMA ExitMove ==
    ASSUME IInv, Typed, NEW p \in Procs, NEW from \in {"cis log", "session log", "offline log"},
           Exit(p, from)
    PROVE  Move(p, <<>>)
<1>1. /\ pc[p] = from /\ todo[p] = <<>> /\ pc' = [pc EXCEPT ![p] = "statics"]
      /\ told' = [told EXCEPT ![p] = {"stderr"}] /\ code' = [code EXCEPT ![p] = "one"]
      /\ UNCHANGED <<start, log, ses, mine, loggers, refs, thread, onClose, todo>>
  BY DEF Exit, Step, End, idVars, webVars
<1>2. Apart(p) BY <1>1, ApartEnough DEF Typed
<1>3. pc'[p] = "statics" /\ told'[p] = {"stderr"} /\ code'[p] = "one" BY <1>1, At
<1> QED BY <1>1, <1>2, <1>3 DEF Keeps, Ends, From, Quits, Move, Moves

\* A logger is made.
LEMMA MakeLogMove ==
    ASSUME IInv, Typed, NEW p \in Procs, NEW from, NEW kind, NEW to, MakeLog(p, from, kind, to)
    PROVE  /\ Apart(p) /\ log' = log /\ todo[p] = <<>> /\ todo'[p] = <<>> /\ refs' = refs
           /\ ses'[p] = ses[p] /\ mine'[p] = mine[p] /\ loggers'[p] = loggers[p] \cup {kind}
           /\ SameEnd(p) /\ onClose' = onClose /\ From(p, from, to)
<1> DEFINE l == loggers[p] \cup {kind}
<1>1. /\ pc[p] = from /\ todo[p] = <<>> /\ pc' = [pc EXCEPT ![p] = to]
      /\ loggers' = [loggers EXCEPT ![p] = l]
      /\ UNCHANGED <<start, log, ses, mine, told, code, refs, thread, onClose, todo>>
  BY DEF MakeLog, Step, End, idVars, webVars
<1> HIDE DEF l
<1>2. Apart(p) BY <1>1, ApartEnough DEF Typed
<1>3. pc'[p] = to /\ loggers'[p] = l BY <1>1, At
<1> QED BY <1>1, <1>2, <1>3 DEF SameEnd, From, l

-----------------------------------------------------------------------------
(* So are the actions of startjob and of the other programs,                *)

\* Every action of a main, group by group, is a line of the table of moves.
LEMMA StartJobMove ==
    ASSUME IInv, Typed, NEW p \in Procs, Local(p), StartJob(p) PROVE \E s : Move(p, s)
<1> USE DEF From, Working
<1>0. ASSUME NEW from, NEW to, NEW s, Goes(p, from, to, s), Passes(p, s) \/ Tells(p, s)
      PROVE  Move(p, s)
  BY <1>0, GoesMove DEF Move, Moves
<1>00. ASSUME NEW from, Fails(p, from),
             \/ from = "build" \/ from = "values" \/ from = "name"
             \/ from = "execute" /\ (p = Root => Gone)
      PROVE  Move(p, tee_log(p, "error"))
  <2>1. Reports(p, tee_log(p, "error"))
    BY <1>00, ReturnMove DEF Fails, Reports
  <2> QED BY <1>00, <2>1, ReturnMove DEF Fails, Move, Moves
<1>1. CASE OpenSession(p)
  <2> DEFINE s == IF mine[p] THEN cis_log(p, "open") \o webui_log(p, "id") ELSE <<>>
  <2>1. /\ pc[p] = "main" /\ todo[p] = <<>> /\ pc' = [pc EXCEPT ![p] = "params"]
        /\ todo' = [todo EXCEPT ![p] = s] /\ StartJobOf(p)
        /\ onClose' = IF mine[p] THEN onClose \cup {p} ELSE onClose
        /\ UNCHANGED <<start, log, ses, mine, told, code, refs, thread, loggers>>
    BY <1>1 DEF OpenSession, Step, Record, idVars, webVars, StartJobOf
  <2>2. (mine[p] /\ s = cis_log(p, "open") \o webui_log(p, "id")) \/ (~mine[p] /\ s = <<>>)
    OBVIOUS
  <2> HIDE DEF s
  <2>3. Apart(p) BY <2>1, ApartEnough DEF Typed
  <2>4. pc'[p] = "params" /\ todo'[p] = s BY <2>1, At
  <2>5. OpensIt(p, s) \/ Passes(p, s)
    BY <2>1, <2>2, <2>4 DEF OpensIt, Passes, Keeps, SameEnd
  <2> QED BY <2>1, <2>3, <2>4, <2>5 DEF Move, Moves
<1>2. CASE NoJob(p)
  <2>1. Gives(p, <<>>)
    BY <1>2, ReturnMove DEF NoJob, Gives
  <2> QED BY <1>2, <2>1, ReturnMove DEF NoJob, Move, Moves
<1>3. CASE LoadJob(p)
  <2>1. CASE Goes(p, "params", "build", <<>>)
    BY <1>0, <2>1, GoesMove DEF Passes
  <2> QED BY <1>3, <2>1, ThrowsMove DEF LoadJob
<1>4. CASE PrepareBuild(p)
  <2>1. CASE Goes(p, "build", "execute", session_log(p, "start_job"))
    BY <1>0, <2>1, GoesMove DEF Tells
  <2>2. CASE Fails(p, "build")
    BY <1>00, <2>2
  <2> QED BY <1>4, <2>1, <2>2, ThrowsMove DEF PrepareBuild
<1>5. CASE Execute(p)
  <2>1. p = Root => Gone
    BY <1>5 DEF Execute, PipesEnd, Gone
  <2> DEFINE to == IF mine[p] THEN "print" ELSE "values"
             s == session_log(p, "finish_job")
  <2>2. CASE Goes(p, "execute", to, s)
    <3>1. to \in {"print", "values"} OBVIOUS
    <3> HIDE DEF to, s
    <3>2. Tells(p, s)
      BY <2>1, <2>2, <3>1, GoesMove DEF Tells, s
    <3> QED BY <1>0, <2>2, <3>2
  <2> QED BY <1>00, <1>5, <2>1, <2>2 DEF Execute
<1>6. CASE LeaveName(p)
  <2>1. CASE Goes(p, "values", "name", <<>>)
    BY <1>0, <2>1, GoesMove DEF Passes
  <2>2. CASE Fails(p, "values")
    BY <1>00, <2>2
  <2> QED BY <1>6, <2>1, <2>2 DEF LeaveName
<1>7. CASE LeaveNumber(p)
  <2>1. CASE Goes(p, "name", "print", <<>>)
    BY <1>0, <2>1, GoesMove DEF Passes
  <2>2. CASE Fails(p, "name")
    BY <1>00, <2>2
  <2> QED BY <1>7, <2>1, <2>2 DEF LeaveNumber
<1>8. CASE PrintResult(p)
  <2> DEFINE s == IF mine[p] THEN webui_log(p, "done") \o webui_log(p, "done") ELSE <<>>
  <2>1. Goes(p, "print", "spawn", s) /\ s \in {webui_log(p, "done") \o webui_log(p, "done"), <<>>}
    BY <1>8 DEF PrintResult
  <2> HIDE DEF s
  <2>2. Passes(p, s) \/ Tells(p, s)
    BY <2>1, GoesMove DEF Passes, Tells
  <2> QED BY <1>0, <2>1, <2>2
<1>9. CASE SpawnMaintenance(p)
  <2>1. CASE Return(p, "spawn", "zero", {}, <<>>)
    <3>1. Gives(p, <<>>)
      BY <2>1, ReturnMove DEF Gives
    <3> QED BY <2>1, <3>1, ReturnMove DEF Move, Moves
  <2> QED BY <1>9, <2>1, ThrowsMove DEF SpawnMaintenance
<1> QED BY <1>1, <1>2, <1>3, <1>4, <1>5, <1>6, <1>7, <1>8, <1>9 DEF StartJob

LEMMA OtherMove ==
    ASSUME IInv, Typed, NEW p \in Procs, Local(p), Other(p) \/ Serve(p) \/ WatcherEnds(p)
    PROVE  \E s : Move(p, s)
<1> USE DEF From, Working
<1>0. ASSUME NEW from, NEW c, NEW said, NEW s, Return(p, from, c, said, s),
             Gives(p, s) \/ Reports(p, s) \/ Complains(p, s) \/ Calls(p, s)
      PROVE  Move(p, s)
  BY <1>0, ReturnMove DEF Move, Moves
<1>1. ASSUME NEW words, Call(p, words), Opens(p), ~StartJobOf(p) PROVE \E s : Move(p, s)
  <2>1. CASE Fails(p, "main")
    <3>1. Reports(p, tee_log(p, "error"))
      BY <1>1, <2>1, ReturnMove DEF Fails, Reports
    <3> QED BY <1>0, <2>1, <3>1 DEF Fails
  <2>2. CASE Return(p, "main", "zero", {}, session_log(p, "called")) /\ ~mine[p]
    <3>1. Calls(p, session_log(p, "called"))
      BY <1>1, <2>2, ReturnMove DEF Calls
    <3> QED BY <1>0, <2>2, <3>1
  <2> QED BY <1>1, <2>1, <2>2 DEF Call
<1>2. ASSUME NEW c \in {"zero", "one"}, NEW said, Return(p, "main", c, said, <<>>), ~Opens(p),
             c = "one" => said = {"stdout"} \/ (StartsDaemon(p) /\ said = {})
      PROVE  \E s : Move(p, s)
  <2>1. Gives(p, <<>>)
    BY <1>2, ReturnMove DEF Gives
  <2> QED BY <1>0, <1>2, <2>1
<1>3. CASE CisCron(p)
  <2>0. ~Opens(p) BY <1>3 DEF CisCron, Opens, OpeningPrograms
  <2>1. CASE start[p].words # 2 /\ Return(p, "main", "one", {"stdout"}, cis_log(p, "error"))
    <3>1. Complains(p, cis_log(p, "error"))
      BY <1>3, <2>1, ReturnMove DEF Complains, CisCron
    <3> QED BY <1>0, <2>1, <3>1
  <2>2. CASE start[p].words = 2 /\ start_daemon(p)
    <3>1. StartsDaemon(p) BY <1>3, <2>2 DEF CisCron, StartsDaemon
    <3> QED BY <1>2, <2>0, <2>2, <3>1 DEF start_daemon
  <2>3. CASE Throws(p, "main")
    BY <2>3, ThrowsMove
  <2> QED BY <1>2, <1>3, <2>0, <2>1, <2>2, <2>3 DEF CisCron
<1>4. CASE Daemon(p)
  <2>0. ~Opens(p) BY <1>4 DEF Daemon, Opens, OpeningPrograms
  <2>1. CASE Goes(p, "main", "serve", <<>>)
    <3>1. Passes(p, <<>>)
      BY <2>0, <2>1, GoesMove DEF Passes
    <3> QED BY <2>1, <3>1, GoesMove DEF Move, Moves
  <2> QED BY <1>2, <1>4, <2>0, <2>1, ThrowsMove DEF Daemon
<1>5. CASE Maintenance(p)
  <2>0. ~Opens(p) BY <1>5 DEF Maintenance, Opens, OpeningPrograms
  <2> QED BY <1>2, <1>5, <2>0, ThrowsMove DEF Maintenance
<1>6. CASE WatcherEnds(p)
  <2>1. Gives(p, <<>>)
    BY <1>6, ReturnMove DEF WatcherEnds, Gives
  <2> QED BY <1>0, <1>6, <2>1 DEF WatcherEnds
<1>7. CASE Serve(p)
  <2>1. CASE run_job(p)
    <3>1. Tells(p, cis_log(p, "unstarted"))
      BY <2>1, GoesMove DEF run_job, Tells
    <3> QED BY <2>1, <3>1, GoesMove DEF run_job, Move, Moves
  <2>2. CASE Goes(p, "serve", "stop", <<>>)
    <3>1. Passes(p, <<>>)
      BY <2>2, GoesMove DEF Passes
    <3> QED BY <2>2, <3>1, GoesMove DEF Move, Moves
  <2> QED BY <1>7, <2>1, <2>2, ThrowsMove DEF Serve
<1>8. CASE SetValue(p) \/ GetValue(p) \/ SetParam(p) \/ GetParam(p)
  BY <1>1, <1>8 DEF SetValue, GetValue, SetParam, GetParam, Opens, OpeningPrograms, StartJobOf
<1> QED BY <1>3, <1>4, <1>5, <1>6, <1>7, <1>8 DEF Other

-----------------------------------------------------------------------------
(* those at the start of a main, and those at its end.                      *)

\* The actions before a main's work,
LEMMA BeginMove ==
    ASSUME IInv, Typed, ses[Root] = Root, Root \in Procs, NEW p \in Procs, Local(p), Begin(p)
    PROVE  \E s : Move(p, s)
<1> USE DEF From
<1>1. ASSUME NEW from, NEW to, Goes(p, from, to, <<>>), Passes(p, <<>>) PROVE Move(p, <<>>)
  BY <1>1, GoesMove DEF Move, Moves
<1>2. CASE Prepare(p)
  <2>1. ASSUME NEW c \in {"zero", "one"}, NEW said, said # {},
               Return(p, "context", c, said, <<>>)
        PROVE  Move(p, <<>>)
    <3>1. Gives(p, <<>>)
      BY <2>1, ReturnMove DEF Gives
    <3> QED BY <2>1, <3>1, ReturnMove DEF Move, Moves
  <2>2. CASE Version(p) \/ Usage(p) \/ NoContext(p)
    <3>1. {"stdout"} # {} /\ {"stderr"} # {} OBVIOUS
    <3> QED BY <2>1, <2>2, <3>1 DEF Version, Usage, NoContext
  <2>3. CASE InitContext(p) \/ InitContextOnly(p)
    <3>1. Passes(p, <<>>)
      BY <2>3, GoesMove DEF InitContext, InitContextOnly, Passes
    <3> QED BY <1>1, <2>3, <3>1 DEF InitContext, InitContextOnly
  <2>4. CASE InvokeSession(p)
    <3>1. PICK force \in BOOLEAN, inherits \in BOOLEAN :
              /\ inherits <=> start[p].how # "alone" /\ ~force
              /\ ses' = [ses EXCEPT ![p] = IF inherits THEN ses[Root] ELSE p]
              /\ mine' = [mine EXCEPT ![p] = ~inherits]
      <4>1. PICK force \in BOOLEAN :
              /\ ses' = [ses EXCEPT ![p] = IF start[p].how # "alone" /\ ~force THEN ses[Root] ELSE p]
              /\ mine' = [mine EXCEPT ![p] = ~(start[p].how # "alone" /\ ~force)]
        BY <2>4 DEF InvokeSession
      <4>2. CASE start[p].how # "alone" /\ ~force
        <5> WITNESS force \in BOOLEAN, TRUE \in BOOLEAN
        <5> QED BY <4>1, <4>2
      <4>3. CASE ~(start[p].how # "alone" /\ ~force)
        <5> WITNESS force \in BOOLEAN, FALSE \in BOOLEAN
        <5> QED BY <4>1, <4>3
      <4> QED BY <4>2, <4>3
    <3> DEFINE e == IF inherits THEN ses[Root] ELSE p
               m == ~inherits
    <3>2. /\ pc[p] = "session" /\ todo[p] = <<>> /\ pc' = [pc EXCEPT ![p] = "connect"]
          /\ ses' = [ses EXCEPT ![p] = e] /\ mine' = [mine EXCEPT ![p] = m]
          /\ UNCHANGED <<start, log, told, code, refs, thread, loggers, todo, onClose>>
      BY <2>4, <3>1 DEF InvokeSession, Step, webVars
    <3>3. \/ m = TRUE /\ e = p
          \/ m = FALSE /\ e = ses[Root] /\ start[p].how # "alone"
      BY <3>1
    <3> HIDE DEF e, m
    <3>4. pc'[p] = "connect" /\ ses'[p] = e /\ mine'[p] = m
      BY <3>2, At
    <3>5. \A r \in Procs : ses'[r] \in Procs
      BY <3>2, <3>3 DEF Typed
    <3>6. Apart(p)
      BY <3>2, <3>5, ApartEnough
    <3>7. Invokes(p, <<>>)
      BY <3>2, <3>3, <3>4 DEF Invokes, SameEnd
    <3> QED BY <3>2, <3>6, <3>7 DEF Move, Moves
  <2> QED BY <1>2, <2>2, <2>3, <2>4 DEF Prepare
<1>3. CASE Converse(p)
  <2>1. CASE NoWebui(p)
    <3>1. Passes(p, <<>>)
      BY <2>1, GoesMove DEF NoWebui, Passes
    <3> QED BY <1>1, <2>1, <3>1 DEF NoWebui
  <2>2. CASE Connect(p)
    <3>1. /\ pc[p] = "connect" /\ todo[p] = <<>> /\ pc' = [pc EXCEPT ![p] = "run"]
          /\ refs' = [refs EXCEPT ![p] = {"main"}]
          /\ UNCHANGED <<start, log, ses, mine, told, code, thread, loggers, todo, onClose>>
      BY <2>2 DEF Connect, Step, idVars
    <3>2. Apart(p) BY <3>1, ApartEnough DEF Typed
    <3>3. pc'[p] = "run" /\ refs'[p] = {"main"} BY <3>1, At
    <3>4. Passes(p, <<>>) BY <3>1, <3>3 DEF Passes, Keeps, SameEnd
    <3> QED BY <3>1, <3>2, <3>3, <3>4 DEF Move, Moves
  <2>3. CASE RunThread(p)
    <3>1. /\ pc[p] = "run" /\ todo[p] = <<>> /\ pc' = [pc EXCEPT ![p] = "running"]
          /\ thread' = [thread EXCEPT ![p] = "runs"]
          /\ UNCHANGED <<start, log, ses, mine, told, code, refs, loggers, todo, onClose>>
      BY <2>3 DEF RunThread, Step, idVars
    <3>2. Apart(p) BY <3>1, ApartEnough DEF Typed
    <3>3. pc'[p] = "running" BY <3>1, At
    <3>4. Passes(p, <<>>) BY <3>1, <3>3 DEF Passes, Keeps, SameEnd
    <3> QED BY <3>1, <3>2, <3>3, <3>4 DEF Move, Moves
  <2>4. CASE InitWebuiLog(p)
    <3>1. PICK made \in BOOLEAN :
           /\ loggers' = [loggers EXCEPT ![p] = IF made THEN @ \cup {"queue"} ELSE @]
           /\ refs' = [refs EXCEPT ![p] = IF made THEN @ \cup {"logger"} ELSE @]
      BY <2>4 DEF InitWebuiLog
    <3> DEFINE l == IF made THEN loggers[p] \cup {"queue"} ELSE loggers[p]
               f == IF made THEN refs[p] \cup {"logger"} ELSE refs[p]
    <3>2. /\ pc[p] = "running" /\ todo[p] = <<>> /\ pc' = [pc EXCEPT ![p] = "cis log"]
          /\ loggers' = [loggers EXCEPT ![p] = l] /\ refs' = [refs EXCEPT ![p] = f]
          /\ UNCHANGED <<start, log, ses, mine, told, code, thread, todo, onClose>>
      BY <2>4, <3>1 DEF InitWebuiLog, Step, idVars
    <3>3. /\ l \in {loggers[p], loggers[p] \cup {"queue"}}
          /\ "logger" \in f => "logger" \in refs[p] \/ "queue" \in l
      OBVIOUS
    <3> HIDE DEF l, f
    <3>4. Apart(p) BY <3>2, ApartEnough DEF Typed
    <3>5. pc'[p] = "cis log" /\ loggers'[p] = l /\ refs'[p] = f BY <3>2, At
    <3>6. Equips(p, <<>>) BY <3>2, <3>3, <3>5 DEF Equips, SameEnd
    <3> QED BY <3>2, <3>3, <3>4, <3>5, <3>6 DEF Move, Moves
  <2> QED BY <1>3, <2>1, <2>2, <2>3, <2>4 DEF Converse
<1>4. CASE MakeLogs(p)
  <2>1. ASSUME NEW from, NEW kind, NEW to, MakeLog(p, from, kind, to), Equips(p, <<>>)
        PROVE  Move(p, <<>>)
    BY <2>1, MakeLogMove DEF Move, Moves
  <2>2. CASE init_cis_log(p)
    <3> DEFINE to == IF Opens(p) THEN "auth" ELSE "main"
    <3>1. CASE MakeLog(p, "cis log", "cis", to)
      <4>1. (to = "auth" /\ Opens(p)) \/ (to = "main" /\ ~Opens(p)) OBVIOUS
      <4> HIDE DEF to
      <4>2. Equips(p, <<>>)
        <5> HIDE DEF From
        <5>1. /\ ses'[p] = ses[p] /\ mine'[p] = mine[p] /\ loggers'[p] = loggers[p] \cup {"cis"}
              /\ SameEnd(p) /\ onClose' = onClose /\ From(p, "cis log", to)
          BY <3>1, MakeLogMove
        <5> QED BY <4>1, <5>1 DEF Equips
      <4> QED BY <2>1, <3>1, <4>2
    <3> QED BY <2>2, <3>1, ExitMove DEF init_cis_log
  <2>3. CASE init_session_log(p)
    <3>1. CASE MakeLog(p, "session log", "session", "offline log")
      <4>1. Equips(p, <<>>)
        <5> HIDE DEF From
        <5>1. /\ ses'[p] = ses[p] /\ mine'[p] = mine[p] /\ loggers'[p] = loggers[p] \cup {"session"}
              /\ SameEnd(p) /\ onClose' = onClose /\ From(p, "session log", "offline log")
          BY <3>1, MakeLogMove
        <5> QED BY <5>1 DEF Equips
      <4> QED BY <2>1, <3>1, <4>1
    <3> QED BY <2>3, <3>1, ExitMove DEF init_session_log
  <2>4. CASE init_offline_webui_log(p)
    <3>1. CASE MakeLog(p, "offline log", "combined", "main")
      <4>1. Equips(p, <<>>)
        <5> HIDE DEF From
        <5>1. /\ ses'[p] = ses[p] /\ mine'[p] = mine[p] /\ loggers'[p] = loggers[p] \cup {"combined"}
              /\ SameEnd(p) /\ onClose' = onClose /\ From(p, "offline log", "main")
          BY <3>1, MakeLogMove
        <5> QED BY <5>1 DEF Equips
      <4> QED BY <2>1, <3>1, <4>1
    <3> QED BY <2>4, <3>1, ExitMove DEF init_offline_webui_log
  <2>5. CASE Authenticate(p)
    <3> DEFINE s == IF refs[p] # {} THEN <<<<"queue", "auth">>>> ELSE <<>>
    <3>1. /\ pc[p] = "auth" /\ todo[p] = <<>> /\ pc' = [pc EXCEPT ![p] = "session log"]
          /\ todo' = [todo EXCEPT ![p] = s]
          /\ UNCHANGED <<start, log, ses, mine, told, code, refs, thread, loggers, onClose>>
      BY <2>5 DEF Authenticate, Step, idVars, webVars
    <3>2. s = <<>> \/ s = <<<<"queue", "auth">>>> OBVIOUS
    <3> HIDE DEF s
    <3>3. Apart(p) BY <3>1, ApartEnough DEF Typed
    <3>4. pc'[p] = "session log" /\ todo'[p] = s BY <3>1, At
    <3>5. Authenticates(p, s) BY <3>1, <3>2, <3>4 DEF Authenticates, Keeps, SameEnd
    <3> QED BY <3>1, <3>3, <3>4, <3>5 DEF Move, Moves
  <2> QED BY <1>4, <2>2, <2>3, <2>4, <2>5 DEF MakeLogs
<1> QED BY <1>2, <1>3, <1>4 DEF Begin

\* and those after it.
LEMMA LeaveMove ==
    ASSUME IInv, Typed, NEW p \in Procs, Local(p), Leave(p) PROVE \E s : Move(p, s)
<1> USE DEF From
<1>1. CASE DropShare(p)
  <2> DEFINE to == IF refs[p] = {"main"} THEN "destroy" ELSE "close"
             f == refs[p] \ {"main"}
  <2>1. /\ pc[p] = "locals" /\ todo[p] = <<>> /\ pc' = [pc EXCEPT ![p] = to]
        /\ refs' = [refs EXCEPT ![p] = f]
        /\ UNCHANGED <<start, log, ses, mine, told, code, thread, loggers, todo, onClose>>
    BY <1>1 DEF DropShare, Step, idVars
  <2>2. to \in {"destroy", "close"} /\ ("logger" \in f => "logger" \in refs[p]) OBVIOUS
  <2> HIDE DEF to, f
  <2>3. Apart(p) BY <2>1, ApartEnough DEF Typed
  <2>4. pc'[p] = to /\ refs'[p] = f BY <2>1, At
  <2>5. Passes(p, <<>>) BY <2>1, <2>2, <2>4 DEF Passes, Keeps, SameEnd
  <2> QED BY <2>1, <2>2, <2>3, <2>4, <2>5 DEF Move, Moves
<1>2. CASE DropLoggers(p)
  <2> DEFINE to == IF refs[p] = {"logger"} THEN "destroy" ELSE "exited"
             f == refs[p] \ {"logger"}
  <2>1. /\ pc[p] = "statics" /\ todo[p] = <<>> /\ pc' = [pc EXCEPT ![p] = to]
        /\ refs' = [refs EXCEPT ![p] = f]
        /\ UNCHANGED <<start, log, ses, mine, told, code, thread, loggers, todo, onClose>>
    BY <1>2 DEF DropLoggers, Step, idVars
  <2>2. /\ to \in {"destroy", "exited"} /\ ("logger" \in f => "logger" \in refs[p])
        /\ to = "destroy" => "logger" \in refs[p]
    <3>1. "logger" \in f => "logger" \in refs[p]
      OBVIOUS
    <3> HIDE DEF f
    <3>2. CASE refs[p] = {"logger"} BY <3>1, <3>2
    <3>3. CASE refs[p] # {"logger"} BY <3>1, <3>3
    <3> QED BY <3>2, <3>3
  <2> HIDE DEF to, f
  <2>3. Apart(p) BY <2>1, ApartEnough DEF Typed
  <2>4. pc'[p] = to /\ refs'[p] = f BY <2>1, At
  <2>5. Passes(p, <<>>) BY <2>1, <2>2, <2>4 DEF Passes, Keeps, SameEnd
  <2> QED BY <2>1, <2>2, <2>3, <2>4, <2>5 DEF Move, Moves
<1>3. CASE Disconnect(p)
  <2>1. /\ pc[p] = "destroy" /\ todo[p] = <<>> /\ pc' = [pc EXCEPT ![p] = "join"]
        /\ UNCHANGED <<start, log, ses, mine, told, code, refs, thread, loggers, todo, onClose>>
    BY <1>3 DEF Disconnect, Step, idVars
  <2>2. Apart(p) BY <2>1, ApartEnough DEF Typed
  <2>3. pc'[p] = "join" BY <2>1, At
  <2>4. Passes(p, <<>>) BY <2>1, <2>3 DEF Passes, Keeps, SameEnd
  <2> QED BY <2>1, <2>2, <2>4 DEF Move, Moves
<1>4. CASE CloseSession(p)
  <2> DEFINE s == IF p \in onClose THEN cis_log(p, "close") ELSE <<>>
  <2>1. /\ Goes(p, "close", "statics", s)
        /\ \/ p \in onClose /\ s = cis_log(p, "close")
           \/ p \notin onClose /\ s = <<>>
    BY <1>4 DEF CloseSession
  <2> HIDE DEF s
  <2>2. Tells(p, s) \/ Passes(p, s)
    BY <2>1, GoesMove DEF Tells, Passes
  <2> QED BY <2>1, <2>2, GoesMove DEF Move, Moves
<1>5. CASE Join(p)
  <2> DEFINE to == IF "queue" \in loggers[p] THEN "exited" ELSE "close"
  <2>1. /\ Goes(p, "join", to, <<>>) /\ to \in {"exited", "close"}
        /\ to = "close" => "queue" \notin loggers[p]
    BY <1>5 DEF Join
  <2> HIDE DEF to
  <2>2. Passes(p, <<>>)
    BY <2>1, GoesMove DEF Passes
  <2> QED BY <2>1, <2>2, GoesMove DEF Move, Moves
<1> QED BY <1>1, <1>2, <1>3, <1>4, <1>5 DEF Leave

-----------------------------------------------------------------------------
(* What the functions record.                                               *)

\* What a sequence after another is.
LEMMA ConcatFacts ==
    ASSUME NEW T, NEW s \in Seq(T), NEW t \in Seq(T)
    PROVE  /\ s \o t \in Seq(T) /\ DOMAIN (s \o t) = 1 .. Len(s) + Len(t)
           /\ Len(s) \in Nat /\ Len(t) \in Nat /\ DOMAIN s = 1 .. Len(s) /\ DOMAIN t = 1 .. Len(t)
           /\ \A i \in 1 .. Len(s) + Len(t) :
                  (s \o t)[i] = IF i <= Len(s) THEN s[i] ELSE t[i - Len(s)]
OBVIOUS

\* What is in a call of a logger: in one of its parts,
LEMMA InConcat ==
    ASSUME NEW T, NEW s \in Seq(T), NEW t \in Seq(T), NEW x
    PROVE  In(s \o t, x) <=> In(s, x) \/ In(t, x)
<1> DEFINE u == s \o t
<1>1. /\ DOMAIN u = 1 .. Len(s) + Len(t)
      /\ Len(s) \in Nat /\ Len(t) \in Nat /\ DOMAIN s = 1 .. Len(s) /\ DOMAIN t = 1 .. Len(t)
      /\ \A i \in 1 .. Len(s) + Len(t) : u[i] = IF i <= Len(s) THEN s[i] ELSE t[i - Len(s)]
  BY ConcatFacts
<1> HIDE DEF u
<1>2. ASSUME In(u, x) PROVE In(s, x) \/ In(t, x)
  <2>1. PICK i \in DOMAIN u : u[i] = x BY <1>2 DEF In
  <2>2. CASE i <= Len(s)
    <3>1. i \in DOMAIN s /\ s[i] = x BY <1>1, <2>1, <2>2
    <3> QED BY <3>1 DEF In
  <2>3. CASE ~(i <= Len(s))
    <3>1. i - Len(s) \in DOMAIN t /\ t[i - Len(s)] = x BY <1>1, <2>1, <2>3
    <3> QED BY <3>1 DEF In
  <2> QED BY <2>2, <2>3
<1>3. ASSUME In(s, x) PROVE In(u, x)
  <2>1. PICK i \in DOMAIN s : s[i] = x BY <1>3 DEF In
  <2>2. i \in DOMAIN u /\ u[i] = x BY <1>1, <2>1
  <2> QED BY <2>2 DEF In
<1>4. ASSUME In(t, x) PROVE In(u, x)
  <2>1. PICK i \in DOMAIN t : t[i] = x BY <1>4 DEF In
  <2>2. i + Len(s) \in DOMAIN u /\ u[i + Len(s)] = x BY <1>1, <2>1
  <2> QED BY <2>2 DEF In
<1> QED BY <1>2, <1>3, <1>4 DEF u

\* and in a part what its logger, if set, is told.
LEMMA InTo ==
    ASSUME NEW p, NEW kind \in Kinds, NEW act \in Acts, NEW k, NEW b
    PROVE  /\ To(p, kind, act) \in Seq(Kinds \X Acts)
           /\ In(To(p, kind, act), <<k, b>>) <=> kind \in loggers[p] /\ k = kind /\ b = act
<1> DEFINE x == <<kind, act>>
<1>1. x \in Kinds \X Acts /\ (<<k, b>> = x <=> k = kind /\ b = act) OBVIOUS
<1> HIDE DEF Kinds, Acts, x
<1>2. <<x>> \in Seq(Kinds \X Acts) /\ DOMAIN <<x>> = {1} /\ <<x>>[1] = x BY <1>1
<1>3. <<>> \in Seq(Kinds \X Acts) /\ DOMAIN <<>> = {} OBVIOUS
<1>4. In(<<x>>, <<k, b>>) <=> <<k, b>> = x BY <1>2 DEF In
<1>5. ~In(<<>>, <<k, b>>) BY <1>3 DEF In
<1> QED BY <1>1, <1>2, <1>3, <1>4, <1>5 DEF To, x

\* Which records a call of a logger makes.
LEMMA InLogs ==
    ASSUME NEW p, NEW act \in Acts, NEW k, NEW b
    PROVE  /\ webui_log(p, act) \in Seq(Kinds \X Acts) /\ cis_log(p, act) \in Seq(Kinds \X Acts)
           /\ session_log(p, act) \in Seq(Kinds \X Acts) /\ tee_log(p, act) \in Seq(Kinds \X Acts)
           /\ In(webui_log(p, act), <<k, b>>) <=>
                  k \in loggers[p] /\ k \in {"queue", "combined"} /\ b = act
           /\ In(cis_log(p, act), <<k, b>>) <=>
                  /\ "cis" \in loggers[p] /\ k \in loggers[p]
                  /\ k \in {"cis", "queue", "combined"} /\ b = act
           /\ In(session_log(p, act), <<k, b>>) <=>
                  /\ "session" \in loggers[p] /\ k \in loggers[p]
                  /\ k \in {"session", "queue", "combined"} /\ b = act
           /\ In(tee_log(p, act), <<k, b>>) <=> k \in loggers[p] /\ k \in Kinds /\ b = act
<1> DEFINE T == Kinds \X Acts
           x == <<k, b>>
<1>1. \A kind \in Kinds : /\ To(p, kind, act) \in Seq(T)
                          /\ In(To(p, kind, act), x) <=> kind \in loggers[p] /\ k = kind /\ b = act
  <2> TAKE kind \in Kinds
  <2>1. To(p, kind, act) \in Seq(Kinds \X Acts)
    BY InTo
  <2>2. In(To(p, kind, act), <<k, b>>) <=> kind \in loggers[p] /\ k = kind /\ b = act
    <3> HIDE DEF T
    <3> QED BY InTo
  <2> QED BY <2>1, <2>2
<1>2. <<>> \in Seq(T) /\ ~In(<<>>, x)
  <2>1. <<>> \in Seq(T) /\ DOMAIN <<>> = {} OBVIOUS
  <2> QED BY <2>1 DEF In
<1> HIDE DEF T, x
<1>3. /\ webui_log(p, act) \in Seq(T)
      /\ In(webui_log(p, act), x) <=> k \in loggers[p] /\ k \in {"queue", "combined"} /\ b = act
  <2>1. "queue" \in Kinds /\ "combined" \in Kinds BY DEF Kinds
  <2>2. In(webui_log(p, act), x) <=> In(To(p, "queue", act), x) \/ In(To(p, "combined", act), x)
    BY <1>1, <2>1, InConcat DEF webui_log
  <2>3. webui_log(p, act) \in Seq(T)
    BY <1>1, <2>1, ConcatFacts DEF webui_log
  <2> QED BY <1>1, <2>1, <2>2, <2>3
<1>4. \A kind \in {"cis", "session"} :
          /\ To(p, kind, act) \o webui_log(p, act) \in Seq(T)
          /\ In(To(p, kind, act) \o webui_log(p, act), x) <=>
                 k \in loggers[p] /\ k \in {kind, "queue", "combined"} /\ b = act
  <2> TAKE kind \in {"cis", "session"}
  <2>1. kind \in Kinds BY DEF Kinds
  <2>2. /\ In(To(p, kind, act) \o webui_log(p, act), x) <=>
               In(To(p, kind, act), x) \/ In(webui_log(p, act), x)
        /\ To(p, kind, act) \o webui_log(p, act) \in Seq(T)
    BY <1>1, <1>3, <2>1, InConcat, ConcatFacts
  <2> QED BY <1>1, <1>3, <2>1, <2>2
<1>5. /\ cis_log(p, act) \in Seq(T)
      /\ In(cis_log(p, act), x) <=>
            /\ "cis" \in loggers[p] /\ k \in loggers[p]
            /\ k \in {"cis", "queue", "combined"} /\ b = act
  BY <1>2, <1>4 DEF cis_log
<1>6. /\ session_log(p, act) \in Seq(T)
      /\ In(session_log(p, act), x) <=>
            /\ "session" \in loggers[p] /\ k \in loggers[p]
            /\ k \in {"session", "queue", "combined"} /\ b = act
  BY <1>2, <1>4 DEF session_log
<1>7. /\ tee_log(p, act) \in Seq(T)
      /\ In(tee_log(p, act), x) <=> k \in loggers[p] /\ k \in Kinds /\ b = act
  <2> DEFINE c == To(p, "cis", act)
             e == To(p, "session", act)
             w == webui_log(p, act)
  <2>1. c \in Seq(T) /\ e \in Seq(T) /\ w \in Seq(T) /\ "cis" \in Kinds /\ "session" \in Kinds
    BY <1>1, <1>3 DEF Kinds
  <2>2. tee_log(p, act) = (c \o e) \o w BY DEF tee_log
  <2>3. /\ In(c, x) <=> "cis" \in loggers[p] /\ k = "cis" /\ b = act
        /\ In(e, x) <=> "session" \in loggers[p] /\ k = "session" /\ b = act
        /\ In(w, x) <=> k \in loggers[p] /\ k \in {"queue", "combined"} /\ b = act
    BY <1>1, <1>3, <2>1
  <2> HIDE DEF c, e, w
  <2>4. c \o e \in Seq(T) BY <2>1, ConcatFacts
  <2>5. (c \o e) \o w \in Seq(T) BY <2>1, <2>4, ConcatFacts
  <2>6. In((c \o e) \o w, x) <=> (In(c, x) \/ In(e, x)) \/ In(w, x)
    BY <2>1, <2>4, InConcat
  <2> QED BY <2>2, <2>3, <2>5, <2>6 DEF Kinds
<1> QED BY <1>3, <1>5, <1>6, <1>7 DEF T, x

-----------------------------------------------------------------------------
(* The steps that are no moves; the stages are kept by all.                 *)

\* The steps of the surroundings, of the connection and a start are idle.
LEMMA IdleSteps ==
    ASSUME IInv, Typed, NEW p \in Procs, Launch(p) \/ Thread(p) \/ ServerCloses(p) \/ Kill(p), IInv'
    PROVE  Idle(p)
<1>1. UNCHANGED <<start, ses, mine, code, told, loggers, onClose, todo, log, refs>>
  BY DEF Launch, Thread, RunReturns, ClearRunning, ServerCloses, Kill, idVars, webVars
<1>2. Functional' BY DEF IInv
<1>3. Typed' BY <1>1 DEF Typed
<1>4. \/ pc' = pc
      \/ pc' = [pc EXCEPT ![p] = "killed"] /\ pc[p] \notin Over \cup {"off"}
      \/ pc' = [pc EXCEPT ![p] = "context"] /\ pc[p] = "off" /\ (start[p].how # "alone" => ScriptRuns)
  BY DEF Launch, Thread, RunReturns, ClearRunning, ServerCloses, Kill, Lives
<1> QED BY <1>1, <1>2, <1>3, <1>4 DEF Idle, IInv, Functional

\* Every record has a log to go to.
LEMMA DestInLogs ==
    ASSUME Typed, Root \in Procs, NEW p \in Procs, NEW kind \in Kinds
    PROVE  /\ Dest(p, kind) \in Logs
           /\ Dest(p, kind)[1] = kind
           /\ kind = "cis" => Dest(p, kind) = <<kind, Root>>
           /\ kind = "queue" => Dest(p, kind) = <<kind, p>>
           /\ kind \in {"session", "combined"} => Dest(p, kind) = <<kind, ses[p]>>
BY DEF Dest, Logs, Kinds, Typed

\* Write writes a record, the next of the call.
LEMMA WriteSteps ==
    ASSUME IInv, Typed, Root \in Procs, NEW p \in Procs, Write(p), IInv'
    PROVE  \E w : Writes(p, w)
<1> DEFINE w == todo[p][1]
<1>1. todo[p] \in Seq(Kinds \X Acts) /\ todo[p] # <<>> /\ pc[p] \notin Over
  BY DEF IInv, Own, Authenticated, Write
<1>2. w \in Kinds \X Acts /\ Head(todo[p]) = w
  <2> HIDE DEF Kinds, Acts
  <2> QED BY <1>1
<1> DEFINE d == Dest(p, w[1])
<1>3. /\ UNCHANGED <<start, ses, mine, code, told, loggers, onClose, refs, pc>>
      /\ todo' = [todo EXCEPT ![p] = Tail(todo[p])]
      /\ log' = [log EXCEPT ![d] = Append(log[d], <<p, w[2]>>)]
  BY <1>2 DEF Write, idVars, webVars
<1>4. d \in Logs /\ w[2] \in Acts BY <1>2, DestInLogs
<1> HIDE DEF w, d
<1>5. \A l \in Logs : log'[l] = IF l = d THEN Append(log[l], <<p, w[2]>>) ELSE log[l]
  BY <1>3, <1>4 DEF IInv, Functional
<1>6. Functional' BY DEF IInv
<1>7. Typed'
  <2>1. <<p, w[2]>> \in Procs \X Acts BY <1>4
  <2>2. \A l \in Logs : log'[l] \in Seq(Procs \X Acts)
    <3> TAKE l \in Logs
    <3> DEFINE T == Procs \X Acts
    <3>1. log[l] \in Seq(T) /\ log[d] \in Seq(T) /\ <<p, w[2]>> \in T
      BY <1>4, <2>1 DEF Typed
    <3> HIDE DEF T
    <3>2. Append(log[d], <<p, w[2]>>) \in Seq(T)
      BY <3>1, AppendFacts
    <3>3. log'[l] \in Seq(T)
      BY <1>5, <3>1, <3>2
    <3> QED BY <3>3 DEF T
  <2> QED BY <1>3, <2>2 DEF Typed
<1>8. todo'[p] = Tail(todo[p]) /\ \A r \in Procs \ {p} : todo'[r] = todo[r]
  BY <1>3 DEF IInv, Functional
<1>9. w = todo[p][1] BY DEF w
<1>10. d = Dest(p, w[1]) BY DEF d
<1>11. Writes(p, w)
  BY <1>1, <1>2, <1>3, <1>5, <1>6, <1>7, <1>8, <1>9, <1>10 DEF Writes
<1> QED BY <1>11

\* Local holds of every process after any step.
LEMMA LocalSteps ==
    ASSUME NEW p \in Procs, NEW s, NEW w, Typed, ses[Root] = Root, \A r \in Procs : Local(r),
           Move(p, s) \/ Idle(p) \/ Writes(p, w), NEW r \in Procs
    PROVE  Local(r)'
<1>1. CASE Move(p, s) /\ r = p
  BY <1>1, PhaseMoves, CodesMoves, BelongsMoves DEF Local
<1>2. CASE (Move(p, s) /\ r # p) \/ Writes(p, w) \/ (Idle(p) /\ pc'[r] = pc[r])
  <2>1. /\ pc'[r] = pc[r] /\ ses'[r] = ses[r] /\ mine'[r] = mine[r] /\ code'[r] = code[r]
        /\ told'[r] = told[r] /\ loggers'[r] = loggers[r] /\ refs'[r] = refs[r]
        /\ (r \in onClose' <=> r \in onClose) /\ start' = start
    BY <1>2 DEF Move, Apart, Writes, Idle
  <2>2. Local(r) OBVIOUS
  <2>3. Phase(r)' BY <2>1, <2>2 DEF Local, Phase, Equipped, Opens
  <2>4. Codes(r)' BY <2>1, <2>2 DEF Local, Codes, Equipped, Opens, StartsDaemon
  <2>5. Belongs(r)' BY <2>1, <2>2 DEF Local, Belongs, Equipped, Opens, Member
  <2> QED BY <2>3, <2>4, <2>5 DEF Local
<1>3. CASE Idle(p) /\ pc'[r] # pc[r]
  <2>1. /\ r = p /\ Local(p) /\ start' = start
        /\ UNCHANGED <<start, ses, mine, code, told, loggers, onClose, refs>>
        /\ \/ pc'[p] = "killed" /\ pc[p] \notin Over \cup {"off"}
           \/ pc'[p] = "context" /\ pc[p] = "off"
    BY <1>3 DEF Idle
  <2> USE DEF Equipped, Opens, Member, Unlogged, Early, Working, Job, Leaving, Over
  <2>2. Phase(p)' BY <2>1 DEF Local, Phase
  <2>3. Codes(p)' BY <2>1 DEF Local, Codes, StartsDaemon
  <2>4. Belongs(p)' BY <2>1 DEF Local, Belongs
  <2> QED BY <2>1, <2>2, <2>3, <2>4 DEF Local
<1> QED BY <1>1, <1>2, <1>3

-----------------------------------------------------------------------------
(* What a step does to the records told and due.                            *)

\* A call of one record.
LEMMA TailOfOne == ASSUME NEW x PROVE Tail(<<x>>) = <<>> /\ <<x>>[1] = x /\ <<x>> # <<>>
OBVIOUS

\* The log that is written gets a record at its end, the others get none.
LEMMA WritesRecords ==
    ASSUME Typed, Root \in Procs, NEW p \in Procs, NEW w, Writes(p, w), NEW l \in Logs
    PROVE  /\ DOMAIN log[l] \subseteq DOMAIN log'[l]
           /\ \A i \in DOMAIN log[l] : log'[l][i] = log[l][i]
           /\ l # Dest(p, w[1]) => log'[l] = log[l]
           /\ l = Dest(p, w[1]) =>
                  /\ DOMAIN log[l] = 1 .. Len(log[l]) /\ Len(log[l]) \in Nat
                  /\ Len(log'[l]) = Len(log[l]) + 1
                  /\ DOMAIN log'[l] = 1 .. Len(log[l]) + 1
                  /\ log'[l][Len(log[l]) + 1] = <<p, w[2]>>
<1> DEFINE T == Procs \X Acts
<1>1. log[l] \in Seq(T) /\ <<p, w[2]>> \in T BY DEF Typed, Writes
<1>2. log'[l] = IF l = Dest(p, w[1]) THEN Append(log[l], <<p, w[2]>>) ELSE log[l]
  BY DEF Writes
<1> HIDE DEF T
<1>3. /\ Append(log[l], <<p, w[2]>>) \in Seq(T)
      /\ DOMAIN Append(log[l], <<p, w[2]>>) = 1 .. Len(log[l]) + 1
      /\ DOMAIN log[l] = 1 .. Len(log[l]) /\ Len(log[l]) \in Nat
      /\ \A i \in 1 .. Len(log[l]) + 1 : Append(log[l], <<p, w[2]>>)[i] =
             IF i = Len(log[l]) + 1 THEN <<p, w[2]>> ELSE log[l][i]
      /\ Len(Append(log[l], <<p, w[2]>>)) = Len(log[l]) + 1
  <2>1. Len(Append(log[l], <<p, w[2]>>)) = Len(log[l]) + 1
    BY <1>1
  <2> QED BY <1>1, <2>1, AppendFacts
<1>4. CASE l = Dest(p, w[1])
  BY <1>2, <1>3, <1>4
<1>5. CASE l # Dest(p, w[1])
  BY <1>2, <1>5
<1> QED BY <1>4, <1>5

\* A process that has not all its logs has told them nothing.
LEMMA SilentSteps ==
    ASSUME NEW p \in Procs, NEW s, NEW w, Typed, Root \in Procs, \A r \in Procs : Silent(r),
           Move(p, s) \/ Idle(p) \/ Writes(p, w), NEW r \in Procs
    PROVE  Silent(r)'
<1>0. Silent(r) OBVIOUS
<1>1. CASE Move(p, s)
  <2>1. log' = log BY <1>1 DEF Move
  <2>2. CASE r = p
    <3> SUFFICES ASSUME pc'[p] \in Fresh PROVE Silent(p)'
      BY <2>2 DEF Silent
    <3> USE DEF Fresh, Early, Unlogged, From
    <3>1. Passes(p, s) \/ Invokes(p, s) \/ Equips(p, s) \/ Authenticates(p, s)
      <4> USE DEF Working
      <4>1. CASE Gives(p, s) \/ Quits(p, s) \/ Crashes(p, s)
        BY <4>1 DEF Gives, Quits, Crashes
      <4>2. CASE Reports(p, s) \/ Complains(p, s)
        BY <4>2 DEF Reports, Complains
      <4>3. CASE Tells(p, s) \/ Calls(p, s) \/ OpensIt(p, s)
        BY <4>3 DEF Tells, Calls, OpensIt
      <4> QED BY <1>1, <4>1, <4>2, <4>3 DEF Move, Moves
    <3>2. pc[p] \in Fresh /\ (s = <<>> \/ s = <<<<"queue", "auth">>>>)
      BY <3>1 DEF Passes, Invokes, Equips, Authenticates
    <3>3. todo'[p] = s BY <1>1 DEF Move
    <3>4. NoRecord(p)' BY <1>0, <2>1, <2>2, <3>2 DEF Silent, NoRecord
    <3> QED BY <3>2, <3>3, <3>4 DEF Silent, AuthDue
  <2>3. CASE r # p
    BY <1>0, <1>1, <2>1, <2>3 DEF Move, Apart, Silent, NoRecord, AuthDue
  <2> QED BY <2>2, <2>3
<1>2. CASE Idle(p)
  <2>1. pc'[r] \in Fresh => pc[r] \in Fresh
    BY <1>2 DEF Idle, Fresh, Early, Unlogged
  <2> QED BY <1>0, <1>2, <2>1 DEF Idle, Silent, NoRecord, AuthDue
<1>3. CASE Writes(p, w)
  <2> SUFFICES ASSUME pc'[r] \in Fresh PROVE Silent(r)'
    BY DEF Silent
  <2>1. pc[r] \in Fresh /\ NoRecord(r) /\ (todo[r] = <<>> \/ AuthDue(r))
    BY <1>0, <1>3 DEF Writes, Silent
  <2>2. CASE r = p
    <3>1. w = <<"queue", "auth">> /\ todo'[p] = <<>>
      BY <1>3, <2>1, <2>2, TailOfOne DEF Writes, AuthDue
    <3>2. \A l \in Logs : l[1] # "queue" => l # Dest(p, w[1])
      BY <3>1 DEF Dest
    <3>3. \A l \in Logs : l[1] # "queue" => log'[l] = log[l]
      BY <1>3, <3>2, WritesRecords
    <3> QED BY <2>1, <2>2, <3>1, <3>3 DEF Silent, NoRecord
  <2>3. CASE r # p
    <3>1. ASSUME NEW l \in Logs, l[1] # "queue", NEW i \in DOMAIN log'[l] PROVE log'[l][i][1] # r
      <4>1. CASE i \in DOMAIN log[l]
        BY <1>3, <2>1, <3>1, <4>1, WritesRecords DEF NoRecord
      <4>2. CASE i \notin DOMAIN log[l]
        <5>1. l = Dest(p, w[1]) BY <1>3, <3>1, <4>2, WritesRecords
        <5>2. i = Len(log[l]) + 1 /\ log'[l][i] = <<p, w[2]>>
          BY <1>3, <3>1, <4>2, <5>1, WritesRecords
        <5> QED BY <2>3, <5>2
      <4> QED BY <4>1, <4>2
    <3>2. todo'[r] = todo[r] BY <1>3, <2>3 DEF Writes
    <3> QED BY <2>1, <3>1, <3>2 DEF Silent, NoRecord, AuthDue
  <2> QED BY <2>2, <2>3
<1> QED BY <1>1, <1>2, <1>3

\* A move leaves what was told; what it starts to record is noted.
LEMMA NotedMove ==
    ASSUME NEW p \in Procs, NEW s, Typed, Root \in Procs, Silent(p), Move(p, s),
           NEW q \in Procs, NEW kind \in Kinds, NEW act
    PROVE  /\ Told(q, kind, act)' <=> Told(q, kind, act)
           /\ q # p => (Noted(q, kind, act)' <=> Noted(q, kind, act))
           /\ q = p => /\ Noted(q, kind, act) <=> Told(q, kind, act)
                       /\ Noted(q, kind, act)' <=> Told(q, kind, act) \/ In(s, <<kind, act>>)
<1>1. /\ log' = log /\ todo[p] = <<>> /\ todo'[p] = s
      /\ q # p => todo'[q] = todo[q] /\ ses'[q] = ses[q]
  BY DEF Move, Apart
<1>2. Told(q, kind, act)' <=> Told(q, kind, act)
  <2>1. CASE ses'[q] = ses[q]
    <3>1. Dest(q, kind)' = Dest(q, kind) BY <2>1 DEF Dest
    <3> QED BY <1>1, <3>1 DEF Told
  <2>2. CASE ses'[q] # ses[q] /\ kind \in {"cis", "queue"}
    <3>1. Dest(q, kind)' = Dest(q, kind) BY <2>2 DEF Dest
    <3> QED BY <1>1, <3>1 DEF Told
  <2>3. CASE ses'[q] # ses[q] /\ kind \notin {"cis", "queue"}
    <3>1. q = p BY <1>1, <2>3
    <3>2. pc[p] = "session"
      BY <2>3, <3>1 DEF Move, Moves, Passes, Invokes, Equips, Authenticates, Gives, Quits, Crashes,
         Reports, Complains, Tells, Calls, OpensIt, Keeps, From
    <3>3. NoRecord(p) BY <3>2 DEF Silent, Fresh, Early, Unlogged
    <3>4. Typed' BY DEF Move, Apart
    <3>5. /\ Dest(p, kind) \in Logs /\ Dest(p, kind)[1] # "queue"
          /\ Dest(p, kind)' \in Logs /\ (Dest(p, kind)')[1] # "queue"
      BY <2>3, <3>4 DEF Dest, Logs, Typed, Kinds
    <3> DEFINE d == Dest(p, kind)
               e == Dest(p, kind)'
    <3>6. \A i \in DOMAIN log[d] : log[d][i] # <<p, act>>
      BY <3>3, <3>5 DEF NoRecord
    <3>7. \A i \in DOMAIN log[e] : log[e][i] # <<p, act>>
      BY <3>3, <3>5 DEF NoRecord
    <3> QED BY <1>1, <3>1, <3>6, <3>7 DEF Told
  <2> QED BY <2>1, <2>2, <2>3
<1>3. q # p => (Due(q, kind, act)' <=> Due(q, kind, act)) BY <1>1 DEF Due
<1>4. q = p => ~Due(q, kind, act) /\ (Due(q, kind, act)' <=> In(s, <<kind, act>>))
  <2>1. DOMAIN <<>> = {} OBVIOUS
  <2>2. q = p => ~Due(q, kind, act) BY <1>1, <2>1 DEF Due
  <2>3. q = p => (Due(q, kind, act)' <=> In(s, <<kind, act>>)) BY <1>1 DEF Due, In
  <2> QED BY <2>2, <2>3
<1>5. CASE q # p BY <1>2, <1>3, <1>5 DEF Noted
<1>6. CASE q = p
  <2>1. Noted(q, kind, act) <=> Told(q, kind, act) BY <1>4, <1>6 DEF Noted, Told
  <2>2. Noted(q, kind, act)' <=> Told(q, kind, act) \/ In(s, <<kind, act>>)
    BY <1>2, <1>4, <1>6 DEF Noted
  <2> QED BY <1>2, <1>6, <2>1, <2>2
<1> QED BY <1>2, <1>5, <1>6

\* An idle step notes and tells nothing.
LEMMA NotedIdle ==
    ASSUME NEW p \in Procs, Idle(p), NEW q \in Procs, NEW kind, NEW act
    PROVE  /\ Told(q, kind, act)' <=> Told(q, kind, act)
           /\ Noted(q, kind, act)' <=> Noted(q, kind, act)
<1>1. log' = log /\ todo' = todo /\ Dest(q, kind)' = Dest(q, kind)
  BY DEF Idle, Dest
<1> QED BY <1>1 DEF Told, Noted, Due

\* What Tail leaves of a sequence.
LEMMA HeadAndTail ==
    ASSUME NEW T, NEW t \in Seq(T), t # <<>>, NEW u, u = Tail(t)
    PROVE  /\ 1 \in DOMAIN t /\ u \in Seq(T) /\ Len(u) = Len(t) - 1 /\ Len(t) \in Nat
           /\ DOMAIN t = 1 .. Len(t) /\ DOMAIN u = 1 .. Len(t) - 1
           /\ \A i \in DOMAIN u : i + 1 \in DOMAIN t /\ u[i] = t[i + 1]
           /\ \A i \in DOMAIN t : i = 1 \/ (i - 1 \in DOMAIN u /\ u[i - 1] = t[i])
<1>1. Len(t) \in Nat /\ DOMAIN t = 1 .. Len(t) /\ Len(t) # 0
  OBVIOUS
<1>2. u \in Seq(T) /\ Len(u) = Len(t) - 1
  OBVIOUS
<1>3. DOMAIN u = 1 .. Len(t) - 1
  BY <1>2
<1>4. \A i \in 1 .. Len(t) - 1 : u[i] = t[i + 1]
  OBVIOUS
<1> DEFINE n == Len(t)
<1>5. /\ n \in Nat /\ DOMAIN t = 1 .. n /\ n # 0 /\ DOMAIN u = 1 .. n - 1
      /\ \A i \in 1 .. n - 1 : u[i] = t[i + 1]
  BY <1>1, <1>3, <1>4
<1> HIDE DEF n
<1>6. \A i \in DOMAIN u : i + 1 \in DOMAIN t /\ u[i] = t[i + 1]
  BY <1>5
<1>7. ASSUME NEW i \in DOMAIN t, i # 1 PROVE i - 1 \in DOMAIN u /\ u[i - 1] = t[i]
  <2>1. i - 1 \in 1 .. n - 1 /\ (i - 1) + 1 = i BY <1>5, <1>7
  <2> QED BY <1>5, <2>1
<1>8. 1 \in DOMAIN t BY <1>5
<1> QED BY <1>2, <1>5, <1>6, <1>7, <1>8 DEF n

\* Writing tells what was due: what is noted stays the same.
LEMMA NotedWrites ==
    ASSUME NEW p \in Procs, NEW w, Typed, Root \in Procs, todo[p] \in Seq(Kinds \X Acts),
           Writes(p, w), NEW q \in Procs, NEW kind \in Kinds, NEW act
    PROVE  /\ Told(q, kind, act) => Told(q, kind, act)'
           /\ Told(q, kind, act)' => Told(q, kind, act) \/ (q = p /\ w = <<kind, act>>)
           /\ q = p /\ w = <<kind, act>> => Told(q, kind, act)'
           /\ Noted(q, kind, act)' <=> Noted(q, kind, act)
<1> DEFINE d == Dest(q, kind)
           e == Dest(p, w[1])
<1>1. d \in Logs /\ Dest(q, kind)' = d /\ e \in Logs /\ w[1] \in Kinds
  BY DestInLogs DEF Writes, Dest
<1>2. w = <<w[1], w[2]>> BY DEF Writes
<1>3. q = p /\ d = e => w[1] = kind
  BY <1>1, DestInLogs
<1>4. w[1] = kind /\ q = p => d = e
  OBVIOUS
<1>5. (Told(q, kind, act) <=> \E i \in DOMAIN log[d] : log[d][i] = <<q, act>>)
      /\ (Told(q, kind, act)' <=> \E i \in DOMAIN log'[d] : log'[d][i] = <<q, act>>)
  BY <1>1 DEF Told
<1>51. e = Dest(p, w[1]) OBVIOUS
<1> HIDE DEF d, e
<1>6. /\ DOMAIN log[d] \subseteq DOMAIN log'[d]
      /\ \A i \in DOMAIN log[d] : log'[d][i] = log[d][i]
      /\ d # e => log'[d] = log[d]
      /\ d = e => /\ DOMAIN log[d] = 1 .. Len(log[d]) /\ Len(log[d]) \in Nat
                  /\ DOMAIN log'[d] = 1 .. Len(log[d]) + 1
                  /\ log'[d][Len(log[d]) + 1] = <<p, w[2]>>
  BY <1>1, <1>51, WritesRecords
<1>7. Told(q, kind, act) => Told(q, kind, act)'
  BY <1>5, <1>6
<1>8. ASSUME Told(q, kind, act)', ~Told(q, kind, act) PROVE q = p /\ w = <<kind, act>>
  <2>1. PICK i \in DOMAIN log'[d] : log'[d][i] = <<q, act>> BY <1>5, <1>8
  <2>2. i \notin DOMAIN log[d] BY <1>5, <1>6, <1>8, <2>1
  <2>3. d = e BY <1>6, <2>1, <2>2
  <2>4. i = Len(log[d]) + 1 BY <1>6, <2>1, <2>2, <2>3
  <2>5. <<q, act>> = <<p, w[2]>> BY <1>6, <2>1, <2>3, <2>4
  <2> QED BY <1>2, <1>3, <2>3, <2>5
<1>9. ASSUME q = p, w = <<kind, act>> PROVE Told(q, kind, act)'
  <2>1. d = e /\ w[2] = act BY <1>4, <1>9
  <2>2. Len(log[d]) + 1 \in DOMAIN log'[d] /\ log'[d][Len(log[d]) + 1] = <<q, act>>
    BY <1>6, <1>9, <2>1
  <2> QED BY <1>5, <2>2
<1>10. q # p => (Due(q, kind, act)' <=> Due(q, kind, act))
  BY DEF Due, Writes
<1>11. q = p => (Due(q, kind, act) <=> w = <<kind, act>> \/ Due(q, kind, act)')
  <2> DEFINE t == todo[p]
             u == todo'[p]
             T == Kinds \X Acts
  <2>1. t \in Seq(T) /\ t # <<>> /\ u = Tail(t) /\ w = t[1] BY DEF Writes
  <2> HIDE DEF T, t, u
  <2>2. /\ 1 \in DOMAIN t
        /\ \A i \in DOMAIN u : i + 1 \in DOMAIN t /\ u[i] = t[i + 1]
        /\ \A i \in DOMAIN t : i = 1 \/ (i - 1 \in DOMAIN u /\ u[i - 1] = t[i])
    BY <2>1, HeadAndTail
  <2>3. ASSUME NEW x PROVE (\E i \in DOMAIN t : t[i] = x) <=> (w = x \/ \E i \in DOMAIN u : u[i] = x)
    <3>1. ASSUME NEW i \in DOMAIN t, t[i] = x PROVE w = x \/ \E j \in DOMAIN u : u[j] = x
      <4>1. CASE i = 1 BY <2>1, <3>1, <4>1
      <4>2. CASE i - 1 \in DOMAIN u /\ u[i - 1] = t[i] BY <3>1, <4>2
      <4> QED BY <2>2, <4>1, <4>2
    <3>2. ASSUME NEW i \in DOMAIN u, u[i] = x PROVE \E j \in DOMAIN t : t[j] = x
      BY <2>2, <3>2
    <3>3. w = x => \E j \in DOMAIN t : t[j] = x
      BY <2>1, <2>2
    <3> QED BY <3>1, <3>2, <3>3
  <2> QED BY <2>3 DEF Due, t, u
<1> QED BY <1>7, <1>8, <1>9, <1>10, <1>11 DEF Noted

-----------------------------------------------------------------------------
(* What a main has to record where it stands.                               *)

\* What each function of the loggers has in a call.
LEMMA InWebui ==
    ASSUME NEW p, NEW act \in Acts
    PROVE  /\ webui_log(p, act) \in Seq(Kinds \X Acts)
           /\ \A k, b : In(webui_log(p, act), <<k, b>>) <=>
                          k \in loggers[p] /\ k \in {"queue", "combined"} /\ b = act
<1>1. webui_log(p, act) \in Seq(Kinds \X Acts) BY InLogs
<1>2. ASSUME NEW k, NEW b
      PROVE  In(webui_log(p, act), <<k, b>>) <=>
                 k \in loggers[p] /\ k \in {"queue", "combined"} /\ b = act
  BY InLogs
<1> QED BY <1>1, <1>2

LEMMA InCis ==
    ASSUME NEW p, NEW act \in Acts
    PROVE  /\ cis_log(p, act) \in Seq(Kinds \X Acts)
           /\ \A k, b : In(cis_log(p, act), <<k, b>>) <=>
                          /\ "cis" \in loggers[p] /\ k \in loggers[p]
                             /\ k \in {"cis", "queue", "combined"} /\ b = act
<1>1. cis_log(p, act) \in Seq(Kinds \X Acts) BY InLogs
<1>2. ASSUME NEW k, NEW b
      PROVE  In(cis_log(p, act), <<k, b>>) <=>
                             /\ "cis" \in loggers[p] /\ k \in loggers[p]
                             /\ k \in {"cis", "queue", "combined"} /\ b = act
  BY InLogs
<1> QED BY <1>1, <1>2

LEMMA InSession ==
    ASSUME NEW p, NEW act \in Acts
    PROVE  /\ session_log(p, act) \in Seq(Kinds \X Acts)
           /\ \A k, b : In(session_log(p, act), <<k, b>>) <=>
                          /\ "session" \in loggers[p] /\ k \in loggers[p]
                             /\ k \in {"session", "queue", "combined"} /\ b = act
<1>1. session_log(p, act) \in Seq(Kinds \X Acts) BY InLogs
<1>2. ASSUME NEW k, NEW b
      PROVE  In(session_log(p, act), <<k, b>>) <=>
                             /\ "session" \in loggers[p] /\ k \in loggers[p]
                             /\ k \in {"session", "queue", "combined"} /\ b = act
  BY InLogs
<1> QED BY <1>1, <1>2

LEMMA InTee ==
    ASSUME NEW p, NEW act \in Acts
    PROVE  /\ tee_log(p, act) \in Seq(Kinds \X Acts)
           /\ \A k, b : In(tee_log(p, act), <<k, b>>) <=>
                          k \in loggers[p] /\ k \in Kinds /\ b = act
<1>1. tee_log(p, act) \in Seq(Kinds \X Acts) BY InLogs
<1>2. ASSUME NEW k, NEW b
      PROVE  In(tee_log(p, act), <<k, b>>) <=>
                 k \in loggers[p] /\ k \in Kinds /\ b = act
  BY InLogs
<1> QED BY <1>1, <1>2

\* What a main has to record where it stands.
LEMMA Recorded ==
    ASSUME NEW p \in Procs, NEW s, Local(p), Move(p, s), NEW k, NEW a
    PROVE  /\ s \in Seq(Kinds \X Acts)
           /\ Opens(p) /\ k \in {"cis", "session"} /\ In(s, <<k, a>>) => In(s, <<"combined", a>>)
           /\ In(s, <<k, "error">>) => Reports(p, s) \/ Complains(p, s)
           /\ In(s, <<"combined", a>>) => "combined" \in loggers[p]
           /\ In(s, <<k, "start_job">>) => pc[p] = "build" /\ pc'[p] = "execute"
           /\ In(s, <<k, "close">>) => From(p, "close", "statics") /\ p \in onClose
<1> USE DEF From
<1>1. Phase(p) /\ Belongs(p) BY DEF Local
<1>2. <<>> \in Seq(Kinds \X Acts) /\ \A x : ~In(<<>>, x)
  <2>1. DOMAIN <<>> = {} OBVIOUS
  <2>2. <<>> \in Seq(Kinds \X Acts)
    <3> HIDE DEF Kinds, Acts
    <3> QED OBVIOUS
  <2> QED BY <2>1, <2>2 DEF In
<1>3. CASE s = <<>>
  BY <1>2, <1>3
<1>4. CASE s = <<<<"queue", "auth">>>>
  <2>1. s \in Seq(Kinds \X Acts)
    <3>1. <<"queue", "auth">> \in Kinds \X Acts BY DEF Kinds, Acts
    <3> HIDE DEF Kinds, Acts
    <3> QED BY <1>4, <3>1
  <2>2. \A x : In(s, x) <=> x = <<"queue", "auth">>
    <3>1. DOMAIN s = {1} /\ s[1] = <<"queue", "auth">> BY <1>4
    <3> QED BY <3>1 DEF In
  <2>3. \A x, y : In(s, <<x, y>>) <=> x = "queue" /\ y = "auth"
    BY <2>2
  <2> QED BY <2>1, <2>3
<1>5. CASE Reports(p, s)
  <2>1. pc[p] \in Working /\ Opens(p) /\ "combined" \in loggers[p]
    BY <1>1, <1>5 DEF Reports, Phase, Job, Working, Opens, OpeningPrograms, Equipped
  <2>2. s = tee_log(p, "error") BY <1>5 DEF Reports
  <2>3. "error" \in Acts BY DEF Acts
  <2>4. s \in Seq(Kinds \X Acts) BY <2>2, <2>3, InTee
  <2>5. \A x, y : In(s, <<x, y>>) <=> x \in loggers[p] /\ x \in Kinds /\ y = "error"
    BY <2>2, <2>3, InTee
  <2> QED BY <1>5, <2>1, <2>4, <2>5 DEF Kinds
<1>6. CASE Complains(p, s)
  <2>1. s = cis_log(p, "error") /\ ~Opens(p) BY <1>6 DEF Complains, Opens, OpeningPrograms
  <2>2. "error" \in Acts BY DEF Acts
  <2>3. s \in Seq(Kinds \X Acts) BY <2>1, <2>2, InCis
  <2>4. \A x, y : In(s, <<x, y>>) <=> /\ "cis" \in loggers[p] /\ x \in loggers[p]
                                      /\ x \in {"cis", "queue", "combined"} /\ y = "error"
    BY <2>1, <2>2, InCis
  <2> QED BY <1>6, <2>1, <2>3, <2>4
<1>7. CASE Calls(p, s)
  <2>1. s = session_log(p, "called") /\ "combined" \in loggers[p]
    BY <1>1, <1>7 DEF Calls, Phase, Working, Equipped
  <2>2. "called" \in Acts BY DEF Acts
  <2>3. s \in Seq(Kinds \X Acts) BY <2>1, <2>2, InSession
  <2>4. \A x, y : In(s, <<x, y>>) <=> /\ "session" \in loggers[p] /\ x \in loggers[p]
                                      /\ x \in {"session", "queue", "combined"} /\ y = "called"
    BY <2>1, <2>2, InSession
  <2> QED BY <2>1, <2>3, <2>4
<1>8. CASE Tells(p, s)
  <2>1. "combined" \in loggers[p] \/ pc[p] # "build" \/ ~Opens(p)
    BY <1>1 DEF Phase, Working, Equipped
  <2>2. CASE s = session_log(p, "start_job") /\ From(p, "build", "execute")
    <3>1. "combined" \in loggers[p]
      BY <1>1, <2>2 DEF Phase, Working, Equipped, Job, Opens, OpeningPrograms
    <3>2. "start_job" \in Acts BY DEF Acts
    <3>3. s \in Seq(Kinds \X Acts) BY <2>2, <3>2, InSession
    <3>4. \A x, y : In(s, <<x, y>>) <=> /\ "session" \in loggers[p] /\ x \in loggers[p]
                                        /\ x \in {"session", "queue", "combined"} /\ y = "start_job"
      BY <2>2, <3>2, InSession
    <3> QED BY <2>2, <3>1, <3>3, <3>4
  <2>3. CASE s = session_log(p, "finish_job") /\ pc[p] = "execute"
    <3>1. "combined" \in loggers[p]
      BY <1>1, <2>3 DEF Phase, Working, Equipped, Job, Opens, OpeningPrograms
    <3>2. "finish_job" \in Acts BY DEF Acts
    <3>3. s \in Seq(Kinds \X Acts) BY <2>3, <3>2, InSession
    <3>4. \A x, y : In(s, <<x, y>>) <=> /\ "session" \in loggers[p] /\ x \in loggers[p]
                                        /\ x \in {"session", "queue", "combined"} /\ y = "finish_job"
      BY <2>3, <3>2, InSession
    <3> QED BY <2>3, <3>1, <3>3, <3>4
  <2>4. CASE s = webui_log(p, "done") \o webui_log(p, "done")
    <3>1. "done" \in Acts BY DEF Acts
    <3>2. webui_log(p, "done") \in Seq(Kinds \X Acts) BY <3>1, InWebui
    <3>3. s \in Seq(Kinds \X Acts) BY <2>4, <3>2, ConcatFacts
    <3>4. \A x, y : In(webui_log(p, "done"), <<x, y>>) <=>
                        x \in loggers[p] /\ x \in {"queue", "combined"} /\ y = "done"
      BY <3>1, InWebui
    <3>5. \A z : In(s, z) <=> In(webui_log(p, "done"), z) \/ In(webui_log(p, "done"), z)
      BY <2>4, <3>2, InConcat
    <3>6. \A x, y : In(s, <<x, y>>) <=>
                        x \in loggers[p] /\ x \in {"queue", "combined"} /\ y = "done"
      BY <3>4, <3>5
    <3> HIDE DEF From
    <3>7. k \in {"cis", "session"} => ~In(s, <<k, a>>) BY <3>6
    <3>8. In(s, <<"combined", a>>) => "combined" \in loggers[p] BY <3>6
    <3>9. ~In(s, <<k, "error">>) /\ ~In(s, <<k, "start_job">>) /\ ~In(s, <<k, "close">>) BY <3>6
    <3> QED BY <3>3, <3>7, <3>8, <3>9
  <2>5. CASE s = cis_log(p, "close") /\ From(p, "close", "statics") /\ p \in onClose
    <3>0. s = cis_log(p, "close") BY <2>5
    <3>1. "combined" \in loggers[p] BY <1>1, <2>5 DEF Belongs, Equipped
    <3>2. "close" \in Acts BY DEF Acts
    <3>3. s \in Seq(Kinds \X Acts) BY <3>0, <3>2, InCis
    <3>4. \A x, y : In(s, <<x, y>>) <=> /\ "cis" \in loggers[p] /\ x \in loggers[p]
                                        /\ x \in {"cis", "queue", "combined"} /\ y = "close"
      BY <3>0, <3>2, InCis
    <3>5. k \in {"cis", "session"} /\ In(s, <<k, a>>) => In(s, <<"combined", a>>)
      BY <3>1, <3>4
    <3>6. ~In(s, <<k, "error">>) /\ ~In(s, <<k, "start_job">>) BY <3>4
    <3> HIDE DEF From
    <3>7. From(p, "close", "statics") /\ p \in onClose BY <2>5
    <3> QED BY <3>1, <3>3, <3>5, <3>6, <3>7
  <2>6. CASE s = cis_log(p, "unstarted") /\ pc[p] = "serve"
    <3>1. "unstarted" \in Acts /\ ~Opens(p) BY <1>1, <2>6 DEF Acts, Phase
    <3>2. s \in Seq(Kinds \X Acts) BY <2>6, <3>1, InCis
    <3>3. \A x, y : In(s, <<x, y>>) <=> /\ "cis" \in loggers[p] /\ x \in loggers[p]
                                        /\ x \in {"cis", "queue", "combined"} /\ y = "unstarted"
      BY <2>6, <3>1, InCis
    <3> QED BY <3>1, <3>2, <3>3
  <2> QED BY <1>8, <2>2, <2>3, <2>4, <2>5, <2>6 DEF Tells
<1>9. CASE OpensIt(p, s)
  <2> DEFINE c == cis_log(p, "open")
             w == webui_log(p, "id")
  <2>1. "combined" \in loggers[p]
    BY <1>1, <1>9 DEF OpensIt, StartJobOf, Phase, Working, Equipped, Opens, OpeningPrograms
  <2>2. "open" \in Acts /\ "id" \in Acts BY DEF Acts
  <2>3. c \in Seq(Kinds \X Acts) /\ w \in Seq(Kinds \X Acts) BY <2>2, InCis, InWebui
  <2>4. \A x, y : In(c, <<x, y>>) <=> /\ "cis" \in loggers[p] /\ x \in loggers[p]
                                      /\ x \in {"cis", "queue", "combined"} /\ y = "open"
    BY <2>2, InCis, InWebui
  <2>5. \A x, y : In(w, <<x, y>>) <=> x \in loggers[p] /\ x \in {"queue", "combined"} /\ y = "id"
    BY <2>2, InCis, InWebui
  <2>6. s = c \o w BY <1>9 DEF OpensIt
  <2> HIDE DEF c, w
  <2>7. s \in Seq(Kinds \X Acts) BY <2>3, <2>6, ConcatFacts
  <2>8. \A z : In(s, z) <=> In(c, z) \/ In(w, z)
    BY <2>3, <2>6, InConcat
  <2>9. \A x, y : In(s, <<x, y>>) <=> In(c, <<x, y>>) \/ In(w, <<x, y>>)
    BY <2>8
  <2> QED BY <2>1, <2>4, <2>5, <2>7, <2>9
<1>10. CASE Passes(p, s) \/ Invokes(p, s) \/ Equips(p, s) \/ Gives(p, s) \/ Quits(p, s) \/ Crashes(p, s)
  BY <1>3, <1>10 DEF Passes, Invokes, Equips, Gives, Quits, Crashes
<1>11. CASE Authenticates(p, s)
  BY <1>3, <1>4, <1>11 DEF Authenticates
<1> QED BY <1>5, <1>6, <1>7, <1>8, <1>9, <1>10, <1>11 DEF Move, Moves

-----------------------------------------------------------------------------
(* Errors, and the logs of the same story.                                  *)

\* After a move each log still has the error of a process if it failed.
LEMMA NotingMove ==
    ASSUME NEW p \in Procs, NEW s, Typed, Root \in Procs, Silent(p), Local(p), Local(p)',
           Noting(p), Move(p, s)
    PROVE  Noting(p)'
<1> USE DEF From
<1>1. /\ Phase(p) /\ Codes(p) /\ Phase(p)' /\ Codes(p)' /\ Opens(p)' = Opens(p)
      /\ todo[p] = <<>> /\ todo'[p] = s /\ Moves(p, s)
  BY DEF Local, Move, Apart, Opens
<1>2. \A kind \in Kinds : \A act :
          /\ Noted(p, kind, act) <=> Told(p, kind, act)
          /\ Noted(p, kind, act)' <=> Told(p, kind, act) \/ In(s, <<kind, act>>)
  BY NotedMove
<1>3. Teed(p)'
  <2> SUFFICES ASSUME Opens(p), NEW kind \in {"cis", "session"}, NEW act \in Acts,
                      Noted(p, kind, act)'
               PROVE  Noted(p, "combined", act)'
    BY <1>1 DEF Teed
  <2>1. kind \in Kinds /\ "combined" \in Kinds BY DEF Kinds
  <2>2. CASE Told(p, kind, act)
    <3>1. Noted(p, "combined", act) BY <1>2, <2>1, <2>2 DEF Noting, Teed
    <3> QED BY <1>2, <2>1, <3>1
  <2>3. CASE In(s, <<kind, act>>)
    <3>1. In(s, <<"combined", act>>) BY <2>3, Recorded
    <3> QED BY <1>2, <2>1, <3>1
  <2> QED BY <1>2, <2>1, <2>2, <2>3
<1>4. pc'[p] = "exited" => todo'[p] = <<>>
  <2> SUFFICES ASSUME pc'[p] = "exited" PROVE s = <<>>
    BY <1>1
  <2>1. CASE Passes(p, s) \/ Invokes(p, s) \/ Equips(p, s) \/ Gives(p, s) \/ Quits(p, s) \/ Crashes(p, s)
    BY <2>1 DEF Passes, Invokes, Equips, Gives, Quits, Crashes
  <2>2. CASE Authenticates(p, s) \/ Reports(p, s) \/ Complains(p, s)
    BY <2>2 DEF Authenticates, Reports, Complains
  <2>3. CASE Tells(p, s) \/ Calls(p, s) \/ OpensIt(p, s)
    BY <2>3 DEF Tells, Calls, OpensIt
  <2> QED BY <1>1, <2>1, <2>2, <2>3 DEF Moves
<1>5. Erred(p)'
  <2> SUFFICES ASSUME NEW kind \in {"cis", "session", "combined"}
               PROVE  IF Equipped(p)' THEN Noted(p, kind, "error")' <=> Failed(p)'
                      ELSE Noted(p, kind, "error")' => kind = "cis" /\ FailedCron(p)'
    BY DEF Erred
  <2>1. /\ kind \in Kinds
        /\ Noted(p, kind, "error") <=> Told(p, kind, "error")
        /\ Noted(p, kind, "error")' <=> Told(p, kind, "error") \/ In(s, <<kind, "error">>)
    BY <1>2 DEF Kinds
  <2>2. In(s, <<kind, "error">>) => Reports(p, s) \/ Complains(p, s)
    BY Recorded
  <2>3. CASE Equipped(p) /\ Equipped(p)'
    <3> SUFFICES Noted(p, kind, "error")' <=> Failed(p)' BY <2>3
    <3>1. Noted(p, kind, "error") <=> Failed(p) BY <2>3 DEF Noting, Erred
    <3>2. Opens(p) /\ pc[p] \notin Early \cup {"session log", "offline log"}
      BY <1>1, <2>3 DEF Phase, Equipped
    <3>3. CASE SameEnd(p) /\ ~Reports(p, s) /\ ~Complains(p, s)
      <4>1. Failed(p)' <=> Failed(p) BY <3>3 DEF SameEnd, Failed
      <4> QED BY <2>1, <2>2, <3>1, <3>3, <4>1
    <3>4. CASE Reports(p, s)
      <4>1. Failed(p)' BY <3>4 DEF Reports, Ends, Failed
      <4>2. "error" \in Acts BY DEF Acts
      <4>3. s = tee_log(p, "error") BY <3>4 DEF Reports
      <4>4. kind \in loggers[p] BY <2>3 DEF Equipped
      <4>5. In(s, <<kind, "error">>) BY <2>1, <4>2, <4>3, <4>4, InTee
      <4> QED BY <2>1, <4>1, <4>5
    <3>5. CASE Complains(p, s)
      BY <3>2, <3>5 DEF Complains, Opens, OpeningPrograms
    <3>6. CASE Gives(p, s) \/ Calls(p, s) \/ Crashes(p, s)
      <4>0. code[p] = "none"
        BY <1>1, <3>2, <3>6 DEF Gives, Calls, Crashes, Codes, Working, Early, Unlogged, Leaving
      <4>1. ~Failed(p)
        BY <4>0 DEF Failed
      <4>2. ~Failed(p)'
        <5>1. CASE Gives(p, s)
          <6>1. {"stdout"} # {"stderr"} OBVIOUS
          <6>2. pc[p] # "context" /\ pc[p] # "serve"
            BY <1>1, <3>2 DEF Phase, Early, Unlogged
          <6>3. PICK c, said : /\ Ends(p, c, said)
                               /\ said = {"stdout"} \/ c = "zero" \/ ~Opens(p)
            BY <5>1, <6>2 DEF Gives
          <6> QED BY <3>2, <6>1, <6>3 DEF Failed, Ends
        <5>2. CASE Calls(p, s) BY <5>2 DEF Calls, Failed, Ends
        <5>3. CASE Crashes(p, s)
          BY <4>0, <5>3 DEF Crashes, Failed, Ends
        <5> QED BY <3>6, <5>1, <5>2, <5>3
      <4>3. ~Reports(p, s) /\ ~Complains(p, s)
        BY <3>2, <4>2 DEF Reports, Complains, Ends, Failed, Opens, OpeningPrograms
      <4> QED BY <2>1, <2>2, <3>1, <4>1, <4>2, <4>3
    <3>7. CASE Quits(p, s)
      BY <3>2, <3>7 DEF Quits, Early
    <3> QED
      <4>1. SameEnd(p) \/ Reports(p, s) \/ Complains(p, s) \/ Gives(p, s) \/ Calls(p, s)
            \/ Crashes(p, s) \/ Quits(p, s)
        BY <1>1 DEF Moves, Passes, Invokes, Equips, Authenticates, Tells, OpensIt
      <4> QED BY <3>3, <3>4, <3>5, <3>6, <3>7, <4>1
  <2>4. CASE ~Equipped(p) /\ Equipped(p)'
    <3>1. Equips(p, s)
      BY <1>1, <2>4 DEF Moves, Passes, Invokes, Authenticates, Gives, Quits, Crashes, Reports,
         Complains, Tells, Calls, OpensIt, Keeps, Equipped
    <3>2. From(p, "offline log", "main") /\ s = <<>> /\ SameEnd(p)
      <4>1. {"cis", "session", "combined"} \subseteq loggers'[p] BY <2>4 DEF Equipped
      <4>2. pc'[p] \notin Early \cup {"session log", "offline log"} BY <1>1, <4>1 DEF Phase
      <4>3. Opens(p) BY <1>1, <4>1 DEF Phase
      <4> QED BY <3>1, <4>2, <4>3 DEF Equips, Early, Unlogged
    <3>3. ~Failed(p)'
      BY <1>1, <3>2 DEF Codes, Leaving, Failed, SameEnd
    <3>4. NoRecord(p)
      BY <3>2 DEF Silent, Fresh
    <3>5. ~Told(p, kind, "error")
      <4>1. Dest(p, kind) \in Logs /\ Dest(p, kind)[1] # "queue" BY <2>1, DestInLogs
      <4> QED BY <3>4, <4>1 DEF NoRecord, Told
    <3>6. ~In(s, <<kind, "error">>)
      <4>1. DOMAIN <<>> = {} OBVIOUS
      <4> QED BY <3>2, <4>1 DEF In
    <3> QED BY <2>1, <2>4, <3>3, <3>5, <3>6
  <2>5. CASE ~Equipped(p)'
    <3>1. ~Equipped(p)
      BY <1>1, <2>5 DEF Moves, Passes, Invokes, Equips, Authenticates, Gives, Quits, Crashes,
         Reports, Complains, Tells, Calls, OpensIt, Keeps, Equipped
    <3>2. SUFFICES ASSUME Noted(p, kind, "error")' PROVE kind = "cis" /\ FailedCron(p)'
      BY <2>5
    <3>3. start' = start BY DEF Move, Apart
    <3>4. CASE Told(p, kind, "error")
      <4>1. kind = "cis" /\ FailedCron(p) BY <2>1, <3>1, <3>4 DEF Noting, Erred
      <4>2. pc[p] \in Leaving \cup {"exited", "killed"} BY <1>1, <4>1 DEF Codes, FailedCron
      <4>3. SameEnd(p)
        BY <1>1, <4>2 DEF Moves, Passes, Invokes, Equips, Authenticates, Gives, Quits, Crashes,
           Reports, Complains, Tells, Calls, OpensIt, Leaving, Working
      <4> QED BY <3>3, <4>1, <4>3 DEF FailedCron, SameEnd
    <3>5. CASE In(s, <<kind, "error">>)
      <4>1. CASE Reports(p, s)
        <5>1. pc[p] \in Working /\ Opens(p)
          BY <1>1, <4>1 DEF Reports, Phase, Job, Working, Opens, OpeningPrograms
        <5> QED BY <1>1, <3>1, <5>1 DEF Phase
      <4>2. CASE Complains(p, s)
        <5>1. FailedCron(p)' BY <3>3, <4>2 DEF Complains, Ends, FailedCron
        <5>2. ~Opens(p) BY <4>2 DEF Complains, Opens, OpeningPrograms
        <5>3. s = cis_log(p, "error") /\ "error" \in Acts BY <4>2 DEF Complains, Acts
        <5>4. kind \in loggers[p] /\ kind \in {"cis", "queue", "combined"} BY <3>5, <5>3, InCis
        <5>5. "combined" \notin loggers[p] BY <1>1, <5>2 DEF Phase
        <5> QED BY <5>1, <5>4, <5>5
      <4> QED BY <2>2, <3>5, <4>1, <4>2
    <3> QED BY <2>1, <3>2, <3>4, <3>5
  <2> QED BY <2>3, <2>4, <2>5
<1>6. Begun(p)'
  <2> SUFFICES ASSUME Noted(p, "session", "start_job")'
               PROVE  pc'[p] \notin Before /\ (code'[p] = "one" => told'[p] = {"stderr"})
    BY DEF Begun
  <2>1. "session" \in Kinds BY DEF Kinds
  <2>2. CASE Told(p, "session", "start_job")
    <3>1. pc[p] \notin Before /\ (code[p] = "one" => told[p] = {"stderr"})
      BY <1>2, <2>1, <2>2 DEF Noting, Begun
    <3>2. pc'[p] \notin Before
      BY <1>1, <3>1 DEF Moves, Passes, Invokes, Equips, Authenticates, Gives, Quits, Crashes,
         Reports, Complains, Tells, Calls, OpensIt, Before, Fresh, Early, Unlogged
    <3>3. SameEnd(p) \/ code'[p] # "one" \/ told'[p] = {"stderr"}
      BY <1>1, <3>1 DEF Moves, Passes, Invokes, Equips, Authenticates, Gives, Quits, Crashes, Ends,
         Reports, Complains, Tells, Calls, OpensIt, Before, Fresh, Early, Unlogged
    <3> QED BY <3>1, <3>2, <3>3 DEF SameEnd
  <2>3. CASE In(s, <<"session", "start_job">>)
    <3>1. pc'[p] = "execute" BY <2>3, Recorded
    <3> QED BY <1>1, <3>1 DEF Codes, Leaving, Before, Fresh, Early, Unlogged
  <2> QED BY <1>2, <2>1, <2>2, <2>3
<1> QED BY <1>3, <1>4, <1>5, <1>6 DEF Noting

\* So has it after any step.
LEMMA NotingSteps ==
    ASSUME NEW p \in Procs, NEW s, NEW w, Typed, Root \in Procs, IInv,
           \A r \in Procs : Silent(r) /\ Local(r) /\ Local(r)' /\ Noting(r),
           Move(p, s) \/ Idle(p) \/ Writes(p, w), NEW r \in Procs
    PROVE  Noting(r)'
<1>1. CASE Move(p, s) /\ r = p
  BY <1>1, NotingMove
<1>2. CASE (Move(p, s) /\ r # p) \/ Idle(p) \/ Writes(p, w)
  <2>1. \A kind \in Kinds : \A act : Noted(r, kind, act)' <=> Noted(r, kind, act)
    <3>1. todo[p] \in Seq(Kinds \X Acts) BY DEF IInv, Own, Authenticated
    <3> TAKE kind \in Kinds
    <3> TAKE act
    <3>2. CASE Move(p, s) /\ r # p BY <3>2, NotedMove
    <3>3. CASE Idle(p) BY <3>3, NotedIdle
    <3>4. CASE Writes(p, w) BY <3>1, <3>4, NotedWrites
    <3> QED BY <1>2, <3>2, <3>3, <3>4
  <2>2. /\ code'[r] = code[r] /\ told'[r] = told[r] /\ loggers'[r] = loggers[r] /\ start' = start
        /\ pc'[r] = "exited" => pc[r] = "exited" /\ todo'[r] = todo[r]
        /\ pc'[r] \in Before => pc[r] \in Before
    BY <1>2 DEF Move, Apart, Idle, Writes, Over, Before, Fresh, Early, Unlogged
  <2>3. {"cis", "session", "combined"} \subseteq Kinds BY DEF Kinds
  <2>4. Noting(r) OBVIOUS
  <2>5. Erred(r)' BY <2>1, <2>2, <2>3, <2>4 DEF Noting, Erred, Equipped, Failed, FailedCron
  <2>6. Teed(r)'
    <3>1. Opens(r)' <=> Opens(r) BY <2>2 DEF Opens
    <3> QED BY <2>1, <2>3, <2>4, <3>1 DEF Noting, Teed
  <2>7. Begun(r)' BY <2>1, <2>2, <2>3, <2>4 DEF Noting, Begun
  <2> QED BY <2>2, <2>4, <2>5, <2>6, <2>7 DEF Noting
<1> QED BY <1>1, <1>2

-----------------------------------------------------------------------------
(* Calls that record for the queue do so for the combined log.              *)

\* Calls in a row are balanced if each of them is.
LEMMA BalancedConcat ==
    ASSUME NEW T, NEW s \in Seq(T), NEW t \in Seq(T), Balanced(s), Balanced(t)
    PROVE  Balanced(s \o t)
<1> DEFINE u == s \o t
           m == Len(s)
           n == Len(t)
<1>1. /\ DOMAIN u = 1 .. m + n
      /\ m \in Nat /\ n \in Nat /\ DOMAIN s = 1 .. m /\ DOMAIN t = 1 .. n
      /\ \A i \in 1 .. m + n : u[i] = IF i <= m THEN s[i] ELSE t[i - m]
  BY ConcatFacts
<1> HIDE DEF u, m, n
<1>2. \A i \in 1 .. m : i \in DOMAIN s /\ u[i] = s[i]
  BY <1>1
<1>3. \A i \in 1 .. n : i \in DOMAIN t /\ u[i + m] = t[i] /\ i + m \in DOMAIN u
  <2> TAKE i \in 1 .. n
  <2>1. i + m \in 1 .. m + n /\ ~(i + m <= m) /\ (i + m) - m = i BY <1>1
  <2> QED BY <1>1, <2>1
<1>4. ASSUME NEW i \in DOMAIN u, u[i][1] = "queue"
      PROVE  i + 1 \in DOMAIN u /\ u[i + 1] = <<"combined", u[i][2]>>
  <2>1. CASE i \in 1 .. m
    <3>1. i + 1 \in DOMAIN s /\ s[i + 1] = <<"combined", u[i][2]>>
      BY <1>2, <1>4, <2>1 DEF Balanced
    <3>2. i + 1 \in 1 .. m /\ i + 1 \in 1 .. m + n BY <1>1, <3>1
    <3> QED BY <1>1, <1>2, <3>1, <3>2
  <2>2. CASE i \notin 1 .. m
    <3> DEFINE j == i - m
    <3>1. j \in 1 .. n /\ i = j + m /\ i \in Nat BY <1>1, <1>4, <2>2
    <3> HIDE DEF j
    <3>2. t[j] = u[i] /\ j \in DOMAIN t BY <1>3, <3>1
    <3>3. j + 1 \in DOMAIN t /\ t[j + 1] = <<"combined", u[i][2]>>
      BY <1>4, <3>2 DEF Balanced
    <3>4. j + 1 \in 1 .. n /\ (j + 1) + m = i + 1 BY <1>1, <3>1, <3>3
    <3> QED BY <1>3, <3>3, <3>4
  <2> QED BY <2>1, <2>2
<1>5. ASSUME NEW i \in DOMAIN u, u[i][1] = "combined"
      PROVE  i - 1 \in DOMAIN u /\ u[i - 1][1] = "queue"
  <2>1. CASE i \in 1 .. m
    <3>1. i - 1 \in DOMAIN s /\ s[i - 1][1] = "queue"
      BY <1>2, <1>5, <2>1 DEF Balanced
    <3>2. i - 1 \in 1 .. m /\ i - 1 \in 1 .. m + n BY <1>1, <3>1
    <3> QED BY <1>1, <1>2, <3>1, <3>2
  <2>2. CASE i \notin 1 .. m
    <3> DEFINE j == i - m
    <3>1. j \in 1 .. n /\ i = j + m /\ i \in Nat BY <1>1, <1>5, <2>2
    <3> HIDE DEF j
    <3>2. t[j] = u[i] /\ j \in DOMAIN t BY <1>3, <3>1
    <3>3. j - 1 \in DOMAIN t /\ t[j - 1][1] = "queue"
      BY <1>5, <3>2 DEF Balanced
    <3>4. j - 1 \in 1 .. n /\ (j - 1) + m = i - 1 BY <1>1, <3>1, <3>3
    <3> QED BY <1>3, <3>3, <3>4
  <2> QED BY <2>1, <2>2
<1>6. Balanced(u) BY <1>4, <1>5 DEF Balanced
<1> QED BY <1>6 DEF u

\* Parts of a call that are balanced,
LEMMA BalancedTo ==
    ASSUME NEW p, NEW act \in Acts
    PROVE  /\ \A kind \in {"cis", "session"} : Balanced(To(p, kind, act))
           /\ {"queue", "combined"} \subseteq loggers[p] => Balanced(webui_log(p, act))
           /\ Balanced(<<>>)
<1>1. Balanced(<<>>)
  <2>1. DOMAIN <<>> = {} OBVIOUS
  <2> QED BY <2>1 DEF Balanced
<1>2. ASSUME NEW kind \in {"cis", "session"} PROVE Balanced(To(p, kind, act))
  <2> DEFINE s == <<<<kind, act>>>>
  <2>1. DOMAIN s = {1} /\ s[1][1] = kind OBVIOUS
  <2> HIDE DEF s
  <2>2. Balanced(s) BY <2>1 DEF Balanced
  <2> QED BY <1>1, <2>2 DEF To, s
<1>3. ASSUME {"queue", "combined"} \subseteq loggers[p] PROVE Balanced(webui_log(p, act))
  <2> DEFINE s == webui_log(p, act)
             T == Kinds \X Acts
             x == <<"queue", act>>
             y == <<"combined", act>>
  <2>1. s = <<x>> \o <<y>> BY <1>3 DEF webui_log, To
  <2>2. DOMAIN s = 1 .. 2 /\ s[1] = <<"queue", act>> /\ s[2] = <<"combined", act>>
    <3>1. x \in T /\ y \in T BY DEF Kinds
    <3> HIDE DEF T, s, x, y
    <3>2. <<x>> \in Seq(T) /\ <<y>> \in Seq(T) /\ Len(<<x>>) = 1 /\ Len(<<y>>) = 1
          /\ <<x>>[1] = x /\ <<y>>[1] = y
      BY <3>1
    <3>3. /\ DOMAIN s = 1 .. 1 + 1
          /\ \A i \in 1 .. 1 + 1 : s[i] = IF i <= 1 THEN <<x>>[i] ELSE <<y>>[i - 1]
      BY <2>1, <3>2, ConcatFacts
    <3>4. DOMAIN s = 1 .. 2 /\ s[1] = x /\ s[2] = y BY <3>2, <3>3
    <3> QED BY <3>4 DEF x, y
  <2> HIDE DEF s
  <2>3. \A i \in DOMAIN s : i = 1 \/ i = 2 BY <2>2
  <2>4. 1 \in DOMAIN s /\ 2 \in DOMAIN s BY <2>2
  <2>5. s[1][1] = "queue" /\ s[1][2] = act /\ s[2][1] = "combined" BY <2>2
  <2>6. Balanced(s)
    <3> SUFFICES ASSUME NEW i \in DOMAIN s
                 PROVE  /\ s[i][1] = "queue" => i + 1 \in DOMAIN s /\ s[i + 1] = <<"combined", s[i][2]>>
                        /\ s[i][1] = "combined" => i - 1 \in DOMAIN s /\ s[i - 1][1] = "queue"
      BY DEF Balanced
    <3>1. CASE i = 1 BY <2>2, <2>4, <2>5, <3>1
    <3>2. CASE i = 2 BY <2>2, <2>4, <2>5, <3>2
    <3> QED BY <2>3, <3>1, <3>2
  <2> QED BY <2>6 DEF s
<1> QED BY <1>1, <1>2, <1>3

\* and the calls of every logger.
LEMMA BalancedLogs ==
    ASSUME NEW p, NEW act \in Acts, {"queue", "combined"} \subseteq loggers[p]
    PROVE  /\ Balanced(webui_log(p, act)) /\ Balanced(cis_log(p, act))
           /\ Balanced(session_log(p, act)) /\ Balanced(tee_log(p, act))
<1> DEFINE T == Kinds \X Acts
           c == To(p, "cis", act)
           e == To(p, "session", act)
           w == webui_log(p, act)
<1>1. Balanced(c) /\ Balanced(e) /\ Balanced(w) /\ Balanced(<<>>) BY BalancedTo
<1>2. c \in Seq(T) /\ e \in Seq(T) /\ w \in Seq(T)
  <2>1. "cis" \in Kinds /\ "session" \in Kinds BY DEF Kinds
  <2> QED BY <2>1, InTo, InLogs
<1>3. cis_log(p, act) = (IF "cis" \in loggers[p] THEN c \o w ELSE <<>>)
      /\ session_log(p, act) = (IF "session" \in loggers[p] THEN e \o w ELSE <<>>)
      /\ tee_log(p, act) = (c \o e) \o w
  BY DEF cis_log, session_log, tee_log
<1> HIDE DEF T, c, e, w
<1>4. Balanced(c \o w) /\ Balanced(e \o w) /\ Balanced(c \o e) /\ c \o e \in Seq(T)
  BY <1>1, <1>2, BalancedConcat, ConcatFacts
<1>5. Balanced((c \o e) \o w)
  BY <1>1, <1>2, <1>4, BalancedConcat
<1> QED BY <1>1, <1>3, <1>4, <1>5 DEF w

\* What a main has to record is balanced, once the webui was greeted.
LEMMA BalancedMove ==
    ASSUME NEW p \in Procs, NEW s, Local(p), Connected(p), Move(p, s), "queue" \in loggers[p]
    PROVE  \/ s = <<>>
           \/ s = <<<<"queue", "auth">>>> /\ pc[p] = "auth"
           \/ Balanced(s) /\ pc[p] \in Working \cup {"close"}
<1> USE DEF From
<1>1. Phase(p) /\ Belongs(p) /\ Opens(p) BY DEF Local, Connected
<1>2. CASE Authenticates(p, s) BY <1>2 DEF Authenticates
<1>3. CASE Passes(p, s) \/ Invokes(p, s) \/ Equips(p, s) \/ Gives(p, s) \/ Quits(p, s) \/ Crashes(p, s)
  BY <1>3 DEF Passes, Invokes, Equips, Gives, Quits, Crashes
<1>4. CASE Reports(p, s) \/ Complains(p, s) \/ Tells(p, s) \/ Calls(p, s) \/ OpensIt(p, s)
  <2>1. pc[p] \in Working \cup {"close"}
    BY <1>4 DEF Reports, Complains, Tells, Calls, OpensIt, Working
  <2>2. {"queue", "combined"} \subseteq loggers[p]
    <3>1. CASE pc[p] \in Working BY <1>1, <3>1 DEF Phase, Equipped
    <3>2. CASE pc[p] \notin Working
      <4>1. p \in onClose
        BY <1>4, <3>2 DEF Reports, Complains, Tells, Calls, OpensIt, Working
      <4> QED BY <1>1, <4>1 DEF Belongs, Equipped
    <3> QED BY <3>1, <3>2
  <2>3. \A act \in Acts :
            /\ Balanced(webui_log(p, act)) /\ Balanced(cis_log(p, act))
            /\ Balanced(session_log(p, act)) /\ Balanced(tee_log(p, act))
            /\ webui_log(p, act) \in Seq(Kinds \X Acts) /\ cis_log(p, act) \in Seq(Kinds \X Acts)
    BY <2>2, BalancedLogs, InLogs
  <2>4. "open" \in Acts /\ "id" \in Acts /\ "start_job" \in Acts /\ "finish_job" \in Acts
        /\ "unstarted" \in Acts /\ "done" \in Acts /\ "called" \in Acts /\ "error" \in Acts /\ "close" \in Acts
    BY DEF Acts
  <2>5. /\ Balanced(webui_log(p, "done") \o webui_log(p, "done"))
        /\ Balanced(cis_log(p, "open") \o webui_log(p, "id"))
    BY <2>3, <2>4, BalancedConcat
  <2>6. Balanced(s)
    <3>1. CASE Reports(p, s) BY <2>3, <2>4, <3>1 DEF Reports
    <3>2. CASE Complains(p, s) BY <2>3, <2>4, <3>2 DEF Complains
    <3>3. CASE Tells(p, s) BY <2>3, <2>4, <2>5, <3>3 DEF Tells
    <3>4. CASE Calls(p, s) BY <2>3, <2>4, <3>4 DEF Calls
    <3>5. CASE OpensIt(p, s) BY <2>5, <3>5 DEF OpensIt
    <3> QED BY <1>4, <3>1, <3>2, <3>3, <3>4, <3>5
  <2> QED BY <2>1, <2>6
<1> QED BY <1>2, <1>3, <1>4 DEF Move, Moves

-----------------------------------------------------------------------------
(* The queue and the combined log agree: over the moves,                    *)

\* The places of a process' records in the combined log can be counted.
LEMMA RecordsFinite ==
    ASSUME Typed, Root \in Procs, NEW p \in Procs
    PROVE  /\ IsFiniteSet(Records(p)) /\ Cardinality(Records(p)) \in Nat
           /\ Combined(p) \in Seq(Procs \X Acts) /\ DOMAIN Combined(p) = 1 .. Len(Combined(p))
           /\ Len(Combined(p)) \in Nat /\ Records(p) \subseteq 1 .. Len(Combined(p))
           /\ \A i : IsFiniteSet({j \in Records(p) : j <= i}) /\ InQueue(p, i) \in Nat
<1> DEFINE c == Combined(p)
<1>1. Dest(p, "combined") \in Logs BY DestInLogs DEF Kinds
<1>2. c \in Seq(Procs \X Acts) BY <1>1 DEF Typed, Combined
<1>3. DOMAIN c = 1 .. Len(c) /\ Len(c) \in Nat
  <2> DEFINE T == Procs \X Acts
  <2>1. c \in Seq(T) BY <1>2
  <2> HIDE DEF T
  <2> QED BY <2>1
<1>4. Records(p) \subseteq 1 .. Len(c) BY <1>3 DEF Records, Combined
<1>5. IsFiniteSet(1 .. Len(c)) BY <1>3, FS_Interval
<1>6. IsFiniteSet(Records(p)) BY <1>4, <1>5, FS_Subset
<1>7. Cardinality(Records(p)) \in Nat BY <1>6, FS_CardinalityType
<1>8. ASSUME NEW i PROVE IsFiniteSet({j \in Records(p) : j <= i}) /\ InQueue(p, i) \in Nat
  <2> DEFINE S == {j \in Records(p) : j <= i}
  <2>1. IsFiniteSet(S) BY <1>6, FS_Subset
  <2>2. Cardinality(S) \in Nat BY <2>1, FS_CardinalityType
  <2>3. InQueue(p, i) = 1 + Cardinality(S) BY DEF InQueue
  <2> QED BY <2>1, <2>2, <2>3
<1> QED BY <1>2, <1>3, <1>4, <1>6, <1>7, <1>8

\* A step that leaves the combined log of r as it is, or adds the record of
\* another, leaves what r told it.
LEMMA RecordsSame ==
    ASSUME NEW r \in Procs, DOMAIN Combined(r) \subseteq DOMAIN Combined(r)',
           \A i \in DOMAIN Combined(r) : Combined(r)'[i] = Combined(r)[i],
           \A i \in DOMAIN Combined(r)' \ DOMAIN Combined(r) : Combined(r)'[i][1] # r
    PROVE  /\ Records(r)' = Records(r) /\ \A i : InQueue(r, i)' = InQueue(r, i)
           /\ \A i \in Records(r) : Combined(r)'[i] = Combined(r)[i]
<1>1. Records(r) = {i \in DOMAIN Combined(r) : Combined(r)[i][1] = r} BY DEF Records, Combined
<1>2. Records(r)' = {i \in DOMAIN Combined(r)' : Combined(r)'[i][1] = r} BY DEF Records, Combined
<1>3. Records(r)' = Records(r) BY <1>1, <1>2
<1>4. \A i : InQueue(r, i)' = InQueue(r, i) BY <1>3 DEF InQueue
<1> QED BY <1>1, <1>3, <1>4

\* Twin depends on a process' own records and call only.
LEMMA TwinSame ==
    ASSUME NEW r \in Procs, Twin(r), Queue(r)' = Queue(r), Records(r)' = Records(r),
           \A i : InQueue(r, i)' = InQueue(r, i),
           \A i \in Records(r) : Combined(r)'[i] = Combined(r)[i],
           todo'[r] = todo[r], "queue" \in loggers'[r] => "queue" \in loggers[r]
    PROVE  Twin(r)'
<1>1. Match(r) => Match(r)' BY DEF Match
<1>2. AuthDue(r)' <=> AuthDue(r) BY DEF AuthDue
<1>3. \A i \in DOMAIN Queue(r)' : Queue(r)'[i][1] = r BY DEF Twin
<1>4. CASE "queue" \notin loggers'[r] BY <1>3, <1>4 DEF Twin
<1>5. CASE "queue" \in loggers'[r] BY <1>1, <1>2, <1>3, <1>5 DEF Twin
<1> QED BY <1>4, <1>5

\* A move starts a call that is balanced, between two calls.
LEMMA TwinMove ==
    ASSUME NEW p \in Procs, NEW s, Typed, Root \in Procs, IInv, IInv', Silent(p), Local(p),
           Twin(p), Move(p, s)
    PROVE  Twin(p)'
<1> USE DEF From
<1>1. /\ log' = log /\ todo[p] = <<>> /\ todo'[p] = s /\ Queue(p)' = Queue(p) /\ Moves(p, s)
  BY DEF Move, Queue
<1>2. Own(p) /\ Own(p)' BY DEF IInv
<1>3. \A i \in DOMAIN Queue(p)' : Queue(p)'[i][1] = p BY <1>1 DEF Twin
<1>4. CASE "queue" \notin loggers'[p] BY <1>3, <1>4 DEF Twin
<1>5. CASE "queue" \in loggers'[p] /\ "queue" \notin loggers[p]
  <2>1. Equips(p, s)
    <3> HIDE DEF From
    <3>1. loggers'[p] = loggers[p] => FALSE BY <1>5
    <3>2. Equips(p, s) \/ loggers'[p] = loggers[p]
      BY <1>1 DEF Moves, Passes, Invokes, Authenticates, Gives, Quits, Crashes, Reports,
         Complains, Tells, Calls, OpensIt, Keeps
    <3> QED BY <3>1, <3>2
  <2>2. pc[p] = "running" /\ pc'[p] = "cis log" /\ ses'[p] = ses[p] /\ s = <<>>
    <3>1. CASE From(p, "running", "cis log") BY <2>1, <3>1 DEF Equips
    <3>2. CASE ~From(p, "running", "cis log")
      <4>1. PICK kind \in {"cis", "session", "combined"} : loggers'[p] = loggers[p] \cup {kind}
        <5> HIDE DEF From
        <5> QED BY <2>1, <3>2 DEF Equips
      <4> QED BY <1>5, <4>1
    <3> QED BY <3>1, <3>2
  <2>3. Queue(p)' = <<>> BY <1>2, <2>2 DEF Own, Authenticated, Early
  <2>4. NoRecord(p) BY <2>2 DEF Silent, Fresh, Early, Unlogged
  <2>5. Dest(p, "combined") \in Logs /\ Dest(p, "combined")[1] # "queue"
    BY DestInLogs DEF Kinds
  <2>6. Records(p) = {} BY <2>4, <2>5 DEF Records, NoRecord
  <2>7. Dest(p, "combined")' = Dest(p, "combined") BY <2>2 DEF Dest
  <2>8. Records(p)' = {} BY <1>1, <2>6, <2>7 DEF Records
  <2>9. Match(p)' BY <2>8 DEF Match
  <2> QED BY <1>1, <1>3, <2>2, <2>3, <2>8, <2>9 DEF Twin
<1>6. CASE "queue" \in loggers'[p] /\ "queue" \in loggers[p]
  <2>1. ses'[p] = ses[p]
    <3>1. ~Invokes(p, s) BY <1>2, <1>6 DEF Invokes, Own, Connected, Unlogged
    <3> QED BY <1>1, <3>1 DEF Moves, Passes, Equips, Authenticates, Gives, Quits, Crashes, Reports,
               Complains, Tells, Calls, OpensIt, Keeps
  <2>2. Combined(p)' = Combined(p) /\ Records(p)' = Records(p)
    <3>1. Dest(p, "combined")' = Dest(p, "combined") BY <2>1 DEF Dest
    <3> QED BY <1>1, <3>1 DEF Records, Combined
  <2>3. \A i : InQueue(p, i)' = InQueue(p, i) BY <2>2 DEF InQueue
  <2>4. Match(p)' BY <1>1, <1>6, <2>2, <2>3 DEF Match, Twin
  <2>5. \/ Queue(p) = <<>> /\ Records(p) = {}
        \/ Len(Queue(p)) = Cardinality(Records(p)) + 1
    BY <1>1, <1>6 DEF Twin
  <2>6. CASE s = <<>>
    <3>1. Balanced(s) BY <2>6, BalancedTo DEF Acts
    <3>2. CASE Queue(p) = <<>> /\ Records(p) = {}
      BY <1>1, <1>3, <2>2, <2>4, <2>6, <3>2 DEF Twin
    <3>3. CASE Len(Queue(p)) = Cardinality(Records(p)) + 1
      BY <1>1, <1>3, <2>2, <2>4, <3>1, <3>3 DEF Twin
    <3> QED BY <2>5, <3>2, <3>3
  <2>7. CASE s = <<<<"queue", "auth">>>> /\ pc[p] = "auth"
    <3>1. Queue(p) = <<>> BY <1>2, <2>7 DEF Own, Authenticated, Early
    <3>2. NoRecord(p) BY <2>7 DEF Silent, Fresh, Early
    <3>3. Dest(p, "combined") \in Logs /\ Dest(p, "combined")[1] # "queue"
      BY DestInLogs DEF Kinds
    <3>4. Records(p) = {} BY <3>2, <3>3 DEF Records, NoRecord
    <3>5. AuthDue(p)' BY <1>1, <2>7 DEF AuthDue
    <3> QED BY <1>1, <1>3, <2>2, <2>4, <3>1, <3>4, <3>5 DEF Twin
  <2>8. CASE Balanced(s) /\ pc[p] \in Working \cup {"close"}
    <3>1. Queue(p) # <<>>
      <4>1. ~AuthDue(p)
        <5>1. <<<<"queue", "auth">>>> # <<>> BY TailOfOne
        <5> QED BY <1>1, <5>1 DEF AuthDue
      <4>2. pc[p] \in Recorders BY <2>8 DEF Recorders
      <4> QED BY <1>2, <1>6, <4>1, <4>2 DEF Own, Authenticated
    <3> QED BY <1>1, <1>3, <2>2, <2>4, <2>5, <2>8, <3>1 DEF Twin
  <2> QED BY <1>2, <1>6, <2>6, <2>7, <2>8, BalancedMove DEF Own
<1> QED BY <1>4, <1>5, <1>6

-----------------------------------------------------------------------------
(* and over what is written, by others                                      *)

\* What is left of a balanced call when its first record is written.
LEMMA BalancedTail ==
    ASSUME NEW T, NEW t \in Seq(T), t # <<>>, NEW u, u = Tail(t), Balanced(t)
    PROVE  /\ t[1][1] # "combined"
           /\ t[1][1] # "queue" => Balanced(u)
           /\ t[1][1] = "queue" =>
                  u # <<>> /\ u[1] = <<"combined", t[1][2]>> /\ Balanced(Tail(u))
<1>1. /\ u \in Seq(T) /\ 1 \in DOMAIN t /\ Len(t) \in Nat /\ DOMAIN t = 1 .. Len(t)
      /\ Len(u) = Len(t) - 1 /\ DOMAIN u = 1 .. Len(t) - 1
  OBVIOUS
<1>2. \A i \in DOMAIN u : i + 1 \in DOMAIN t /\ u[i] = t[i + 1]
  BY HeadAndTail
<1> DEFINE n == Len(t)
<1>3. n \in Nat /\ DOMAIN t = 1 .. n /\ DOMAIN u = 1 .. n - 1 /\ 1 \in 1 .. n
  BY <1>1
<1> HIDE DEF n
<1>4. t[1][1] # "combined"
  <2>1. 1 - 1 \notin DOMAIN t BY <1>3
  <2> QED BY <1>3, <2>1 DEF Balanced
<1>5. \A i \in DOMAIN u : u[i][1] = "queue" => i + 1 \in DOMAIN u /\ u[i + 1] = <<"combined", u[i][2]>>
  <2> TAKE i \in DOMAIN u
  <2> HAVE u[i][1] = "queue"
  <2>1. i + 1 \in DOMAIN t /\ u[i] = t[i + 1] BY <1>2
  <2>2. (i + 1) + 1 \in DOMAIN t /\ t[(i + 1) + 1] = <<"combined", u[i][2]>> BY <2>1 DEF Balanced
  <2>3. i + 1 \in DOMAIN u BY <1>3, <2>2
  <2> QED BY <1>2, <2>2, <2>3
<1>6. \A i \in DOMAIN u : u[i][1] = "combined" /\ (i = 1 => t[1][1] # "queue") =>
                              i - 1 \in DOMAIN u /\ u[i - 1][1] = "queue"
  <2> TAKE i \in DOMAIN u
  <2> HAVE u[i][1] = "combined" /\ (i = 1 => t[1][1] # "queue")
  <2>1. i + 1 \in DOMAIN t /\ u[i] = t[i + 1] /\ (i + 1) - 1 = i BY <1>2, <1>3
  <2>2. t[i][1] = "queue" BY <2>1 DEF Balanced
  <2>3. i # 1 BY <2>2
  <2>4. i - 1 \in DOMAIN u /\ (i - 1) + 1 = i BY <1>3, <2>3
  <2>5. u[i - 1] = t[i] BY <1>2, <2>4
  <2> QED BY <2>2, <2>4, <2>5
<1>7. t[1][1] # "queue" => Balanced(u) BY <1>5, <1>6 DEF Balanced
<1>8. ASSUME t[1][1] = "queue"
      PROVE  u # <<>> /\ u[1] = <<"combined", t[1][2]>> /\ Balanced(Tail(u))
  <2>1. 1 + 1 \in DOMAIN t /\ t[1 + 1] = <<"combined", t[1][2]>> BY <1>3, <1>8 DEF Balanced
  <2>2. 1 \in DOMAIN u BY <1>3, <2>1
  <2>3. u[1] = <<"combined", t[1][2]>> BY <1>2, <2>1, <2>2
  <2>4. u # <<>>
    <3>1. DOMAIN <<>> = {} OBVIOUS
    <3> QED BY <2>2, <3>1
  <2> DEFINE v == Tail(u)
  <2>5. /\ DOMAIN v = 1 .. n - 2
        /\ \A i \in DOMAIN v : i + 1 \in DOMAIN u /\ v[i] = u[i + 1]
    <3>1. Len(v) = Len(u) - 1 /\ v \in Seq(T) BY <1>1, <2>4
    <3>2. DOMAIN v = 1 .. n - 2 BY <1>1, <3>1 DEF n
    <3>3. \A i \in DOMAIN v : i + 1 \in DOMAIN u /\ v[i] = u[i + 1]
      BY <1>1, <2>4, HeadAndTail
    <3> QED BY <3>2, <3>3
  <2> HIDE DEF v
  <2>6. \A i \in DOMAIN v : v[i][1] = "queue" => i + 1 \in DOMAIN v /\ v[i + 1] = <<"combined", v[i][2]>>
    <3> TAKE i \in DOMAIN v
    <3> HAVE v[i][1] = "queue"
    <3>1. i + 1 \in DOMAIN u /\ v[i] = u[i + 1] BY <2>5
    <3>2. (i + 1) + 1 \in DOMAIN u /\ u[(i + 1) + 1] = <<"combined", v[i][2]>> BY <1>5, <3>1
    <3>3. i + 1 \in DOMAIN v BY <1>3, <2>5, <3>2
    <3> QED BY <2>5, <3>2, <3>3
  <2>7. \A i \in DOMAIN v : v[i][1] = "combined" => i - 1 \in DOMAIN v /\ v[i - 1][1] = "queue"
    <3> TAKE i \in DOMAIN v
    <3> HAVE v[i][1] = "combined"
    <3>1. i + 1 \in DOMAIN u /\ v[i] = u[i + 1] /\ (i + 1) - 1 = i /\ i + 1 # 1 BY <1>3, <2>5
    <3>2. u[i][1] = "queue" BY <1>6, <3>1
    <3>3. i # 1
      <4>1. \A y : <<"combined", y>>[1] = "combined" OBVIOUS
      <4>2. u[1][1] = "combined" BY <2>3, <4>1
      <4> QED BY <3>2, <4>2
    <3>4. i - 1 \in DOMAIN v /\ (i - 1) + 1 = i BY <1>3, <2>5, <3>3
    <3>5. v[i - 1] = u[i] BY <2>5, <3>4
    <3> QED BY <3>2, <3>4, <3>5
  <2>8. Balanced(v) BY <2>6, <2>7 DEF Balanced
  <2> QED BY <2>3, <2>4, <2>8 DEF v
<1> QED BY <1>4, <1>7, <1>8

\* What another process writes is none of the process' records.
LEMMA TwinOther ==
    ASSUME NEW p \in Procs, NEW w, Typed, Root \in Procs, Writes(p, w), NEW r \in Procs, r # p,
           Twin(r)
    PROVE  Twin(r)'
<1>1. Dest(r, "combined") \in Logs /\ <<"queue", r>> \in Logs /\ w[1] \in Kinds
      /\ Dest(r, "combined")' = Dest(r, "combined")
  <2>1. <<"queue", r>> \in Logs BY DEF Logs
  <2> QED BY <2>1, DestInLogs DEF Kinds, Writes, Dest
<1>2. <<"queue", r>> # Dest(p, w[1])
  BY <1>1, DestInLogs DEF Kinds
<1>3. Queue(r)' = Queue(r) BY <1>1, <1>2, WritesRecords DEF Queue
<1>4. /\ DOMAIN Combined(r) \subseteq DOMAIN Combined(r)'
      /\ \A i \in DOMAIN Combined(r) : Combined(r)'[i] = Combined(r)[i]
      /\ \A i \in DOMAIN Combined(r)' \ DOMAIN Combined(r) : Combined(r)'[i][1] # r
  <2> DEFINE l == Dest(r, "combined")
  <2>1. l \in Logs /\ Combined(r) = log[l] /\ Combined(r)' = log'[l] BY <1>1 DEF Combined
  <2> HIDE DEF l
  <2>2. /\ DOMAIN log[l] \subseteq DOMAIN log'[l]
        /\ \A i \in DOMAIN log[l] : log'[l][i] = log[l][i]
        /\ l # Dest(p, w[1]) => log'[l] = log[l]
        /\ l = Dest(p, w[1]) =>
               /\ DOMAIN log[l] = 1 .. Len(log[l]) /\ Len(log[l]) \in Nat
               /\ DOMAIN log'[l] = 1 .. Len(log[l]) + 1
               /\ log'[l][Len(log[l]) + 1] = <<p, w[2]>>
    BY <2>1, WritesRecords
  <2>3. \A i \in DOMAIN log'[l] \ DOMAIN log[l] : log'[l][i][1] # r
    <3> TAKE i \in DOMAIN log'[l] \ DOMAIN log[l]
    <3>1. l = Dest(p, w[1]) /\ i = Len(log[l]) + 1 BY <2>2
    <3>2. log'[l][i] = <<p, w[2]>> BY <2>2, <3>1
    <3> QED BY <3>2
  <2> QED BY <2>1, <2>2, <2>3
<1>5. /\ Records(r)' = Records(r) /\ \A i : InQueue(r, i)' = InQueue(r, i)
      /\ \A i \in Records(r) : Combined(r)'[i] = Combined(r)[i]
  BY <1>4, RecordsSame
<1>6. todo'[r] = todo[r] /\ loggers'[r] = loggers[r] BY DEF Writes
<1> QED BY <1>3, <1>5, <1>6, TwinSame

-----------------------------------------------------------------------------
(* and by the process itself.                                               *)

\* A further record of its own in the combined log comes last.
LEMMA RecordsMore ==
    ASSUME Typed, Root \in Procs, NEW p \in Procs, NEW n, n = Len(Combined(p)) + 1,
           DOMAIN Combined(p)' = 1 .. n, Combined(p)'[n][1] = p,
           \A i \in DOMAIN Combined(p) : Combined(p)'[i] = Combined(p)[i]
    PROVE  /\ Records(p)' = Records(p) \cup {n} /\ n \notin Records(p)
           /\ Cardinality(Records(p)') = Cardinality(Records(p)) + 1
           /\ \A i \in Records(p) : InQueue(p, i)' = InQueue(p, i)
           /\ InQueue(p, n)' = Cardinality(Records(p)) + 2
<1> DEFINE R == Records(p)
           m == Len(Combined(p))
           D == DOMAIN Combined(p)
<1>1. /\ D = 1 .. m /\ m \in Nat /\ n = m + 1 /\ R \subseteq D /\ IsFiniteSet(R)
      /\ Cardinality(R) \in Nat
  BY RecordsFinite
<1>2. R = {i \in D : Combined(p)[i][1] = p} BY DEF Records, Combined
<1>3. Records(p)' = {i \in 1 .. n : Combined(p)'[i][1] = p} BY DEF Records, Combined
<1>4. \A i \in D : Combined(p)'[i] = Combined(p)[i] OBVIOUS
<1>5. \A i : InQueue(p, i)' = 1 + Cardinality({j \in Records(p)' : j <= i}) BY DEF InQueue
<1>6. \A i : InQueue(p, i) = 1 + Cardinality({j \in R : j <= i}) BY DEF InQueue
<1> HIDE DEF R, m, D
<1>7. n \in 1 .. n /\ n \notin D /\ 1 .. n = D \cup {n} BY <1>1
<1>8. Records(p)' = R \cup {n} /\ n \notin R BY <1>1, <1>2, <1>3, <1>4, <1>7
<1>9. Cardinality(R \cup {n}) = Cardinality(R) + 1 BY <1>1, <1>8, FS_AddElement
<1>10. ASSUME NEW i \in R PROVE InQueue(p, i)' = InQueue(p, i)
  <2>1. i \in 1 .. m BY <1>1
  <2>2. {j \in Records(p)' : j <= i} = {j \in R : j <= i} BY <1>1, <1>8, <2>1
  <2> QED BY <1>5, <1>6, <2>2
<1>11. InQueue(p, n)' = Cardinality(R) + 2
  <2>1. n \in Nat /\ \A j \in R \cup {n} : j <= n BY <1>1
  <2>2. {j \in Records(p)' : j <= n} = R \cup {n} BY <1>8, <2>1
  <2>3. InQueue(p, n)' = 1 + (Cardinality(R) + 1) BY <1>5, <1>9, <2>2
  <2> QED BY <1>1, <2>3
<1> QED BY <1>8, <1>9, <1>10, <1>11 DEF R

\* A record is written to the queue, then the same to the combined log.
LEMMA TwinOwn ==
    ASSUME NEW p \in Procs, NEW w, Typed, Root \in Procs, IInv, Writes(p, w), Twin(p)
    PROVE  Twin(p)'
<1> DEFINE T == Kinds \X Acts
           t == todo[p]
           u == todo'[p]
           q == Queue(p)
           K == Cardinality(Records(p))
           e == Dest(p, w[1])
           c == Dest(p, "combined")
           d == <<"queue", p>>
<1>1. /\ t \in Seq(T) /\ t # <<>> /\ u = Tail(t) /\ w = t[1] /\ w \in T
  BY DEF Writes, IInv, Own, Authenticated
<1>2. w[1] \in Kinds /\ w[2] \in Acts /\ w = <<w[1], w[2]>> BY <1>1
<1>3. /\ e \in Logs /\ c \in Logs /\ d \in Logs /\ Dest(p, "combined")' = c
      /\ (e = c <=> w[1] = "combined") /\ (e = d <=> w[1] = "queue")
  <2>1. d \in Logs BY DEF Logs
  <2>2. "combined" \in Kinds /\ "queue" \in Kinds BY DEF Kinds
  <2>3. Dest(p, "combined")' = c BY DEF Writes, Dest
  <2>4. Dest(p, "queue") = d BY <2>2, DestInLogs
  <2> QED BY <1>2, <2>1, <2>2, <2>3, <2>4, DestInLogs
<1>4. q = log[d] /\ Queue(p)' = log'[d] /\ Combined(p) = log[c] /\ Combined(p)' = log'[c]
  BY <1>3 DEF Queue, Combined
<1>5. /\ q \in Seq(Procs \X Acts) /\ Len(q) \in Nat /\ DOMAIN q = 1 .. Len(q)
  <2> DEFINE A == Procs \X Acts
  <2>1. q \in Seq(A) BY DEF IInv, Own, Authenticated
  <2> HIDE DEF A, q
  <2> QED BY <2>1 DEF A
<1>6. /\ DOMAIN q \subseteq DOMAIN Queue(p)' /\ \A i \in DOMAIN q : Queue(p)'[i] = q[i]
      /\ w[1] # "queue" => Queue(p)' = q
      /\ w[1] = "queue" => /\ Len(Queue(p)') = Len(q) + 1 /\ DOMAIN Queue(p)' = 1 .. Len(q) + 1
                           /\ Queue(p)'[Len(q) + 1] = <<p, w[2]>>
  BY <1>3, <1>4, WritesRecords
<1>7. /\ DOMAIN Combined(p) \subseteq DOMAIN Combined(p)'
      /\ \A i \in DOMAIN Combined(p) : Combined(p)'[i] = Combined(p)[i]
      /\ w[1] # "combined" => Combined(p)' = Combined(p)
      /\ w[1] = "combined" => /\ DOMAIN Combined(p)' = 1 .. Len(Combined(p)) + 1
                              /\ Combined(p)'[Len(Combined(p)) + 1] = <<p, w[2]>>
  BY <1>3, <1>4, WritesRecords
<1>8. loggers'[p] = loggers[p] BY DEF Writes
<1>9. K \in Nat /\ \A i \in Records(p) : i \in DOMAIN Combined(p) BY RecordsFinite DEF Records, Combined
<1> HIDE DEF T, t, u, q, K, e, c, d
<1>10. \A i \in DOMAIN Queue(p)' : Queue(p)'[i][1] = p
  <2>1. \A i \in DOMAIN q : q[i][1] = p BY DEF Twin, q
  <2>2. <<p, w[2]>>[1] = p OBVIOUS
  <2>3. CASE w[1] # "queue" BY <1>6, <2>1, <2>3
  <2>4. CASE w[1] = "queue"
    <3> TAKE i \in DOMAIN Queue(p)'
    <3>1. CASE i \in DOMAIN q BY <1>6, <2>1, <3>1
    <3>2. CASE i \notin DOMAIN q
      <4>1. i = Len(q) + 1 BY <1>5, <1>6, <2>4, <3>2
      <4> QED BY <1>6, <2>2, <2>4, <4>1
    <3> QED BY <3>1, <3>2
  <2> QED BY <2>3, <2>4
<1> SUFFICES ASSUME "queue" \in loggers[p] PROVE Twin(p)'
  BY <1>8, <1>10 DEF Twin
<1>11. /\ Match(p)
       /\ \/ q = <<>> /\ Records(p) = {} /\ (t = <<>> \/ AuthDue(p))
          \/ Balanced(t) /\ Len(q) = K + 1
          \/ /\ t # <<>> /\ Balanced(Tail(t)) /\ Len(q) = K + 2
             /\ t[1] = <<"combined", q[Len(q)][2]>>
  BY DEF Twin, q, t, K
<1>12. ASSUME w[1] # "combined" PROVE /\ Records(p)' = Records(p) /\ Match(p)'
                                      /\ Cardinality(Records(p)') = K
  <2>1. Combined(p)' = Combined(p) BY <1>7, <1>12
  <2>2. Records(p)' = Records(p) BY <2>1 DEF Records, Combined
  <2>3. \A i : InQueue(p, i)' = InQueue(p, i) BY <2>2 DEF InQueue
  <2>4. \A i \in Records(p) : InQueue(p, i) \in DOMAIN q /\ q[InQueue(p, i)] = Combined(p)[i]
    BY <1>11 DEF Match, q
  <2>5. Match(p)' BY <1>6, <2>1, <2>2, <2>3, <2>4 DEF Match
  <2> QED BY <2>2, <2>5 DEF K
<1>13. CASE q = <<>> /\ Records(p) = {} /\ (t = <<>> \/ AuthDue(p))
  <2>1. w = <<"queue", "auth">> /\ u = <<>>
    BY <1>1, <1>13, TailOfOne DEF AuthDue, t
  <2>2. w[1] = "queue" BY <2>1
  <2>3. K = 0 BY <1>13, FS_EmptySet DEF K
  <2>4. Len(q) = 0 BY <1>13
  <2>5. Len(Queue(p)') = Cardinality(Records(p)') + 1 BY <1>6, <1>12, <2>2, <2>3, <2>4
  <2>6. Balanced(u)
    <3>1. DOMAIN <<>> = {} OBVIOUS
    <3> QED BY <2>1, <3>1 DEF Balanced
  <2>7. Balanced(todo[p])' BY <2>6 DEF Balanced, u
  <2> QED BY <1>10, <1>12, <2>2, <2>5, <2>7 DEF Twin
<1>14. CASE Balanced(t) /\ Len(q) = K + 1
  <2>1. /\ w[1] # "combined" /\ (w[1] # "queue" => Balanced(u))
        /\ (w[1] = "queue" => u # <<>> /\ u[1] = <<"combined", w[2]>> /\ Balanced(Tail(u)))
    BY <1>1, <1>14, BalancedTail
  <2>2. CASE w[1] # "queue"
    <3>1. Len(Queue(p)') = Cardinality(Records(p)') + 1 BY <1>6, <1>12, <1>14, <2>1, <2>2
    <3>2. Balanced(todo[p])' BY <2>1, <2>2 DEF Balanced, u
    <3> QED BY <1>10, <1>12, <2>1, <3>1, <3>2 DEF Twin
  <2>3. CASE w[1] = "queue"
    <3>1. Len(Queue(p)') = Cardinality(Records(p)') + 2 BY <1>6, <1>9, <1>12, <1>14, <2>1, <2>3
    <3>2. Balanced(Tail(todo[p]))' BY <2>1, <2>3 DEF Balanced, u
    <3>3. Queue(p)'[Len(Queue(p)')] = <<p, w[2]>> BY <1>6, <2>3
    <3>4. u[1] = <<"combined", Queue(p)'[Len(Queue(p)')][2]>> BY <2>1, <2>3, <3>3
    <3> QED BY <1>10, <1>12, <2>1, <2>3, <3>1, <3>2, <3>4 DEF Twin, u
  <2> QED BY <2>2, <2>3
<1>15. CASE /\ t # <<>> /\ Balanced(Tail(t)) /\ Len(q) = K + 2
            /\ t[1] = <<"combined", q[Len(q)][2]>>
  <2>1. w[1] = "combined" /\ w[2] = q[Len(q)][2] /\ Balanced(u) BY <1>1, <1>15
  <2>2. Balanced(todo[p])' BY <2>1 DEF Balanced, u
  <2>3. PICK n : n = Len(Combined(p)) + 1 /\ DOMAIN Combined(p)' = 1 .. n
                 /\ Combined(p)'[n] = <<p, w[2]>>
    BY <1>7, <2>1
  <2>4. Combined(p)'[n][1] = p BY <2>3
  <2>5. /\ Records(p)' = Records(p) \cup {n} /\ n \notin Records(p)
        /\ Cardinality(Records(p)') = K + 1
        /\ \A i \in Records(p) : InQueue(p, i)' = InQueue(p, i)
        /\ InQueue(p, n)' = K + 2
    BY <1>7, <2>3, <2>4, RecordsMore DEF K
  <2>6. Queue(p)' = q BY <1>6, <2>1
  <2>7. Len(Queue(p)') = Cardinality(Records(p)') + 1 BY <1>9, <1>15, <2>5, <2>6
  <2>8. Len(q) \in DOMAIN q BY <1>5, <1>9, <1>15
  <2>9. q[Len(q)] = <<p, w[2]>>
    <3>1. q[Len(q)] \in Procs \X Acts BY <1>5, <2>8
    <3>2. q[Len(q)][1] = p BY <2>8 DEF Twin, q
    <3> QED BY <2>1, <3>1, <3>2
  <2>10. Match(p)'
    <3> SUFFICES ASSUME NEW i \in Records(p)'
                 PROVE  InQueue(p, i)' \in DOMAIN q /\ q[InQueue(p, i)'] = Combined(p)'[i]
      BY <2>6 DEF Match
    <3>1. CASE i \in Records(p)
      <4>1. InQueue(p, i) \in DOMAIN q /\ q[InQueue(p, i)] = Combined(p)[i]
        BY <1>11, <3>1 DEF Match, q
      <4>2. Combined(p)'[i] = Combined(p)[i] BY <1>7, <1>9, <3>1
      <4> QED BY <2>5, <3>1, <4>1, <4>2
    <3>2. CASE i = n
      <4>1. InQueue(p, i)' = Len(q) BY <1>15, <2>5, <3>2
      <4> QED BY <2>3, <2>8, <2>9, <3>2, <4>1
    <3> QED BY <2>5, <3>1, <3>2
  <2> QED BY <1>10, <2>2, <2>7, <2>10 DEF Twin
<1> QED BY <1>11, <1>13, <1>14, <1>15

\* The queue and the combined log of every process agree after any step.
LEMMA TwinSteps ==
    ASSUME NEW p \in Procs, NEW s, NEW w, Typed, Root \in Procs, IInv, IInv',
           \A r \in Procs : Silent(r) /\ Local(r) /\ Twin(r),
           Move(p, s) \/ Idle(p) \/ Writes(p, w), NEW r \in Procs
    PROVE  Twin(r)'
<1>1. CASE Writes(p, w)
  BY <1>1, TwinOwn, TwinOther
<1>2. CASE Move(p, s) /\ r = p
  BY <1>2, TwinMove
<1>3. CASE Idle(p) \/ (Move(p, s) /\ r # p)
  <2>1. log' = log /\ ses'[r] = ses[r] /\ todo'[r] = todo[r] /\ loggers'[r] = loggers[r]
    BY <1>3 DEF Idle, Move, Apart
  <2>2. Dest(r, "combined")' = Dest(r, "combined") BY <2>1 DEF Dest
  <2>3. Queue(r)' = Queue(r) /\ Combined(r)' = Combined(r) /\ Records(r)' = Records(r)
    BY <2>1, <2>2 DEF Queue, Combined, Records
  <2>4. \A i : InQueue(r, i)' = InQueue(r, i) BY <2>3 DEF InQueue
  <2> QED BY <2>1, <2>3, <2>4, TwinSame
<1> QED BY <1>1, <1>2, <1>3

-----------------------------------------------------------------------------
(* The invariant of the records.                                            *)

\* Root was started outside a session, so its session is its own.
LEMMA RootOwn == ASSUME Typed, \A p \in Procs : Local(p), Root \in Procs PROVE ses[Root] = Root
BY DEF Typed, Local, Belongs

\* A step is a move of a main, a record written, or idle.
LEMMA EveryStep ==
    ASSUME IInv, IInv', Typed, \A p \in Procs : Local(p), Root \in Procs, [Next]_vars
    PROVE  \E p \in Procs : (\E s : Move(p, s)) \/ Idle(p) \/ (\E w : Writes(p, w))
<1>0. ses[Root] = Root BY RootOwn
<1>1. ASSUME NEW p \in Procs,
             \/ Launch(p) \/ Main(p) \/ Thread(p) \/ ServerCloses(p)
             \/ Serve(p) \/ WatcherEnds(p) \/ Kill(p)
      PROVE  (\E s : Move(p, s)) \/ Idle(p) \/ (\E w : Writes(p, w))
  BY <1>0, <1>1, IdleSteps, WriteSteps, BeginMove, StartJobMove, OtherMove, LeaveMove DEF Main
<1>2. CASE UNCHANGED vars
  <2>1. UNCHANGED <<start, ses, mine, code, told, loggers, onClose, todo, log, refs, pc>>
    BY <1>2 DEF vars, idVars, webVars
  <2>2. Functional' /\ Typed' BY <2>1 DEF IInv, Typed
  <2>3. Idle(Root) BY <2>1, <2>2 DEF Idle
  <2> QED BY <2>3
<1> QED BY <1>1, <1>2 DEF Next

\* RInv is inductive, beside IInv.
LEMMA RInvInit == ASSUME Init, Root \in Procs PROVE RInv
<1>1. Typed
  <2>1. <<>> \in Seq(Procs \X Acts)
    <3> HIDE DEF Acts
    <3> QED OBVIOUS
  <2>2. \A l \in Logs : log[l] \in Seq(Procs \X Acts) BY <2>1 DEF Init
  <2>3. /\ ses = [p \in Procs |-> ses[p]] /\ mine = [p \in Procs |-> mine[p]]
        /\ code = [p \in Procs |-> code[p]] /\ told = [p \in Procs |-> told[p]]
        /\ onClose \subseteq Procs /\ \A p \in Procs : ses[p] \in Procs
    BY DEF Init
  <2>4. /\ start \in [Procs -> Start]
        /\ start[Root].program = "startjob" /\ start[Root].how = "alone"
    <3> DEFINE x == [program |-> "startjob", how |-> "alone", words |-> 2]
    <3>1. PICK f \in [Procs -> Starts] : start = [f EXCEPT ![Root] = x] BY DEF Init
    <3>2. x \in Start /\ x.program = "startjob" /\ x.how = "alone" BY DEF Start, OpeningPrograms
    <3>3. Starts \subseteq Start BY ProgramsAssumption
    <3> HIDE DEF x, Start
    <3>4. start \in [Procs -> Start] /\ start[Root] = x BY <3>1, <3>2, <3>3
    <3> QED BY <3>2, <3>4
  <2> QED BY <2>2, <2>3, <2>4 DEF Typed
<1>2. ASSUME NEW p \in Procs PROVE Local(p) /\ Silent(p) /\ Noting(p) /\ Twin(p)
  <2>1. /\ pc[p] \in {"off", "context"} /\ todo[p] = <<>> /\ loggers[p] = {} /\ refs[p] = {}
        /\ code[p] = "none" /\ ses[p] = p /\ mine[p] = FALSE /\ onClose = {}
        /\ \A l \in Logs : log[l] = <<>>
    BY DEF Init
  <2>2. DOMAIN <<>> = {} OBVIOUS
  <2>3. Local(p)
    BY <2>1 DEF Local, Phase, Codes, Belongs, Equipped, Unlogged, Early, Working, Job, Leaving, Member
  <2>4. Silent(p) BY <2>1, <2>2 DEF Silent, NoRecord
  <2>5. \A kind \in Kinds, act \in Acts : ~Noted(p, kind, act)
    <3>1. \A kind \in Kinds : log[Dest(p, kind)] = <<>> BY <1>1, <2>1, DestInLogs
    <3> QED BY <2>1, <2>2, <3>1 DEF Noted, Told, Due
  <2>6. Noting(p)
    <3>1. {"cis", "session", "combined"} \subseteq Kinds BY DEF Kinds
    <3>2. "error" \in Acts /\ "start_job" \in Acts BY DEF Acts
    <3> QED BY <2>1, <2>5, <3>1, <3>2 DEF Noting, Erred, Begun, Teed, Equipped
  <2>7. Twin(p)
    <3>1. Queue(p) = <<>>
      <4>1. <<"queue", p>> \in Logs BY DEF Logs
      <4> QED BY <2>1, <4>1 DEF Queue
    <3> QED BY <2>1, <2>2, <3>1 DEF Twin
  <2> QED BY <2>3, <2>4, <2>6, <2>7
<1> QED BY <1>1, <1>2 DEF RInv

LEMMA RInvNext == ASSUME IInv, IInv', RInv, Root \in Procs, [Next]_vars PROVE RInv'
<1>1. Typed /\ ses[Root] = Root /\ \A p \in Procs : Local(p) /\ Silent(p) /\ Noting(p) /\ Twin(p)
  BY RootOwn DEF RInv
<1>2. PICK p \in Procs : (\E s : Move(p, s)) \/ Idle(p) \/ (\E w : Writes(p, w))
  BY <1>1, EveryStep
<1>3. PICK s, w : Move(p, s) \/ Idle(p) \/ Writes(p, w)
  BY <1>2
<1>4. Typed'
  BY <1>3 DEF Move, Apart, Idle, Writes
<1>5. \A r \in Procs : Local(r)' BY <1>1, <1>3, LocalSteps
<1>6. \A r \in Procs : Silent(r)' BY <1>1, <1>3, SilentSteps
<1>7. \A r \in Procs : Noting(r)' BY <1>1, <1>3, <1>5, NotingSteps
<1>8. \A r \in Procs : Twin(r)' BY <1>1, <1>3, TwinSteps
<1> QED BY <1>4, <1>5, <1>6, <1>7, <1>8 DEF RInv

LEMMA RInvAlways == Spec => []RInv
<1>1. Root \in Procs BY ProgramsAssumption
<1>2. Init => RInv BY <1>1, RInvInit
<1>3. IInv /\ IInv' /\ RInv /\ [Next]_vars => RInv' BY <1>1, RInvNext
<1> QED BY <1>2, <1>3, IInvAlways, PTL DEF Spec

\* The property's word for a record in a log is the proof's.
LEMMA HasTold == ASSUME NEW p, NEW kind, NEW act PROVE Has(p, kind, act) <=> Told(p, kind, act)
BY DEF Has, Told, ToSet

\* However many programs write to the same logs, whatever fails and whoever is killed:
\* a process that has ended and returned zero has an error in no log; one that failed
\* is on stderr, and in the cis log, the session's and the combined one, or is one of
\* those the property lists, which are in the cis log only, or in none (tee_log, and
\* the returns, exits and exceptions of the mains).
THEOREM FailuresRecorded == Spec => []FailuresReported
<1>1. RInv => FailuresReported
  <2> DEFINE Three == {"cis", "session", "combined"}
  <2> SUFFICES ASSUME RInv, NEW p \in Procs, pc[p] \in {"exited", "crashed"}
               PROVE  IF code[p] = "zero" THEN Erring(p) = {}
                      ELSE \/ Erring(p) = Three /\ told[p] = {"stderr"}
                           \/ Erring(p) = {"cis"} /\ FailedCron(p)
                           \/ Erring(p) = {} /\ Unrecorded(p)
    BY DEF FailuresReported, FailedCron
  <2>1. Phase(p) /\ Codes(p) /\ Noting(p) /\ Typed BY DEF RInv, Local
  <2>2. /\ \A kind, act : Has(p, kind, act) => Noted(p, kind, act)
        /\ pc[p] = "exited" => \A kind, act : Noted(p, kind, act) => Has(p, kind, act)
    <3>1. DOMAIN <<>> = {} OBVIOUS
    <3>2. pc[p] = "exited" => \A kind, act : ~Due(p, kind, act) BY <2>1, <3>1 DEF Noting, Due
    <3> QED BY <3>2, HasTold DEF Noted
  <2>3. CASE pc[p] = "crashed"
    <3>1. code[p] \notin {"zero", "one"} /\ told[p] = {"stderr"}
      BY <2>1, <2>3 DEF Codes, Leaving
    <3>2. \A kind \in Three : ~Noted(p, kind, "error")
      BY <2>1, <3>1 DEF Noting, Erred, Failed, FailedCron
    <3> QED BY <2>2, <2>3, <3>1, <3>2 DEF Erring, Unrecorded
  <2>4. CASE pc[p] = "exited"
    <3>1. code[p] \in {"zero", "one"} BY <2>1, <2>4 DEF Codes
    <3>2. Erring(p) = {kind \in Three : Noted(p, kind, "error")} BY <2>2, <2>4 DEF Erring
    <3>3. CASE code[p] = "zero"
      <4>1. \A kind \in Three : ~Noted(p, kind, "error")
        BY <2>1, <3>3 DEF Noting, Erred, Failed, FailedCron
      <4> QED BY <3>2, <3>3, <4>1
    <3>4. CASE code[p] = "one" /\ Equipped(p)
      <4>1. \A kind \in Three : Noted(p, kind, "error") <=> told[p] = {"stderr"}
        BY <2>1, <3>4 DEF Noting, Erred, Failed
      <4>2. CASE told[p] = {"stderr"}
        BY <3>2, <3>4, <4>1, <4>2
      <4>3. CASE told[p] # {"stderr"}
        <5>1. told[p] = {"stdout"} /\ start[p].program = "startjob"
          BY <2>1, <3>4, <4>3 DEF Codes
        <5>2. ~Has(p, "session", "start_job") BY <2>1, <2>2, <3>4, <4>3 DEF Noting, Begun
        <5> QED BY <3>2, <3>4, <4>1, <4>3, <5>1, <5>2 DEF Unrecorded
      <4> QED BY <4>2, <4>3
    <3>5. CASE code[p] = "one" /\ ~Equipped(p) /\ Opens(p)
      <4>1. \A kind \in Three : ~Noted(p, kind, "error")
        BY <2>1, <3>5 DEF Noting, Erred, FailedCron, Opens, OpeningPrograms
      <4>2. told[p] # {} BY <2>1, <3>5 DEF Codes, StartsDaemon, Opens, OpeningPrograms
      <4> QED BY <3>2, <3>5, <4>1, <4>2 DEF Unrecorded, HasLogs, Equipped
    <3>6. CASE code[p] = "one" /\ ~Opens(p)
      <4>1. ~Equipped(p) BY <2>1, <3>6 DEF Phase, Equipped
      <4>2. \A kind \in Three : Noted(p, kind, "error") => kind = "cis" /\ FailedCron(p)
        BY <2>1, <4>1 DEF Noting, Erred
      <4>3. CASE Noted(p, "cis", "error")
        <5>1. Erring(p) = {"cis"} BY <3>2, <4>2, <4>3
        <5> QED BY <3>6, <4>2, <4>3, <5>1
      <4>4. CASE ~Noted(p, "cis", "error")
        <5>1. Erring(p) = {} BY <3>2, <4>2, <4>4
        <5>2. start[p].program \in {"cis_cron", "cis_cron_daemon", "maintenance"}
          BY <2>1, <3>6 DEF Typed, Start, Opens
        <5>3. CASE "cis" \in loggers[p]
          BY <2>1, <3>6, <5>1, <5>2, <5>3 DEF Codes, StartsDaemon, Unrecorded
        <5>4. CASE "cis" \notin loggers[p]
          <6>1. ~HasLogs(p) BY <3>6, <5>4 DEF HasLogs
          <6>2. told[p] # {} \/ (told[p] = {} /\ StartsDaemon(p)) BY <2>1, <3>6 DEF Codes
          <6> QED BY <3>6, <5>1, <6>1, <6>2 DEF StartsDaemon, Unrecorded
        <5> QED BY <5>3, <5>4
      <4> QED BY <4>3, <4>4
    <3> QED BY <3>1, <3>3, <3>4, <3>5, <3>6
  <2> QED BY <2>3, <2>4
<1> QED BY <1>1, RInvAlways, PTL

\* The combined log has the records of a process that the webui's queue has, in their
\* order, with at most one missing, and all that it told the cis log and the session
\* log, but for the record it is at (webui_log, init_offline_webui_log).
THEOREM OneStory == Spec => []SameStory
<1>1. RInv => SameStory
  <2> SUFFICES ASSUME RInv, NEW p \in Procs, Opens(p)
               PROVE  /\ "queue" \in loggers[p] =>
                             Match(p) /\ Len(Queue(p)) <= Cardinality(Records(p)) + 2
                      /\ \A kind \in {"cis", "session"}, act \in Acts :
                             Has(p, kind, act) => Has(p, "combined", act) \/ Due(p, "combined", act)
    <3>1. \A r : Dest(r, "queue") = <<"queue", r>> BY DEF Dest
    <3> QED BY <3>1 DEF SameStory, Match, Queue, Combined, Due
  <2>1. Noting(p) /\ Twin(p) /\ Typed BY DEF RInv
  <2>2. Root \in Procs BY ProgramsAssumption
  <2>3. Cardinality(Records(p)) \in Nat BY <2>1, <2>2, RecordsFinite
  <2>4. ASSUME "queue" \in loggers[p]
        PROVE  Match(p) /\ Len(Queue(p)) <= Cardinality(Records(p)) + 2
    <3>1. Queue(p) = <<>> => Len(Queue(p)) = 0 OBVIOUS
    <3> QED BY <2>1, <2>3, <2>4, <3>1 DEF Twin
  <2>5. ASSUME NEW kind \in {"cis", "session"}, NEW act \in Acts, Has(p, kind, act)
        PROVE  Has(p, "combined", act) \/ Due(p, "combined", act)
    BY <2>1, <2>5, HasTold DEF Noting, Teed, Noted
  <2> QED BY <2>4, <2>5
<1> QED BY <1>1, RInvAlways, PTL

-----------------------------------------------------------------------------
(* The opening of a session comes first: over the moves,                    *)

\* A main that moves is running.
LEMMA MoveLives ==
    ASSUME NEW p \in Procs, NEW s, Move(p, s)
    PROVE  pc[p] \notin Over \cup {"off"} /\ pc'[p] # "off"
<1> USE DEF From, Over, Working
<1>1. Moves(p, s) BY DEF Move
<1>2. CASE Passes(p, s) BY <1>2 DEF Passes
<1>3. CASE Invokes(p, s) \/ Equips(p, s) \/ Authenticates(p, s)
  BY <1>3 DEF Invokes, Equips, Authenticates
<1>4. CASE Gives(p, s) \/ Quits(p, s) \/ Crashes(p, s) BY <1>4 DEF Gives, Quits, Crashes
<1>5. CASE Reports(p, s) \/ Complains(p, s) BY <1>5 DEF Reports, Complains
<1>6. CASE Tells(p, s) \/ Calls(p, s) \/ OpensIt(p, s) BY <1>6 DEF Tells, Calls, OpensIt
<1> QED BY <1>1, <1>2, <1>3, <1>4, <1>5, <1>6 DEF Moves

\* Who tells the combined log something opens its session, or has opened it, or
\* is in Root's; or tells it of an error.
LEMMA CombinedBy ==
    ASSUME NEW p \in Procs, NEW s, Local(p), Move(p, s), NEW a, In(s, <<"combined", a>>)
    PROVE  /\ Equipped(p) /\ Member(p) /\ Opens(p)
           /\ OpensIt(p, s) \/ a = "error" \/ p \in onClose \/ ~mine[p]
<1> USE DEF From
<1>1. "combined" \in loggers[p] BY Recorded
<1>2. Phase(p) /\ Belongs(p) /\ Moves(p, s) BY DEF Local, Move
<1>3. Equipped(p) /\ Opens(p) BY <1>1, <1>2 DEF Phase, Equipped
<1>4. Member(p) BY <1>2, <1>3 DEF Belongs
<1>5. s # <<>>
  <2>1. DOMAIN <<>> = {} OBVIOUS
  <2> QED BY <2>1 DEF In
<1>6. CASE Passes(p, s) \/ Invokes(p, s) \/ Equips(p, s) \/ Gives(p, s) \/ Quits(p, s) \/ Crashes(p, s)
  BY <1>5, <1>6 DEF Passes, Invokes, Equips, Gives, Quits, Crashes
<1>7. CASE Authenticates(p, s)
  <2>1. s = <<<<"queue", "auth">>>> BY <1>5, <1>7 DEF Authenticates
  <2>2. DOMAIN s = {1} /\ s[1][1] = "queue" BY <2>1
  <2>3. \A y : <<"combined", y>>[1] = "combined" OBVIOUS
  <2> QED BY <2>2, <2>3 DEF In
<1>8. CASE Reports(p, s)
  <2>1. s = tee_log(p, "error") /\ "error" \in Acts BY <1>8 DEF Reports, Acts
  <2>2. a = "error" BY <2>1, InTee
  <2> QED BY <1>3, <1>4, <2>2
<1>9. CASE Complains(p, s) BY <1>3, <1>9 DEF Complains, Opens, OpeningPrograms
<1>10. CASE Tells(p, s)
  <2>1. mine[p] => p \in onClose BY <1>2, <1>3, <1>10 DEF Tells, Belongs, Job, Phase
  <2> QED BY <1>3, <1>4, <2>1
<1>11. CASE Calls(p, s) BY <1>3, <1>4, <1>11 DEF Calls
<1>12. CASE OpensIt(p, s) BY <1>3, <1>4, <1>12
<1> QED BY <1>2, <1>6, <1>7, <1>8, <1>9, <1>10, <1>11, <1>12 DEF Moves

\* The opening is the first that its caller tells the combined log.
LEMMA OpenFirst ==
    ASSUME NEW p \in Procs, NEW s, Equipped(p), s = cis_log(p, "open") \o webui_log(p, "id")
    PROVE  /\ In(s, <<"combined", "open">>)
           /\ \A j \in DOMAIN s : s[j][1] = "combined" =>
                  \/ s[j][2] = "open"
                  \/ \E k \in DOMAIN s : k < j /\ s[k] = <<"combined", "open">>
<1> DEFINE T == Kinds \X Acts
           c == cis_log(p, "open")
           w == webui_log(p, "id")
<1>1. "open" \in Acts /\ "id" \in Acts BY DEF Acts
<1>2. c \in Seq(T) /\ w \in Seq(T) BY <1>1, InCis, InWebui
<1>3. \A x, y : In(c, <<x, y>>) => y = "open" BY <1>1, InCis
<1>4. In(c, <<"combined", "open">>) BY <1>1, InCis DEF Equipped
<1>5. \A i \in DOMAIN c : c[i] = <<c[i][1], c[i][2]>>
  <2> TAKE i \in DOMAIN c
  <2>1. c[i] \in T
    <3> HIDE DEF T, c
    <3> QED BY <1>2
  <2> HIDE DEF c
  <2> QED BY <2>1
<1>6. s = c \o w OBVIOUS
<1> HIDE DEF T, c, w
<1>7. /\ DOMAIN s = 1 .. Len(c) + Len(w) /\ Len(c) \in Nat /\ Len(w) \in Nat
      /\ DOMAIN c = 1 .. Len(c)
      /\ \A i \in 1 .. Len(c) + Len(w) : s[i] = IF i <= Len(c) THEN c[i] ELSE w[i - Len(c)]
  <2> DEFINE u == c \o w
  <2>1. /\ DOMAIN u = 1 .. Len(c) + Len(w) /\ Len(c) \in Nat /\ Len(w) \in Nat
        /\ DOMAIN c = 1 .. Len(c)
        /\ \A i \in 1 .. Len(c) + Len(w) : u[i] = IF i <= Len(c) THEN c[i] ELSE w[i - Len(c)]
    BY <1>2, ConcatFacts
  <2>2. s = u BY <1>6
  <2> HIDE DEF u
  <2> QED BY <2>1, <2>2
<1>8. PICK k \in DOMAIN c : c[k] = <<"combined", "open">> BY <1>4 DEF In
<1>9. k \in DOMAIN s /\ s[k] = <<"combined", "open">> /\ k <= Len(c) BY <1>7, <1>8
<1>10. ASSUME NEW j \in DOMAIN s PROVE s[j][2] = "open" \/ k < j
  <2>1. CASE j <= Len(c)
    <3>1. j \in DOMAIN c /\ s[j] = c[j] BY <1>7, <2>1
    <3>2. In(c, <<c[j][1], c[j][2]>>) BY <1>5, <3>1 DEF In
    <3> QED BY <1>3, <3>1, <3>2
  <2>2. CASE ~(j <= Len(c)) BY <1>7, <1>8, <2>2
  <2> QED BY <2>1, <2>2
<1> QED BY <1>9, <1>10 DEF In

\* The combined log of a session is a sequence of records.
LEMMA CombFacts ==
    ASSUME Typed, NEW s \in Procs
    PROVE  /\ <<"combined", s>> \in Logs /\ Comb(s) \in Seq(Procs \X Acts)
           /\ Len(Comb(s)) \in Nat /\ DOMAIN Comb(s) = 1 .. Len(Comb(s))
           /\ Comb(s) # <<>> => 1 \in DOMAIN Comb(s)
           /\ \A i \in DOMAIN Comb(s) : /\ Comb(s)[i][1] \in Procs
                                        /\ Comb(s)[i] = <<Comb(s)[i][1], Comb(s)[i][2]>>
<1> DEFINE T == Procs \X Acts
           c == Comb(s)
<1>1. <<"combined", s>> \in Logs BY DEF Logs
<1>2. c \in Seq(T) BY <1>1 DEF Typed, Comb
<1> HIDE DEF T, c
<1>3. Len(c) \in Nat /\ DOMAIN c = 1 .. Len(c) /\ (c # <<>> => 1 \in DOMAIN c) BY <1>2
<1>4. \A i \in DOMAIN c : c[i] \in T BY <1>2
<1>5. \A x \in T : x[1] \in Procs /\ x = <<x[1], x[2]>> BY DEF T
<1> QED BY <1>1, <1>2, <1>3, <1>4, <1>5 DEF T, c

\* Nothing is in the empty call.
LEMMA Empty == DOMAIN <<>> = {}
OBVIOUS

\* A process that opens its session is the first in it.
LEMMA OpeningMove ==
    ASSUME NEW p \in Procs, NEW s, Typed, Root \in Procs, Local(p), Silent(p), Framed,
           Move(p, s), OpensIt(p, s)
    PROVE  Opening(p)'
<1> USE DEF From
<1>1. pc[p] = "main" /\ mine[p] /\ StartJobOf(p) /\ ses'[p] = ses[p] /\ todo'[p] = s /\ log' = log
      /\ s = cis_log(p, "open") \o webui_log(p, "id")
  BY DEF OpensIt, Keeps, Move
<1>2. Equipped(p)
  BY <1>1 DEF Local, Phase, Working, StartJobOf, Opens, OpeningPrograms
<1>3. ses[p] = p BY <1>1, <1>2 DEF Local, Belongs, Member
<1>4. /\ In(s, <<"combined", "open">>)
      /\ \A j \in DOMAIN s : s[j][1] = "combined" =>
             \/ s[j][2] = "open"
             \/ \E k \in DOMAIN s : k < j /\ s[k] = <<"combined", "open">>
  BY <1>1, <1>2, OpenFirst
<1>5. \A i \in DOMAIN Comb(p) : Comb(p)[i][1] # p
  <2>1. NoRecord(p) BY <1>1 DEF Silent, Fresh
  <2>2. <<"combined", p>> \in Logs /\ <<"combined", p>>[1] # "queue" BY CombFacts
  <2> QED BY <2>1, <2>2 DEF NoRecord, Comb
<1>6. Comb(p) = <<>>
  <2> SUFFICES ASSUME Comb(p) # <<>> PROVE FALSE
    OBVIOUS
  <2>1. 1 \in DOMAIN Comb(p) BY CombFacts
  <2>2. First(p) BY DEF Framed
  <2>3. Comb(p)[1] = <<p, "error">> \/ Comb(p)[1] = <<p, "open">> BY <2>1, <2>2 DEF First, Opened
  <2>4. \A y : <<p, y>>[1] = p OBVIOUS
  <2> QED BY <1>5, <2>1, <2>3, <2>4
<1>7. Comb(p)' = <<>> BY <1>1, <1>6 DEF Comb
<1>8. Due(p, "combined", "open")' BY <1>1, <1>4 DEF Due, In
<1> QED BY <1>1, <1>3, <1>4, <1>7, <1>8 DEF Opening

\* A main has its session once and for all when it is invoked,
LEMMA SesMoves ==
    ASSUME NEW p \in Procs, NEW s, Move(p, s)
    PROVE  ses'[p] = ses[p] \/ (pc[p] = "session" /\ s = <<>>)
BY DEF Move, Moves, Passes, Invokes, Equips, Authenticates, Gives, Quits, Crashes, Reports,
       Complains, Tells, Calls, OpensIt, Keeps, From

\* and a close handler when it opens it.
LEMMA OnCloseMoves ==
    ASSUME NEW p \in Procs, NEW s, Move(p, s)
    PROVE  onClose' = onClose \/ (OpensIt(p, s) /\ onClose' = onClose \cup {p})
BY DEF Move, Moves, Passes, Invokes, Equips, Authenticates, Gives, Quits, Crashes, Reports,
       Complains, Tells, Calls, OpensIt

\* Opened sessions, and those about to be, stay so.
LEMMA OpeningSame ==
    ASSUME NEW r, Opening(r), ses'[r] = ses[r], Comb(r)' = Comb(r), todo'[r] = todo[r]
    PROVE  Opening(r)'
BY DEF Opening, Due

\* Who has nothing to record is not about to open its session.
LEMMA NotOpening ==
    ASSUME NEW r, todo[r] = <<>> PROVE ~Opening(r)
BY Empty DEF Opening, Due

\* Only a process whose session is opened, or being opened, starts to record in it
\* anything but its own error.
LEMMA FramedMove ==
    ASSUME NEW p \in Procs, NEW s, Typed, Root \in Procs, Framed,
           \A r \in Procs : Local(r) /\ Silent(r), Move(p, s)
    PROVE  Framed'
<1>1. /\ log' = log /\ start' = start /\ todo[p] = <<>> /\ todo'[p] = s
      /\ \A r \in Procs \ {p} : ses'[r] = ses[r] /\ todo'[r] = todo[r] /\ pc'[r] = pc[r]
                                /\ (r \in onClose' <=> r \in onClose)
  BY DEF Move, Apart
<1>2. \A r : Comb(r)' = Comb(r) /\ (Opened(r) => Opened(r)')
  BY <1>1 DEF Comb, Opened
<1>3. \A r \in Procs : First(r)'
  BY <1>2 DEF Framed, First
<1>4. ses[Root] = Root BY RootOwn
<1>5. ASSUME NEW r \in Procs PROVE Authors(r)'
  <2> SUFFICES ASSUME NEW i \in DOMAIN Comb(r) PROVE ses'[Comb(r)[i][1]] = r
    BY <1>2 DEF Authors
  <2> DEFINE q == Comb(r)[i][1]
  <2>1. q \in Procs /\ <<"combined", r>> \in Logs BY CombFacts
  <2>2. ses[q] = r BY DEF Framed, Authors
  <2>3. CASE q = p
    <3>1. ~NoRecord(p)
      <4>1. <<"combined", r>>[1] = "combined" OBVIOUS
      <4> QED BY <2>1, <2>3, <4>1 DEF NoRecord, Comb
    <3>2. pc[p] # "session" BY <3>1 DEF Silent, Fresh, Early, Unlogged
    <3>3. ses'[p] = ses[p] BY <3>2, SesMoves
    <3> QED BY <2>2, <2>3, <3>3
  <2>4. CASE q # p BY <1>1, <2>1, <2>2, <2>4
  <2> QED BY <2>3, <2>4
<1>6. ASSUME NEW r \in Procs, r # p PROVE Covered(r)'
  <2>1. Covered(r) BY DEF Framed
  <2>2. Opening(r) => Opening(r)' BY <1>1, <1>2, <1>6, OpeningSame
  <2> QED BY <1>1, <1>2, <1>6, <2>1, <2>2 DEF Covered
<1>7. \A r \in onClose : Opened(r) \/ Opening(r) BY DEF Framed
<1>8. p \in onClose => Opened(p) BY <1>1, <1>7, NotOpening
<1>9. pc[p] # "off" /\ pc'[p] # "off" BY MoveLives
<1>10. start[p].how # "alone" => Opened(Root) BY <1>9 DEF Framed
<1>11. OpensIt(p, s) => Opening(p)'
  <2>1. Local(p) /\ Silent(p) OBVIOUS
  <2> QED BY <2>1, OpeningMove
<1>12. Covered(p)'
  <2> SUFFICES ASSUME ~OpensIt(p, s), NEW i \in DOMAIN s, s[i][1] = "combined"
               PROVE  Opened(ses[p])' \/ (ses'[p] = p /\ s[i][2] = "error")
    BY <1>1, <1>11 DEF Covered
  <2>1. ses'[p] = ses[p]
    BY SesMoves, Empty
  <2>2. s \in Seq(Kinds \X Acts) BY Recorded
  <2>3. s[i] = <<"combined", s[i][2]>>
    <3>1. s[i] \in Kinds \X Acts
      <4> HIDE DEF Kinds, Acts
      <4> QED BY <2>2
    <3> QED BY <3>1
  <2>4. In(s, <<"combined", s[i][2]>>) BY <2>3 DEF In
  <2>5. /\ Equipped(p) /\ Member(p)
        /\ s[i][2] = "error" \/ p \in onClose \/ ~mine[p]
    <3>1. Local(p) OBVIOUS
    <3> QED BY <2>4, <3>1, CombinedBy
  <2>6. CASE mine[p]
    <3>1. ses[p] = p BY <2>5, <2>6 DEF Member
    <3> QED BY <1>2, <1>8, <2>1, <2>5, <2>6, <3>1
  <2>7. CASE ~mine[p]
    <3>1. ses[p] = Root /\ Opened(Root) BY <1>10, <2>5, <2>7 DEF Member
    <3> QED BY <1>2, <2>1, <3>1
  <2> QED BY <2>6, <2>7
<1>13. ASSUME NEW r \in onClose' PROVE Opened(r)' \/ Opening(r)'
  <2>1. r \in onClose \/ (r = p /\ OpensIt(p, s)) BY <1>13, OnCloseMoves
  <2>2. CASE r = p BY <1>2, <1>8, <1>11, <2>1, <2>2
  <2>3. CASE r # p
    <3>1. r \in Procs BY <2>1 DEF Typed
    <3> QED BY <1>1, <1>2, <1>7, <2>1, <2>3, <3>1, OpeningSame
  <2> QED BY <2>2, <2>3
<1>14. ASSUME NEW r \in Procs, pc'[r] # "off", start'[r].how # "alone" PROVE Opened(Root)'
  BY <1>1, <1>2, <1>10, <1>14 DEF Framed
<1>15. ASSUME Noted(Root, "session", "start_job")' PROVE Opened(Root)'
  <2>1. "session" \in Kinds BY DEF Kinds
  <2>2. CASE Noted(Root, "session", "start_job") BY <1>2, <2>2 DEF Framed
  <2>3. CASE ~Noted(Root, "session", "start_job")
    <3>1. Silent(p) OBVIOUS
    <3>2. p = Root /\ In(s, <<"session", "start_job">>)
      BY <1>15, <2>1, <2>3, <3>1, NotedMove
    <3>3. pc[p] = "build"
      <4>1. Local(p) OBVIOUS
      <4> QED BY <3>2, <4>1, Recorded
    <3>4. p \in onClose
      <4>1. Phase(p) /\ Belongs(p) BY DEF Local
      <4>2. Equipped(p)
        BY <3>3, <4>1 DEF Phase, Working, Job, Opens, OpeningPrograms
      <4>3. mine[p]
        <5>1. start[p].how = "alone" BY <3>2 DEF Typed
        <5> QED BY <4>1, <4>2, <5>1 DEF Belongs, Member
      <4> QED BY <3>3, <4>1, <4>3 DEF Belongs, Job
    <3> QED BY <1>2, <1>8, <3>2, <3>4
  <2> QED BY <2>2, <2>3
<1>16. \A r \in Procs : Covered(r)' BY <1>6, <1>12
<1> QED BY <1>3, <1>5, <1>13, <1>14, <1>15, <1>16 DEF Framed

-----------------------------------------------------------------------------
(* over what is written,                                                    *)

\* What the writing of a record does to the combined logs.
LEMMA CombWrites ==
    ASSUME NEW p \in Procs, NEW w, Typed, Root \in Procs, Writes(p, w), NEW r \in Procs
    PROVE  /\ DOMAIN Comb(r) \subseteq DOMAIN Comb(r)'
           /\ \A i \in DOMAIN Comb(r) : Comb(r)'[i] = Comb(r)[i]
           /\ ~(w[1] = "combined" /\ ses[p] = r) => Comb(r)' = Comb(r)
           /\ \A i \in DOMAIN Comb(r)' :
                  \/ i \in DOMAIN Comb(r) /\ Comb(r)'[i] = Comb(r)[i]
                  \/ /\ w[1] = "combined" /\ ses[p] = r /\ i = Len(Comb(r)) + 1
                     /\ Comb(r)'[i] = <<p, w[2]>>
           /\ w[1] = "combined" /\ ses[p] = r =>
                  /\ Len(Comb(r)) + 1 \in DOMAIN Comb(r)'
                  /\ Comb(r)'[Len(Comb(r)) + 1] = <<p, w[2]>>
           /\ Comb(r) # <<>> => Comb(r)' # <<>> /\ Comb(r)'[1] = Comb(r)[1]
           /\ Opened(r) => Opened(r)'
<1> DEFINE l == <<"combined", r>>
           e == Dest(p, w[1])
<1>1. l \in Logs /\ w[1] \in Kinds BY CombFacts DEF Writes
<1>2. (l = e) <=> (w[1] = "combined" /\ ses[p] = r)
  BY <1>1, DestInLogs DEF Kinds
<1>3. Comb(r) = log[l] /\ Comb(r)' = log'[l] BY DEF Comb
<1>4. e = Dest(p, w[1]) OBVIOUS
<1> HIDE DEF l, e
<1>5. /\ DOMAIN log[l] \subseteq DOMAIN log'[l]
      /\ \A i \in DOMAIN log[l] : log'[l][i] = log[l][i]
      /\ l # e => log'[l] = log[l]
      /\ l = e => /\ DOMAIN log[l] = 1 .. Len(log[l]) /\ Len(log[l]) \in Nat
                  /\ DOMAIN log'[l] = 1 .. Len(log[l]) + 1
                  /\ log'[l][Len(log[l]) + 1] = <<p, w[2]>>
  BY <1>1, <1>4, WritesRecords
<1>6. \A i \in DOMAIN log'[l] : \/ i \in DOMAIN log[l] /\ log'[l][i] = log[l][i]
                                \/ l = e /\ i = Len(log[l]) + 1 /\ log'[l][i] = <<p, w[2]>>
  BY <1>5
<1>7. l = e => Len(log[l]) + 1 \in DOMAIN log'[l] BY <1>5
<1>8. log[l] # <<>> => log'[l] # <<>> /\ log'[l][1] = log[l][1]
  <2> HAVE log[l] # <<>>
  <2>1. 1 \in DOMAIN log[l] BY <1>3, CombFacts
  <2>2. 1 \in DOMAIN log'[l] /\ log'[l][1] = log[l][1] BY <1>5, <2>1
  <2> QED BY <2>2, Empty
<1>9. Opened(r) => Opened(r)' BY <1>3, <1>8 DEF Opened
<1> QED BY <1>2, <1>3, <1>5, <1>6, <1>7, <1>8, <1>9

\* A step of writing takes the first of what is left.
LEMMA TodoWrites ==
    ASSUME NEW p \in Procs, NEW w, IInv, Writes(p, w)
    PROVE  /\ 1 \in DOMAIN todo[p] /\ w = todo[p][1] /\ w = <<w[1], w[2]>> /\ w[1] \in Kinds
           /\ Len(todo[p]) \in Nat /\ DOMAIN todo[p] = 1 .. Len(todo[p])
           /\ DOMAIN todo'[p] = 1 .. Len(todo[p]) - 1 /\ Len(todo'[p]) = Len(todo[p]) - 1
           /\ \A i \in DOMAIN todo'[p] : i + 1 \in DOMAIN todo[p] /\ todo'[p][i] = todo[p][i + 1]
           /\ \A i \in DOMAIN todo[p] :
                  i = 1 \/ (i - 1 \in DOMAIN todo'[p] /\ todo'[p][i - 1] = todo[p][i])
           /\ pc[p] # "off"
<1> DEFINE T == Kinds \X Acts
           t == todo[p]
           u == todo'[p]
<1>1. t \in Seq(T) /\ t # <<>> /\ u = Tail(t) /\ w = t[1] /\ w \in T /\ Authenticated(p)
  BY DEF Writes, IInv, Own, Authenticated
<1>2. pc[p] # "off" BY <1>1 DEF Authenticated, Early, Unlogged
<1>3. w = <<w[1], w[2]>> /\ w[1] \in Kinds BY <1>1
<1> HIDE DEF T, t, u
<1>4. /\ 1 \in DOMAIN t /\ Len(u) = Len(t) - 1 /\ Len(t) \in Nat
      /\ DOMAIN t = 1 .. Len(t) /\ DOMAIN u = 1 .. Len(t) - 1
      /\ \A i \in DOMAIN u : i + 1 \in DOMAIN t /\ u[i] = t[i + 1]
      /\ \A i \in DOMAIN t : i = 1 \/ (i - 1 \in DOMAIN u /\ u[i - 1] = t[i])
  BY <1>1, HeadAndTail
<1> QED BY <1>1, <1>2, <1>3, <1>4 DEF t, u

\* The opening is written before all else that is due in the combined log.
LEMMA OpeningWrites ==
    ASSUME NEW p \in Procs, NEW w, Typed, Root \in Procs, IInv, Writes(p, w), Opening(p)
    PROVE  /\ w[1] = "combined" => w[2] = "open" /\ Opened(p)'
           /\ w[1] # "combined" => Opening(p)'
<1> DEFINE t == todo[p]
           u == todo'[p]
<1>1. /\ 1 \in DOMAIN t /\ w = t[1] /\ Len(t) \in Nat /\ DOMAIN t = 1 .. Len(t)
      /\ DOMAIN u = 1 .. Len(t) - 1 /\ ses'[p] = ses[p]
      /\ \A i \in DOMAIN u : i + 1 \in DOMAIN t /\ u[i] = t[i + 1]
      /\ \A i \in DOMAIN t : i = 1 \/ (i - 1 \in DOMAIN u /\ u[i - 1] = t[i])
  BY TodoWrites DEF Writes
<1>2. /\ ses[p] = p /\ Comb(p) = <<>> /\ \E i \in DOMAIN t : t[i] = <<"combined", "open">>
      /\ \A j \in DOMAIN t : t[j][1] = "combined" =>
             \/ t[j][2] = "open"
             \/ \E k \in DOMAIN t : k < j /\ t[k] = <<"combined", "open">>
  BY DEF Opening, Due
<1> HIDE DEF t, u
<1>3. ASSUME w[1] = "combined" PROVE w[2] = "open" /\ Opened(p)'
  <2>1. ~\E k \in DOMAIN t : k < 1 BY <1>1
  <2>2. w[2] = "open" BY <1>1, <1>2, <1>3, <2>1
  <2>3. Len(Comb(p)) + 1 = 1
    <3>1. Len(Comb(p)) = 0 BY <1>2
    <3> QED BY <3>1
  <2>4. 1 \in DOMAIN Comb(p)' /\ Comb(p)'[1] = <<p, "open">>
    BY <1>2, <1>3, <2>2, <2>3, CombWrites
  <2> QED BY <2>2, <2>4, Empty DEF Opened
<1>4. ASSUME w[1] # "combined" PROVE Opening(p)'
  <2>1. Comb(p)' = <<>> BY <1>2, <1>4, CombWrites
  <2>2. \A y : <<"combined", y>>[1] = "combined" OBVIOUS
  <2>3. PICK i \in DOMAIN t : t[i] = <<"combined", "open">> BY <1>2
  <2>4. i # 1 BY <1>1, <1>4, <2>2, <2>3
  <2>5. i - 1 \in DOMAIN u /\ u[i - 1] = <<"combined", "open">> BY <1>1, <2>3, <2>4
  <2>6. Due(p, "combined", "open")' BY <2>5 DEF Due, u
  <2>7. ASSUME NEW j \in DOMAIN u, u[j][1] = "combined", u[j][2] # "open"
        PROVE  \E k \in DOMAIN u : k < j /\ u[k] = <<"combined", "open">>
    <3>1. j + 1 \in DOMAIN t /\ u[j] = t[j + 1] BY <1>1
    <3>2. PICK k \in DOMAIN t : k < j + 1 /\ t[k] = <<"combined", "open">> BY <1>2, <2>7, <3>1
    <3>3. k # 1 BY <1>1, <1>4, <2>2, <3>2
    <3>4. k - 1 \in DOMAIN u /\ u[k - 1] = t[k] BY <1>1, <3>3
    <3>5. k - 1 < j BY <1>1, <3>2
    <3> QED BY <3>2, <3>4, <3>5
  <2> QED BY <1>1, <1>2, <2>1, <2>6, <2>7 DEF Opening, u
<1> QED BY <1>3, <1>4

\* What is written to the combined log of a session is behind its opening.
LEMMA FramedWrites ==
    ASSUME NEW p \in Procs, NEW w, Typed, Root \in Procs, IInv, Framed,
           \A r \in Procs : Local(r), Writes(p, w)
    PROVE  Framed'
<1>1. /\ pc' = pc /\ start' = start /\ ses' = ses /\ onClose' = onClose
      /\ \A r \in Procs \ {p} : todo'[r] = todo[r]
  BY DEF Writes
<1>2. \A r \in Procs : Opened(r) => Opened(r)' BY CombWrites
<1>3. start[p].how # "alone" => Opened(Root)
  <2>1. pc[p] # "off" BY TodoWrites
  <2> QED BY <2>1 DEF Framed
<1>4. ses[p] # p => Opened(ses[p])
  BY <1>3 DEF Local, Belongs
<1>5. w[1] = "combined" => \/ Opened(ses[p]) \/ (ses[p] = p /\ w[2] = "error")
                           \/ Opening(p)
  <2>1. Covered(p) BY DEF Framed
  <2>2. 1 \in DOMAIN todo[p] /\ w = todo[p][1] BY TodoWrites
  <2> QED BY <2>1, <2>2 DEF Covered
<1>6. ASSUME NEW r \in Procs PROVE First(r)' /\ Authors(r)'
  <2>1. First(r) /\ Authors(r) BY DEF Framed
  <2>2. ASSUME NEW i \in DOMAIN Comb(r)'
        PROVE  (Comb(r)'[i] = <<r, "error">> \/ Opened(r)') /\ ses'[Comb(r)'[i][1]] = r
    <3>1. CASE i \in DOMAIN Comb(r) /\ Comb(r)'[i] = Comb(r)[i]
      BY <1>1, <1>2, <2>1, <3>1 DEF First, Authors
    <3>2. CASE w[1] = "combined" /\ ses[p] = r /\ Comb(r)'[i] = <<p, w[2]>>
      <4>1. Comb(r)'[i][1] = p BY <3>2
      <4>2. CASE Opened(ses[p]) BY <1>1, <1>2, <3>2, <4>1, <4>2
      <4>3. CASE ses[p] = p /\ w[2] = "error" BY <1>1, <3>2, <4>1, <4>3
      <4>4. CASE Opening(p)
        <5>1. ses[p] = p BY <4>4 DEF Opening
        <5>2. Opened(p)' BY <3>2, <4>4, OpeningWrites
        <5> QED BY <1>1, <3>2, <4>1, <5>1, <5>2
      <4> QED BY <1>5, <3>2, <4>2, <4>3, <4>4
    <3> QED BY <3>1, <3>2, CombWrites
  <2> QED BY <2>2 DEF First, Authors
<1>7. ASSUME NEW r \in Procs, r # p, Opening(r) PROVE Opening(r)'
  <2>1. ses[p] # r
    <3> SUFFICES ASSUME ses[p] = r PROVE FALSE
      OBVIOUS
    <3>1. Opened(r) BY <1>4, <1>7
    <3> QED BY <1>7, <3>1 DEF Opening, Opened
  <2>2. Comb(r)' = Comb(r) BY <2>1, CombWrites
  <2> QED BY <1>1, <1>7, <2>2, OpeningSame
<1>8. \A r \in Procs : Opening(r) => Opening(r)' \/ Opened(r)'
  BY <1>7, OpeningWrites
<1>9. ASSUME NEW r \in Procs, r # p PROVE Covered(r)'
  <2>1. Covered(r) BY DEF Framed
  <2>2. ses[r] \in Procs /\ ses'[r] = ses[r] /\ todo'[r] = todo[r] BY <1>1, <1>9 DEF Typed
  <2>3. Opened(ses[r]) => Opened(ses[r])' BY <1>1, <1>2, <2>2 DEF Opened, Comb
  <2> QED BY <1>7, <1>9, <2>1, <2>2, <2>3 DEF Covered
<1>10. Covered(p)'
  <2>1. Covered(p) BY DEF Framed
  <2>2. ses[p] \in Procs /\ ses'[p] = ses[p] BY <1>1 DEF Typed
  <2>3. Opened(ses[p]) => Opened(ses[p])' BY <1>1, <1>2, <2>2 DEF Opened, Comb
  <2>4. CASE Opening(p)
    <3>1. CASE w[1] # "combined" BY <2>4, <3>1, OpeningWrites DEF Covered
    <3>2. CASE w[1] = "combined"
      <4>1. Opened(p)' /\ ses[p] = p BY <2>4, <3>2, OpeningWrites DEF Opening
      <4>2. Opened(ses[p])' BY <2>2, <4>1 DEF Opened, Comb
      <4> QED BY <4>2 DEF Covered
    <3> QED BY <3>1, <3>2
  <2>5. CASE ~Opening(p)
    <3>1. \A i \in DOMAIN todo[p] : todo[p][i][1] = "combined" =>
              Opened(ses[p]) \/ (ses[p] = p /\ todo[p][i][2] = "error")
      BY <2>1, <2>5 DEF Covered
    <3>2. \A i \in DOMAIN todo'[p] : i + 1 \in DOMAIN todo[p] /\ todo'[p][i] = todo[p][i + 1]
      BY TodoWrites
    <3>3. \A i \in DOMAIN todo'[p] : todo'[p][i][1] = "combined" =>
              Opened(ses[p]) \/ (ses[p] = p /\ todo'[p][i][2] = "error")
      BY <3>1, <3>2
    <3> QED BY <2>2, <2>3, <3>3 DEF Covered
  <2> QED BY <2>4, <2>5
<1>11. \A r \in onClose' : Opened(r)' \/ Opening(r)'
  <2> TAKE r \in onClose'
  <2>1. r \in Procs /\ (Opened(r) \/ Opening(r)) BY <1>1 DEF Typed, Framed
  <2> QED BY <1>2, <1>8, <2>1
<1>12. \A r \in Procs : pc'[r] # "off" /\ start'[r].how # "alone" => Opened(Root)'
  BY <1>1, <1>2 DEF Framed
<1>13. Noted(Root, "session", "start_job")' => Opened(Root)'
  <2>1. todo[p] \in Seq(Kinds \X Acts) BY DEF IInv, Own, Authenticated
  <2>2. "session" \in Kinds BY DEF Kinds
  <2>3. Noted(Root, "session", "start_job")' => Noted(Root, "session", "start_job")
    BY <2>1, <2>2, NotedWrites
  <2> QED BY <1>2, <2>3 DEF Framed
<1>14. \A r \in Procs : Covered(r)' BY <1>9, <1>10
<1> QED BY <1>6, <1>11, <1>12, <1>13, <1>14 DEF Framed

-----------------------------------------------------------------------------
(* and over the rest.                                                       *)

\* While Root's script runs, or could, its session is open.
LEMMA ScriptOpened ==
    ASSUME Typed, Root \in Procs, Framed, \A r \in Procs : Local(r), ScriptRuns
    PROVE  Opened(Root)
<1>1. Phase(Root) /\ Belongs(Root) /\ ses[Root] = Root /\ start[Root].program = "startjob"
      /\ start[Root].how = "alone"
  BY RootOwn DEF Local, Typed
<1>2. CASE pc[Root] = "execute" /\ todo[Root] = <<>>
  <2>1. Equipped(Root) BY <1>1, <1>2 DEF Phase, Working, Opens, OpeningPrograms
  <2>2. mine[Root] BY <1>1, <2>1 DEF Belongs, Member
  <2>3. Root \in onClose BY <1>1, <1>2, <2>2 DEF Belongs, Job
  <2> QED BY <1>2, <2>3, NotOpening DEF Framed
<1>3. CASE <<Root, "start_job">> \in ToSet(log[<<"session", Root>>])
  <2>1. Dest(Root, "session") = <<"session", Root>> BY <1>1 DEF Dest
  <2>2. Has(Root, "session", "start_job") BY <1>3, <2>1 DEF Has
  <2>3. Noted(Root, "session", "start_job") BY <2>2, HasTold DEF Noted
  <2> QED BY <2>3 DEF Framed
<1> QED BY <1>2, <1>3 DEF ScriptRuns

\* A process that the script starts finds the session opened.
LEMMA FramedIdle ==
    ASSUME NEW p \in Procs, Typed, Root \in Procs, Framed, \A r \in Procs : Local(r), Idle(p)
    PROVE  Framed'
<1>1. UNCHANGED <<start, ses, onClose, todo, log>> /\ \A r \in Procs \ {p} : pc'[r] = pc[r]
  BY DEF Idle
<1>2. \A r : /\ Comb(r)' = Comb(r) /\ (Opened(r) => Opened(r)') /\ (Opening(r) => Opening(r)')
             /\ (Covered(r) => Covered(r)') /\ (First(r) => First(r)') /\ (Authors(r) => Authors(r)')
  <2> TAKE r
  <2>1. Comb(r)' = Comb(r) BY <1>1 DEF Comb
  <2>2. Opened(r) => Opened(r)' BY <2>1 DEF Opened
  <2>3. Opening(r) => Opening(r)' BY <1>1, <2>1, OpeningSame
  <2>4. Opened(ses[r]) => Opened(ses[r])' BY <1>1 DEF Opened, Comb
  <2>5. Covered(r) => Covered(r)' BY <1>1, <2>3, <2>4 DEF Covered
  <2>6. (First(r) => First(r)') /\ (Authors(r) => Authors(r)')
    BY <1>1, <2>1, <2>2 DEF First, Authors
  <2> QED BY <2>1, <2>2, <2>3, <2>5, <2>6
<1>3. ASSUME NEW r \in Procs, pc'[r] # "off", start'[r].how # "alone" PROVE Opened(Root)'
  <2>1. CASE pc[r] # "off" BY <1>1, <1>2, <1>3, <2>1 DEF Framed
  <2>2. CASE pc[r] = "off"
    <3>1. r = p /\ ScriptRuns BY <1>1, <1>3, <2>2 DEF Idle
    <3> QED BY <1>2, <3>1, ScriptOpened
  <2> QED BY <2>1, <2>2
<1>4. Noted(Root, "session", "start_job")' => Opened(Root)'
  <2>1. Noted(Root, "session", "start_job")' => Noted(Root, "session", "start_job") BY NotedIdle
  <2> QED BY <1>2, <2>1 DEF Framed
<1>5. \A r \in onClose' : Opened(r)' \/ Opening(r)' BY <1>1, <1>2 DEF Framed
<1>6. \A r \in Procs : First(r)' /\ Authors(r)' /\ Covered(r)' BY <1>2 DEF Framed
<1> QED BY <1>3, <1>4, <1>5, <1>6 DEF Framed

\* Without the records of another kind before it, a record is the last.
LEMMA LastConcat ==
    ASSUME NEW T, NEW s \in Seq(T), NEW t \in Seq(T), \A i \in DOMAIN s : s[i][1] # "combined",
           \A i \in DOMAIN t : t[i][1] = "combined" => i = Len(t)
    PROVE  \A i \in DOMAIN (s \o t) : (s \o t)[i][1] = "combined" => i = Len(s \o t)
<1> DEFINE u == s \o t
           m == Len(s)
           n == Len(t)
<1>1. /\ DOMAIN u = 1 .. m + n /\ m \in Nat /\ n \in Nat /\ DOMAIN s = 1 .. m /\ DOMAIN t = 1 .. n
      /\ \A i \in 1 .. m + n : u[i] = IF i <= m THEN s[i] ELSE t[i - m]
  BY ConcatFacts
<1>2. Len(u) = m + n OBVIOUS
<1> SUFFICES ASSUME NEW i \in DOMAIN u, u[i][1] = "combined" PROVE i = Len(u)
  OBVIOUS
<1>3. \A j \in DOMAIN s : s[j][1] # "combined" OBVIOUS
<1>4. \A j \in DOMAIN t : t[j][1] = "combined" => j = n OBVIOUS
<1>5. u[i][1] = "combined" OBVIOUS
<1> HIDE DEF u, m, n
<1>6. ~(i <= m)
  <2> SUFFICES ASSUME i <= m PROVE FALSE
    OBVIOUS
  <2>1. i \in DOMAIN s /\ u[i] = s[i] BY <1>1
  <2> QED BY <1>3, <1>5, <2>1
<1>7. i - m \in DOMAIN t /\ u[i] = t[i - m] BY <1>1, <1>6
<1>8. i - m = n BY <1>4, <1>5, <1>7
<1> QED BY <1>1, <1>2, <1>8

\* The call that closes a session writes the combined log last.
LEMMA ClosingLast ==
    ASSUME NEW p
    PROVE  \A i \in DOMAIN cis_log(p, "close") :
               cis_log(p, "close")[i][1] = "combined" => i = Len(cis_log(p, "close"))
<1> DEFINE T == Kinds \X Acts
           c == To(p, "cis", "close")
           q == To(p, "queue", "close")
           e == To(p, "combined", "close")
<1>1. "close" \in Acts /\ {"cis", "queue", "combined"} \subseteq Kinds BY DEF Acts, Kinds
<1>2. c \in Seq(T) /\ q \in Seq(T) /\ e \in Seq(T) BY <1>1, InTo
<1>3. ASSUME NEW kind PROVE
          /\ \A i \in DOMAIN To(p, kind, "close") : To(p, kind, "close")[i][1] = kind /\ i = 1
          /\ DOMAIN To(p, kind, "close") # {} => Len(To(p, kind, "close")) = 1
  <2> DEFINE x == <<<<kind, "close">>>>
  <2>1. DOMAIN x = {1} /\ x[1][1] = kind /\ Len(x) = 1 OBVIOUS
  <2> HIDE DEF x
  <2>2. To(p, kind, "close") = (IF kind \in loggers[p] THEN x ELSE <<>>) BY DEF To, x
  <2> QED BY <2>1, <2>2, Empty
<1>4. \A i \in DOMAIN c : c[i][1] # "combined"
  <2>1. \A i \in DOMAIN c : c[i][1] = "cis" BY <1>3
  <2> QED BY <2>1
<1>5. \A i \in DOMAIN q : q[i][1] # "combined"
  <2>1. \A i \in DOMAIN q : q[i][1] = "queue" BY <1>3
  <2> QED BY <2>1
<1>6. \A i \in DOMAIN e : e[i][1] = "combined" => i = Len(e)
  BY <1>3
<1>7. cis_log(p, "close") = (IF "cis" \in loggers[p] THEN c \o (q \o e) ELSE <<>>)
  BY DEF cis_log, webui_log
<1> HIDE DEF T, c, q, e
<1>8. \A i \in DOMAIN (q \o e) : (q \o e)[i][1] = "combined" => i = Len(q \o e)
  BY <1>2, <1>5, <1>6, LastConcat
<1>9. q \o e \in Seq(T) BY <1>2, ConcatFacts
<1>10. \A i \in DOMAIN (c \o (q \o e)) : (c \o (q \o e))[i][1] = "combined" => i = Len(c \o (q \o e))
  BY <1>2, <1>4, <1>8, <1>9, LastConcat
<1> QED BY <1>7, <1>10, Empty

-----------------------------------------------------------------------------
(* The closing of a session comes last: of its process' records,            *)

\* Where a closing comes from, and where it leaves.
LEMMA CloseMoves ==
    ASSUME NEW p \in Procs, NEW s, Local(p), Move(p, s)
    PROVE  /\ In(s, <<"combined", "close">>) => s = cis_log(p, "close")
           /\ pc[p] \in Closing => Passes(p, s)
<1> USE DEF From
<1>1. Moves(p, s) BY DEF Move
<1>2. ASSUME pc[p] \in Closing \cup {"close"} PROVE Passes(p, s) \/ (pc[p] = "close" /\ Tells(p, s))
  <2> USE DEF Closing, Working
  <2>1. ~Invokes(p, s) /\ ~Equips(p, s) /\ ~Authenticates(p, s)
    BY <1>2 DEF Invokes, Equips, Authenticates
  <2>2. ~Gives(p, s) /\ ~Quits(p, s) /\ ~Crashes(p, s) BY <1>2 DEF Gives, Quits, Crashes
  <2>3. ~Reports(p, s) /\ ~Complains(p, s) BY <1>2 DEF Reports, Complains
  <2>4. ~Calls(p, s) /\ ~OpensIt(p, s) BY <1>2 DEF Calls, OpensIt
  <2>5. Tells(p, s) => pc[p] = "close" BY <1>2 DEF Tells
  <2> QED BY <1>1, <2>1, <2>2, <2>3, <2>4, <2>5 DEF Moves
<1>3. ASSUME In(s, <<"combined", "close">>) PROVE s = cis_log(p, "close")
  <2>1. pc[p] = "close" BY <1>3, Recorded
  <2>2. s # <<>> BY <1>3, Empty DEF In
  <2>3. Tells(p, s) BY <1>2, <2>1, <2>2 DEF Passes
  <2> QED BY <2>1, <2>3 DEF Tells
<1>4. pc[p] \in Closing => Passes(p, s) BY <1>2 DEF Closing
<1> QED BY <1>3, <1>4

\* After its closing a process starts no record.
LEMMA ClosedMove ==
    ASSUME NEW p \in Procs, NEW s, Typed, Root \in Procs, Silent(p), Local(p), Closed(p),
           Move(p, s)
    PROVE  Closed(p)'
<1> USE DEF From
<1>1. todo'[p] = s /\ todo[p] = <<>> BY DEF Move
<1>2. "combined" \in Kinds BY DEF Kinds
<1>3. /\ Told(p, "combined", "close")' => Told(p, "combined", "close")
      /\ Told(p, "combined", "close") => Noted(p, "combined", "close")
      /\ Noted(p, "combined", "close")' =>
             Told(p, "combined", "close") \/ In(s, <<"combined", "close">>)
  BY <1>2, NotedMove
<1>4. ASSUME Told(p, "combined", "close")
      PROVE  /\ s = <<>> /\ p \in onClose' /\ pc'[p] \in Closing
             /\ pc'[p] \in {"destroy", "join"} => "queue" \in loggers'[p]
  <2>1. /\ p \in onClose /\ pc[p] \in Closing
        /\ pc[p] \in {"destroy", "join"} => "queue" \in loggers[p]
    BY <1>3, <1>4 DEF Closed
  <2>2. Passes(p, s) BY <2>1, CloseMoves
  <2>3. s = <<>> /\ loggers'[p] = loggers[p] /\ onClose' = onClose BY <2>2 DEF Passes, Keeps
  <2>4. "logger" \in refs[p] => "queue" \in loggers[p] BY DEF Local, Phase
  <2>5. pc'[p] \in Closing /\ (pc'[p] \in {"destroy", "join"} => "queue" \in loggers[p])
    BY <2>1, <2>2, <2>4 DEF Passes, Closing
  <2> QED BY <2>1, <2>3, <2>5
<1>5. ASSUME In(s, <<"combined", "close">>) PROVE p \in onClose' /\ pc'[p] = "statics"
  <2>1. pc'[p] = "statics" /\ p \in onClose BY <1>5, Recorded
  <2> QED BY <2>1, OnCloseMoves
<1>6. ASSUME NEW i \in DOMAIN s, s[i] = <<"combined", "close">> PROVE i = Len(s)
  <2>1. In(s, <<"combined", "close">>) BY <1>6 DEF In
  <2>2. s = cis_log(p, "close") BY <2>1, CloseMoves
  <2>3. s[i][1] = "combined" BY <1>6
  <2> HIDE <1>6
  <2> QED BY <2>2, <2>3, ClosingLast
<1> QED BY <1>1, <1>3, <1>4, <1>5, <1>6 DEF Closed, Closing

\* The closing is the last of its call,
LEMMA ClosedWrites ==
    ASSUME NEW p \in Procs, NEW w, Typed, Root \in Procs, IInv, Closed(p), Writes(p, w)
    PROVE  Closed(p)'
<1>1. todo[p] \in Seq(Kinds \X Acts) /\ todo'[p] \in Seq(Kinds \X Acts)
  <2> DEFINE T == Kinds \X Acts
  <2>1. todo[p] \in Seq(T) /\ todo[p] # <<>> /\ todo'[p] = Tail(todo[p])
    BY DEF Writes, IInv, Own, Authenticated
  <2> HIDE DEF T
  <2>2. todo'[p] \in Seq(T) BY <2>1
  <2> QED BY <2>1, <2>2 DEF T
<1>2. "combined" \in Kinds BY DEF Kinds
<1>3. /\ Told(p, "combined", "close")' => Told(p, "combined", "close") \/ w = <<"combined", "close">>
      /\ Noted(p, "combined", "close")' => Noted(p, "combined", "close")
  BY <1>1, <1>2, NotedWrites
<1>4. /\ 1 \in DOMAIN todo[p] /\ w = todo[p][1] /\ Len(todo[p]) \in Nat
      /\ DOMAIN todo'[p] = 1 .. Len(todo[p]) - 1 /\ Len(todo'[p]) = Len(todo[p]) - 1
      /\ \A i \in DOMAIN todo'[p] : i + 1 \in DOMAIN todo[p] /\ todo'[p][i] = todo[p][i + 1]
  BY TodoWrites
<1>5. UNCHANGED <<pc, loggers, onClose>> /\ todo[p] # <<>> BY DEF Writes
<1>6. \A i \in DOMAIN todo'[p] : todo'[p][i] = <<"combined", "close">> => i = Len(todo'[p])
  <2> TAKE i \in DOMAIN todo'[p]
  <2> HAVE todo'[p][i] = <<"combined", "close">>
  <2>1. i + 1 = Len(todo[p]) BY <1>4 DEF Closed
  <2> QED BY <1>4, <2>1
<1>7. ASSUME Told(p, "combined", "close")' PROVE todo'[p] = <<>>
  <2>1. w = <<"combined", "close">> BY <1>3, <1>5, <1>7 DEF Closed
  <2>2. 1 = Len(todo[p]) BY <1>4, <2>1 DEF Closed
  <2>3. Len(todo'[p]) = 0 BY <1>4, <2>2
  <2> DEFINE T == Kinds \X Acts
             u == todo'[p]
  <2>4. u \in Seq(T) /\ Len(u) = 0 BY <1>1, <2>3
  <2> HIDE DEF T, u
  <2>5. u = <<>> BY <2>4
  <2> QED BY <2>5 DEF u
<1> QED BY <1>3, <1>5, <1>6, <1>7 DEF Closed

\* and of its process, after any step.
LEMMA ClosedSteps ==
    ASSUME NEW p \in Procs, NEW s, NEW w, Typed, Root \in Procs, IInv,
           \A r \in Procs : Local(r) /\ Silent(r) /\ Closed(r),
           Move(p, s) \/ Idle(p) \/ Writes(p, w), NEW r \in Procs
    PROVE  Closed(r)'
<1>0. Closed(r) /\ todo[p] \in Seq(Kinds \X Acts) /\ "combined" \in Kinds
  BY DEF IInv, Own, Authenticated, Kinds
<1>1. CASE Move(p, s) /\ r = p BY <1>1, ClosedMove
<1>2. CASE Writes(p, w) /\ r = p BY <1>2, ClosedWrites
<1>3. CASE Idle(p) \/ (r # p /\ (Move(p, s) \/ Writes(p, w)))
  <2>1. /\ Told(r, "combined", "close")' => Told(r, "combined", "close")
        /\ Noted(r, "combined", "close")' => Noted(r, "combined", "close")
    <3>1. CASE Idle(p) BY <3>1, NotedIdle
    <3>2. CASE r # p /\ Move(p, s)
      <4>1. Silent(p) OBVIOUS
      <4> QED BY <1>0, <3>2, <4>1, NotedMove
    <3>3. CASE r # p /\ Writes(p, w) BY <1>0, <3>3, NotedWrites
    <3> QED BY <1>3, <3>1, <3>2, <3>3
  <2>2. /\ todo'[r] = todo[r] /\ loggers'[r] = loggers[r] /\ (r \in onClose => r \in onClose')
        /\ pc'[r] = pc[r] \/ pc'[r] = "killed" \/ pc[r] = "off"
    BY <1>3 DEF Idle, Move, Apart, Writes
  <2> QED BY <1>0, <2>1, <2>2 DEF Closed, Closing
<1> QED BY <1>1, <1>2, <1>3

\* After the closing of a session only those write to its log that let go of the
\* script's output.
LEMMA LastInWrites ==
    ASSUME NEW p \in Procs, NEW w, Typed, Root \in Procs, IInv, Framed, Waited,
           \A r \in Procs : Local(r) /\ Closed(r) /\ LastIn(r), Writes(p, w), NEW r \in Procs
    PROVE  LastIn(r)'
<1>1. LastIn(r) /\ Authors(r) /\ start' = start BY DEF Framed, Writes
<1>2. /\ Len(Comb(r)) \in Nat /\ DOMAIN Comb(r) = 1 .. Len(Comb(r))
      /\ \A i \in DOMAIN Comb(r) : Comb(r)[i] = <<Comb(r)[i][1], Comb(r)[i][2]>>
  BY CombFacts
<1>3. \A i \in DOMAIN Comb(r)' :
          \/ i \in DOMAIN Comb(r) /\ Comb(r)'[i] = Comb(r)[i]
          \/ /\ w[1] = "combined" /\ ses[p] = r /\ i = Len(Comb(r)) + 1
             /\ Comb(r)'[i] = <<p, w[2]>>
  BY CombWrites
<1>4. /\ 1 \in DOMAIN todo[p] /\ w = todo[p][1] /\ w = <<w[1], w[2]>> /\ pc[p] # "off"
      /\ pc[p] \notin Over /\ todo[p] # <<>>
  BY TodoWrites DEF Writes
<1>5. ASSUME NEW i \in DOMAIN Comb(r)', Comb(r)'[i][2] = "close" PROVE Comb(r)'[i][1] = r
  <2>1. CASE i \in DOMAIN Comb(r) /\ Comb(r)'[i] = Comb(r)[i] BY <1>1, <1>5, <2>1 DEF LastIn
  <2>2. CASE w[1] = "combined" /\ ses[p] = r /\ Comb(r)'[i] = <<p, w[2]>>
    <3>1. w = <<"combined", "close">> BY <1>4, <1>5, <2>2
    <3>2. Noted(p, "combined", "close") BY <1>4, <3>1 DEF Noted, Due
    <3>3. p \in onClose BY <3>2 DEF Closed
    <3>4. ses[p] = p BY <3>3 DEF Local, Belongs, Member
    <3> QED BY <2>2, <3>4
  <2> QED BY <1>3, <2>1, <2>2
<1>6. ASSUME NEW i \in DOMAIN Comb(r)', NEW j \in DOMAIN Comb(r)', i < j, Comb(r)'[i][2] = "close"
      PROVE  start[Comb(r)'[j][1]].how = "detached"
  <2>1. CASE j \in DOMAIN Comb(r) /\ Comb(r)'[j] = Comb(r)[j]
    <3>1. i \in DOMAIN Comb(r) BY <1>2, <1>3, <1>6, <2>1
    <3>2. Comb(r)'[i] = Comb(r)[i] BY <3>1, CombWrites
    <3> QED BY <1>1, <1>6, <2>1, <3>1, <3>2 DEF LastIn
  <2>2. CASE ses[p] = r /\ j = Len(Comb(r)) + 1 /\ Comb(r)'[j] = <<p, w[2]>>
    <3>1. i \in DOMAIN Comb(r) BY <1>2, <1>3, <1>6, <2>2
    <3>2. Comb(r)'[i] = Comb(r)[i] BY <3>1, CombWrites
    <3>3. Comb(r)[i][1] = r BY <1>1, <1>6, <3>1, <3>2 DEF LastIn
    <3>4. Comb(r)[i] = <<r, "close">> BY <1>2, <1>6, <3>1, <3>2, <3>3
    <3>5. ses[r] = r BY <1>1, <3>1, <3>3 DEF Authors
    <3>6. Dest(r, "combined") = <<"combined", r>> BY <3>5 DEF Dest
    <3>7. Told(r, "combined", "close") BY <3>1, <3>4, <3>6 DEF Told, Comb
    <3>8. p # r
      <4>1. Closed(r) OBVIOUS
      <4> QED BY <1>4, <3>7, <4>1 DEF Closed
    <3>9. r = Root /\ start[p].how # "alone"
      <4>1. Local(p) OBVIOUS
      <4> QED BY <2>2, <3>8, <4>1 DEF Local, Belongs
    <3>10. start[p].how # "attached"
      <4>1. Gone BY <3>7, <3>9 DEF Waited, Noted
      <4> QED BY <1>4, <4>1 DEF Gone
    <3>11. start[p].how = "detached"
      <4>1. start[p] \in Start BY DEF Typed
      <4> QED BY <3>9, <3>10, <4>1 DEF Start
    <3> QED BY <2>2, <3>11
  <2> QED BY <1>3, <2>1, <2>2
<1> QED BY <1>1, <1>5, <1>6 DEF LastIn

-----------------------------------------------------------------------------
(* and after those who hold the script's output.                            *)

\* Who holds the script's output comes from the script.
LEMMA GoneSteps ==
    ASSUME NEW p \in Procs, NEW s, NEW w, Gone, Move(p, s) \/ Writes(p, w) \/ (Idle(p) /\ ~ScriptRuns)
    PROVE  Gone'
<1> SUFFICES ASSUME NEW q \in Procs, start'[q].how = "attached" PROVE pc'[q] \in Over \cup {"off"}
  BY DEF Gone
<1>1. start' = start BY DEF Move, Apart, Writes, Idle
<1>2. pc[q] \in Over \cup {"off"} BY <1>1 DEF Gone
<1>3. CASE Move(p, s)
  <2>1. q # p BY <1>2, <1>3, MoveLives
  <2>2. pc'[q] = pc[q] BY <1>3, <2>1 DEF Move, Apart
  <2> QED BY <1>2, <2>2
<1>4. CASE Writes(p, w) BY <1>2, <1>4 DEF Writes
<1>5. CASE Idle(p) /\ ~ScriptRuns BY <1>1, <1>2, <1>5 DEF Idle, Over
<1> QED BY <1>3, <1>4, <1>5

\* On the way to the script a main comes from the start; after it, from the
\* start, from later, or from the script, whose output has ended.
LEMMA StageMoves ==
    ASSUME NEW p \in Procs, NEW s, Move(p, s)
    PROVE  /\ pc'[p] \in Before => pc[p] \in Before \ {"build"}
           /\ pc'[p] \in After =>
                  \/ pc[p] \in (Before \ {"build"}) \cup After \cup {"stop"}
                  \/ pc[p] = "build" /\ Reports(p, s)
                  \/ /\ pc[p] = "execute" /\ (p = Root => Gone)
                     /\ Reports(p, s) \/ s = session_log(p, "finish_job")
<1> USE DEF From, Before, After, Fresh, Early, Unlogged, Leaving
<1>1. Moves(p, s) BY DEF Move
<1>2. CASE Passes(p, s) BY <1>2 DEF Passes
<1>3. CASE Invokes(p, s) \/ Equips(p, s) \/ Authenticates(p, s)
  BY <1>3 DEF Invokes, Equips, Authenticates
<1>4. CASE Gives(p, s) \/ Quits(p, s) BY <1>4 DEF Gives, Quits
<1>5. CASE Crashes(p, s) BY <1>5 DEF Crashes
<1>6. CASE Reports(p, s) BY <1>6 DEF Reports
<1>7. CASE Complains(p, s) BY <1>7 DEF Complains
<1>8. CASE Tells(p, s) BY <1>8 DEF Tells
<1>9. CASE Calls(p, s) \/ OpensIt(p, s) BY <1>9 DEF Calls, OpensIt
<1> QED BY <1>1, <1>2, <1>3, <1>4, <1>5, <1>6, <1>7, <1>8, <1>9 DEF Moves

\* Root reads the output of the script to its end: other processes' moves,
LEMMA WaitedOther ==
    ASSUME NEW p \in Procs, NEW s, Typed, Root \in Procs, Silent(p), Waited, Move(p, s), p # Root
    PROVE  Waited'
<1>1. /\ start' = start /\ pc'[Root] = pc[Root] /\ \A q \in Procs \ {p} : pc'[q] = pc[q]
  BY DEF Move, Apart
<1>2. pc[p] # "off" BY MoveLives
<1>3. {"session", "combined"} \subseteq Kinds BY DEF Kinds
<1>4. \A kind \in {"session", "combined"} : \A act :
          /\ Noted(Root, kind, act)' => Noted(Root, kind, act)
          /\ Noted(Root, kind, act) => Noted(Root, kind, act)'
          /\ Told(Root, kind, act) => Told(Root, kind, act)'
  BY <1>3, NotedMove
<1>5. Gone => Gone' BY GoneSteps
<1>6. pc[Root] \in Before => start[p].how = "alone"
  BY <1>2 DEF Waited
<1>7. pc'[Root] \in Before => /\ \A q \in Procs : start'[q].how # "alone" => pc'[q] = "off"
                              /\ ~Noted(Root, "session", "start_job")'
  BY <1>1, <1>4, <1>6 DEF Waited
<1>8. pc'[Root] \in After => Gone' BY <1>1, <1>5 DEF Waited
<1>9. pc'[Root] \in After /\ Noted(Root, "session", "start_job")' =>
           Noted(Root, "session", "finish_job")' \/ Noted(Root, "session", "error")'
  BY <1>1, <1>4 DEF Waited
<1>10. Noted(Root, "combined", "close")' =>
           /\ Gone'
           /\ Noted(Root, "session", "start_job")' =>
                  Told(Root, "session", "finish_job")' \/ Told(Root, "session", "error")'
  BY <1>4, <1>5 DEF Waited
<1> QED BY <1>7, <1>8, <1>9, <1>10 DEF Waited

\* its own,
LEMMA WaitedRoot ==
    ASSUME NEW s, Typed, Root \in Procs, Silent(Root), Local(Root), Waited,
           Closed(Root), Move(Root, s)
    PROVE  Waited'
<1>1. /\ start' = start /\ \A q \in Procs \ {Root} : pc'[q] = pc[q]
      /\ start[Root].how = "alone" /\ start[Root].program = "startjob"
  BY DEF Move, Apart, Typed
<1>2. pc[Root] \notin Over \cup {"off"} BY MoveLives
<1>3. {"session", "combined"} \subseteq Kinds BY DEF Kinds
<1>4. \A kind \in {"session", "combined"} : \A act :
          /\ Noted(Root, kind, act)' => Noted(Root, kind, act) \/ In(s, <<kind, act>>)
          /\ Noted(Root, kind, act) => Told(Root, kind, act) /\ Noted(Root, kind, act)'
          /\ Told(Root, kind, act) => Told(Root, kind, act)'
          /\ In(s, <<kind, act>>) => Noted(Root, kind, act)'
  BY <1>3, NotedMove
<1>5. Gone => Gone' BY GoneSteps
<1>6. In(s, <<"session", "start_job">>) => pc[Root] = "build" BY Recorded
<1>7. ASSUME pc'[Root] \in Before
      PROVE  /\ \A q \in Procs : start'[q].how # "alone" => pc'[q] = "off"
             /\ ~Noted(Root, "session", "start_job")'
  <2>1. pc[Root] \in Before /\ pc[Root] # "build" BY <1>7, StageMoves
  <2>2. \A q \in Procs : start[q].how # "alone" => q # Root /\ pc[q] = "off"
    BY <1>1, <2>1 DEF Waited
  <2>3. ~Noted(Root, "session", "start_job") BY <2>1 DEF Waited
  <2> QED BY <1>1, <1>4, <1>6, <2>1, <2>2, <2>3
<1>8. ASSUME pc'[Root] \in After
      PROVE  \/ pc[Root] \in (Before \ {"build"}) \cup After
             \/ pc[Root] = "build" /\ Reports(Root, s)
             \/ /\ pc[Root] = "execute" /\ Gone
                /\ Reports(Root, s) \/ s = session_log(Root, "finish_job")
  <2>1. pc[Root] # "stop" BY <1>1 DEF Local, Phase, Opens, OpeningPrograms
  <2> QED BY <1>8, <2>1, StageMoves
<1>9. ASSUME pc'[Root] \in After PROVE Gone'
  <2>1. CASE pc[Root] \in Before
    <3>1. \A q \in Procs : start[q].how # "alone" => pc[q] = "off" BY <2>1 DEF Waited
    <3>2. Gone BY <3>1 DEF Gone
    <3> QED BY <1>5, <3>2
  <2>2. CASE pc[Root] \in After BY <1>5, <2>2 DEF Waited
  <2>3. CASE Gone BY <1>5, <2>3
  <2>4. "build" \in Before BY DEF Before
  <2> QED BY <1>8, <1>9, <2>1, <2>2, <2>3, <2>4
<1>10. ASSUME pc'[Root] \in After, Noted(Root, "session", "start_job")'
       PROVE  Noted(Root, "session", "finish_job")' \/ Noted(Root, "session", "error")'
  <2>1. CASE pc[Root] \in {"build", "execute"} /\ Reports(Root, s)
    <3>1. s = tee_log(Root, "error") /\ "error" \in Acts BY <2>1 DEF Reports, Acts
    <3>2. "session" \in loggers[Root]
      <4>1. Equipped(Root)
        BY <1>1, <2>1 DEF Local, Phase, Working, Opens, OpeningPrograms
      <4> QED BY <4>1 DEF Equipped
    <3>3. In(s, <<"session", "error">>) BY <1>3, <3>1, <3>2, InTee
    <3> QED BY <1>4, <3>3
  <2>2. CASE pc[Root] = "execute" /\ s = session_log(Root, "finish_job")
    <3>1. "finish_job" \in Acts BY DEF Acts
    <3>2. "session" \in loggers[Root]
      <4>1. Equipped(Root)
        BY <1>1, <2>2 DEF Local, Phase, Working, Opens, OpeningPrograms
      <4> QED BY <4>1 DEF Equipped
    <3>3. In(s, <<"session", "finish_job">>) BY <2>2, <3>1, <3>2, InSession
    <3> QED BY <1>4, <3>3
  <2>3. CASE pc[Root] \in Before \ {"build"}
    <3>1. ~Noted(Root, "session", "start_job") BY <2>3 DEF Waited
    <3> QED BY <1>4, <1>6, <1>10, <2>3, <3>1
  <2>4. CASE pc[Root] \in After
    <3>1. pc[Root] # "build" BY <2>4 DEF After, Leaving
    <3>2. Noted(Root, "session", "start_job") BY <1>4, <1>6, <1>10, <3>1
    <3> QED BY <1>4, <2>4, <3>2 DEF Waited
  <2> QED BY <1>8, <1>10, <2>1, <2>2, <2>3, <2>4
<1>11. ASSUME Noted(Root, "combined", "close")'
       PROVE  /\ Gone'
              /\ Noted(Root, "session", "start_job")' =>
                     Told(Root, "session", "finish_job")' \/ Told(Root, "session", "error")'
  <2>1. CASE Noted(Root, "combined", "close")
    <3>1. pc[Root] # "build" BY <2>1 DEF Closed, Closing
    <3> QED BY <1>4, <1>5, <1>6, <2>1, <3>1 DEF Waited
  <2>2. CASE In(s, <<"combined", "close">>)
    <3>1. pc[Root] = "close" BY <2>2, Recorded DEF From
    <3>2. pc[Root] \in After /\ pc[Root] # "build" BY <3>1 DEF After, Leaving
    <3>3. Gone BY <3>2 DEF Waited
    <3>4. ASSUME Noted(Root, "session", "start_job")'
          PROVE  Told(Root, "session", "finish_job")' \/ Told(Root, "session", "error")'
      <4>1. Noted(Root, "session", "start_job") BY <1>4, <1>6, <3>2, <3>4
      <4>2. Noted(Root, "session", "finish_job") \/ Noted(Root, "session", "error")
        BY <3>2, <4>1 DEF Waited
      <4> QED BY <1>4, <4>2
    <3> QED BY <1>5, <3>3, <3>4
  <2> QED BY <1>4, <1>11, <2>1, <2>2
<1> QED BY <1>7, <1>9, <1>10, <1>11 DEF Waited

\* the writing of a record
LEMMA WaitedWrites ==
    ASSUME NEW p \in Procs, NEW w, Typed, Root \in Procs, IInv, Waited, Writes(p, w)
    PROVE  Waited'
<1>1. start' = start /\ pc' = pc BY DEF Writes
<1>2. {"session", "combined"} \subseteq Kinds BY DEF Kinds
<1>3. todo[p] \in Seq(Kinds \X Acts) BY DEF IInv, Own, Authenticated
<1>4. \A kind \in {"session", "combined"} : \A act :
          /\ Noted(Root, kind, act)' => Noted(Root, kind, act)
          /\ Noted(Root, kind, act) => Noted(Root, kind, act)'
          /\ Told(Root, kind, act) => Told(Root, kind, act)'
  BY <1>2, <1>3, NotedWrites
<1>5. Gone => Gone' BY GoneSteps
<1> QED BY <1>1, <1>4, <1>5 DEF Waited

\* and the start of a process leave that so.
LEMMA WaitedIdle ==
    ASSUME NEW p \in Procs, Typed, Root \in Procs, Waited, Local(Root), Closed(Root), Idle(p)
    PROVE  Waited'
<1>1. start' = start /\ \A q \in Procs \ {p} : pc'[q] = pc[q] BY DEF Idle
<1>2. \A kind, act : /\ Noted(Root, kind, act)' => Noted(Root, kind, act)
                     /\ Noted(Root, kind, act) => Noted(Root, kind, act)'
                     /\ Told(Root, kind, act) => Told(Root, kind, act)'
  BY NotedIdle
<1>3. ScriptRuns => pc[Root] \in {"execute", "killed"} BY DEF ScriptRuns
<1>4. pc'[Root] = pc[Root] \/ pc'[Root] = "killed" \/ (pc'[Root] = "context" /\ pc[Root] = "off")
  BY DEF Idle
<1>5. ASSUME pc'[Root] \in Before
      PROVE  /\ \A q \in Procs : start'[q].how # "alone" => pc'[q] = "off"
             /\ ~Noted(Root, "session", "start_job")'
  <2> USE DEF Before, Fresh, Early, Unlogged
  <2>1. pc[Root] \in Before BY <1>4, <1>5
  <2>2. ~ScriptRuns BY <1>3, <2>1
  <2>3. ASSUME NEW q \in Procs, start[q].how # "alone" PROVE pc'[q] = "off"
    <3>1. pc[q] = "off" BY <2>1, <2>3 DEF Waited
    <3> QED BY <1>1, <2>2, <2>3, <3>1 DEF Idle
  <2> QED BY <1>1, <1>2, <2>1, <2>3 DEF Waited
<1>6. pc'[Root] \in After => pc[Root] \in After /\ ~ScriptRuns
  BY <1>3, <1>4 DEF After, Leaving
<1>7. pc'[Root] \in After => Gone' BY <1>6, GoneSteps DEF Waited
<1>8. pc'[Root] \in After /\ Noted(Root, "session", "start_job")' =>
           Noted(Root, "session", "finish_job")' \/ Noted(Root, "session", "error")'
  BY <1>2, <1>6 DEF Waited
<1>9. ASSUME Noted(Root, "combined", "close")'
      PROVE  /\ Gone'
             /\ Noted(Root, "session", "start_job")' =>
                    Told(Root, "session", "finish_job")' \/ Told(Root, "session", "error")'
  <2>1. Noted(Root, "combined", "close") BY <1>2, <1>9
  <2>2. ~ScriptRuns
    <3> SUFFICES ASSUME ScriptRuns PROVE FALSE
      OBVIOUS
    <3>1. pc[Root] # "execute" BY <2>1 DEF Closed, Closing
    <3>2. /\ <<Root, "start_job">> \in ToSet(log[<<"session", Root>>])
          /\ <<Root, "finish_job">> \notin ToSet(log[<<"session", Root>>])
          /\ <<Root, "error">> \notin ToSet(log[<<"session", Root>>])
      BY <3>1 DEF ScriptRuns
    <3>3. Dest(Root, "session") = <<"session", Root>>
      <4>1. ses[Root] = Root BY DEF Local, Belongs, Typed
      <4> QED BY <4>1 DEF Dest
    <3>4. /\ Has(Root, "session", "start_job") /\ ~Has(Root, "session", "finish_job")
          /\ ~Has(Root, "session", "error")
      BY <3>2, <3>3 DEF Has
    <3>5. /\ Told(Root, "session", "start_job") /\ ~Told(Root, "session", "finish_job")
          /\ ~Told(Root, "session", "error")
      BY <3>4, HasTold
    <3> QED BY <2>1, <3>5 DEF Waited, Noted
  <2>3. Gone' BY <2>1, <2>2, GoneSteps DEF Waited
  <2> QED BY <1>2, <2>1, <2>3 DEF Waited
<1> QED BY <1>5, <1>7, <1>8, <1>9 DEF Waited

-----------------------------------------------------------------------------
(* The invariant of the sessions.                                           *)

\* FInv is inductive, beside IInv and RInv.
LEMMA FInvInit == ASSUME Init, RInv, Root \in Procs PROVE FInv
<1>1. /\ pc = [p \in Procs |-> IF p = Root THEN "context" ELSE "off"]
      /\ onClose = {} /\ todo = [p \in Procs |-> <<>>] /\ log = [l \in Logs |-> <<>>]
  BY DEF Init
<1>2. Typed /\ start[Root].how = "alone" BY DEF RInv, Typed
<1>3. \A s \in Procs : Comb(s) = <<>>
  <2>1. \A s \in Procs : <<"combined", s>> \in Logs BY <1>2, CombFacts
  <2> QED BY <1>1, <2>1 DEF Comb
<1>4. \A p \in Procs : \A kind \in Kinds : \A act : ~Told(p, kind, act) /\ ~Noted(p, kind, act)
  <2>1. \A p \in Procs, kind \in Kinds : log[Dest(p, kind)] = <<>> BY <1>1, <1>2, DestInLogs
  <2> QED BY <1>1, <2>1, Empty DEF Told, Noted, Due
<1>5. "combined" \in Kinds /\ "session" \in Kinds BY DEF Kinds
<1>6. \A s \in Procs : First(s) /\ Authors(s) /\ LastIn(s)
  BY <1>3, Empty DEF First, Authors, LastIn
<1>7. \A s \in Procs : Covered(s) BY <1>1, Empty DEF Covered
<1>8. \A p \in Procs : pc[p] # "off" => p = Root BY <1>1
<1>9. Framed BY <1>1, <1>2, <1>4, <1>5, <1>6, <1>7, <1>8 DEF Framed
<1>10. Waited
  <2>1. pc[Root] = "context" /\ \A q \in Procs : start[q].how # "alone" => pc[q] = "off"
    BY <1>1, <1>2
  <2> QED BY <1>4, <1>5, <2>1 DEF Waited, After, Leaving
<1>11. \A s \in Procs : Closed(s) BY <1>1, <1>4, <1>5, Empty DEF Closed
<1> QED BY <1>6, <1>9, <1>10, <1>11 DEF FInv

LEMMA FInvNext == ASSUME IInv, IInv', RInv, FInv, Root \in Procs, [Next]_vars PROVE FInv'
<1>1. Typed /\ \A p \in Procs : Local(p) /\ Silent(p) BY DEF RInv
<1>2. Framed /\ Waited /\ \A r \in Procs : Closed(r) /\ LastIn(r) BY DEF FInv
<1>3. PICK p \in Procs : (\E s : Move(p, s)) \/ Idle(p) \/ (\E w : Writes(p, w))
  BY <1>1, EveryStep
<1>4. PICK s, w : Move(p, s) \/ Idle(p) \/ Writes(p, w)
  BY <1>3
<1>5. Framed' BY <1>1, <1>2, <1>4, FramedMove, FramedWrites, FramedIdle
<1>6. Waited' BY <1>1, <1>2, <1>4, WaitedOther, WaitedRoot, WaitedWrites, WaitedIdle
<1>7. \A r \in Procs : Closed(r)' BY <1>1, <1>2, <1>4, ClosedSteps
<1>8. \A r \in Procs : LastIn(r)'
  <2>1. CASE Writes(p, w) BY <1>1, <1>2, <2>1, LastInWrites
  <2>2. CASE Move(p, s) \/ Idle(p)
    <3>1. log' = log /\ start' = start BY <2>2 DEF Move, Apart, Idle
    <3>2. \A r : Comb(r)' = Comb(r) BY <3>1 DEF Comb
    <3> QED BY <1>2, <3>1, <3>2 DEF LastIn
  <2> QED BY <1>4, <2>1, <2>2
<1> QED BY <1>5, <1>6, <1>7, <1>8 DEF FInv

\* Whatever is in the combined log of a session, but for the errors of who owns it,
\* is behind its opening, and what is behind its closing was written by programs that
\* were detached from the script (open_session, the close handler, run_impl's pipes).
THEOREM OpenedToClosed == Spec => []SessionFramed
<1>1. Root \in Procs BY ProgramsAssumption
<1>2. Init => RInv /\ FInv BY <1>1, RInvInit, FInvInit
<1>3. IInv /\ IInv' /\ RInv /\ RInv' /\ FInv /\ [Next]_vars => FInv' BY <1>1, FInvNext
<1>4. FInv => SessionFramed
  <2> SUFFICES ASSUME FInv, NEW s \in Procs
               PROVE  /\ \A i \in DOMAIN Comb(s) :
                             Comb(s)[i][2] # "error" \/ Comb(s)[i][1] # s => Comb(s)[1] = <<s, "open">>
                      /\ \A i, j \in DOMAIN Comb(s) :
                             i < j /\ Comb(s)[i][2] = "close" => start[Comb(s)[j][1]].how = "detached"
    BY DEF SessionFramed, Comb
  <2>1. First(s) /\ LastIn(s) BY DEF FInv, Framed
  <2>2. <<s, "error">>[1] = s /\ <<s, "error">>[2] = "error" OBVIOUS
  <2> QED BY <2>1, <2>2 DEF First, LastIn, Opened
<1> QED BY <1>2, <1>3, <1>4, IInvAlways, RInvAlways, PTL DEF Spec
=============================================================================
