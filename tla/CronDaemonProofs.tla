-------------------------- MODULE CronDaemonProofs --------------------------
(***************************************************************************)
(* Proofs about CronDaemon for every set of entries, any number of runs of  *)
(* cis_cron and queues of any length.                                       *)
(*                                                                          *)
(* The inductive invariant relates the queue of the io_context to the       *)
(* timers: the handler of an entry's timer is ready to run, once, exactly   *)
(* if the entry has a timer that does not wait.                             *)
(***************************************************************************)
EXTENDS CronDaemon, FiniteSetTheorems, TLAPS

Fire(e) == [kind |-> "fire", entry |-> e]

InQueue(q, h) == \E i \in DOMAIN q : q[i] = h
Once(q, h) == \A i, j \in DOMAIN q : q[i] = h /\ q[j] = h => i = j

\* A timer's handler is in the queue, and once, if its timer does not wait.
FiresOnce ==
    \A e \in Entries : /\ Once(queue, Fire(e))
                       /\ InQueue(queue, Fire(e)) <=> e \in timers \ armed

IInv == TypeOK /\ FiresOnce

-----------------------------------------------------------------------------
(* The queue.                                                              *)

\* A handler that is posted is in the queue, after the others.
LEMMA PostQueue ==
    ASSUME NEW q \in Seq(Handler), NEW g \in Handler
    PROVE  /\ Append(q, g) \in Seq(Handler)
           /\ \A h : InQueue(Append(q, g), h) <=> InQueue(q, h) \/ h = g
           /\ \A h : Once(q, h) /\ (InQueue(q, h) => h # g) => Once(Append(q, g), h)
<1>1. /\ Append(q, g) \in Seq(Handler) /\ DOMAIN q = 1 .. Len(q) /\ Len(q) \in Nat
      /\ DOMAIN Append(q, g) = 1 .. Len(q) + 1
      /\ \A i \in 1 .. Len(q) : Append(q, g)[i] = q[i]
      /\ Append(q, g)[Len(q) + 1] = g
  OBVIOUS
<1> HIDE DEF Handler
<1> DEFINE a == Append(q, g)
<1>2. a = Append(q, g) OBVIOUS
<1> HIDE DEF a
<1>3. \A h : InQueue(a, h) <=> InQueue(q, h) \/ h = g
  BY <1>1, <1>2 DEF InQueue
<1>4. \A h : Once(q, h) /\ (InQueue(q, h) => h # g) => Once(a, h)
  BY <1>1, <1>2 DEF InQueue, Once
<1> QED BY <1>1, <1>2, <1>3, <1>4

\* The handler at the head leaves the queue, the others stay.
LEMMA TailQueue ==
    ASSUME NEW q \in Seq(Handler), q # <<>>
    PROVE  /\ Tail(q) \in Seq(Handler) /\ Head(q) \in Handler
           /\ \A h : Once(q, h) =>
                  /\ Once(Tail(q), h)
                  /\ InQueue(Tail(q), h) <=> InQueue(q, h) /\ h # Head(q)
<1>1. /\ Tail(q) \in Seq(Handler) /\ Head(q) \in Handler /\ Head(q) = q[1]
      /\ DOMAIN q = 1 .. Len(q) /\ Len(q) \in Nat /\ Len(q) >= 1
      /\ DOMAIN Tail(q) = 1 .. Len(q) - 1
      /\ \A i \in 1 .. Len(q) - 1 : Tail(q)[i] = q[i + 1]
  OBVIOUS
<1> DEFINE t == Tail(q)
<1>2. t = Tail(q) OBVIOUS
<1> HIDE DEF t
<1>3. ASSUME NEW h, Once(q, h) PROVE Once(t, h)
  BY <1>1, <1>2, <1>3 DEF Once
<1>4. ASSUME NEW h, Once(q, h), InQueue(t, h) PROVE InQueue(q, h) /\ h # Head(q)
  <2>1. PICK i \in 1 .. Len(q) - 1 : q[i + 1] = h
    BY <1>1, <1>2, <1>4 DEF InQueue
  <2> QED BY <2>1, <1>1, <1>4 DEF InQueue, Once
<1>5. ASSUME NEW h, InQueue(q, h), h # Head(q) PROVE InQueue(t, h)
  <2>1. PICK i \in 1 .. Len(q) : q[i] = h
    BY <1>1, <1>5 DEF InQueue
  <2>2. i - 1 \in 1 .. Len(q) - 1 /\ t[i - 1] = h
    BY <2>1, <1>1, <1>2, <1>5
  <2> QED BY <2>2, <1>1, <1>2 DEF InQueue
<1> QED BY <1>1, <1>2, <1>3, <1>4, <1>5

\* Destroying timers makes their handlers stale, where they are.
LEMMA OrphanQueue ==
    ASSUME NEW q \in Seq(Handler), NEW gone \in SUBSET Entries
    PROVE  /\ Orphan(q, gone) \in Seq(Handler)
           /\ \A e : Once(q, Fire(e)) => Once(Orphan(q, gone), Fire(e))
           /\ \A e : InQueue(Orphan(q, gone), Fire(e)) <=> InQueue(q, Fire(e)) /\ e \notin gone
<1> DEFINE o == Orphan(q, gone)
<1>1. \A i \in DOMAIN q : q[i] \in Handler
  OBVIOUS
<1>2. /\ DOMAIN o = DOMAIN q
      /\ \A i \in DOMAIN q : o[i] = IF q[i].kind = "fire" /\ q[i].entry \in gone
                                    THEN [q[i] EXCEPT !.kind = "stale"] ELSE q[i]
  BY DEF Orphan
<1>3. \A h \in Handler : h.kind = "fire" /\ h.entry \in gone =>
          [h EXCEPT !.kind = "stale"] \in Handler
  BY DEF Handler
<1>4. o \in Seq(Handler)
  <2>1. DOMAIN q = 1 .. Len(q) /\ Len(q) \in Nat OBVIOUS
  <2>2. \A i \in 1 .. Len(q) : o[i] \in Handler BY <2>1, <1>1, <1>2, <1>3
  <2>3. o = [i \in 1 .. Len(q) |-> o[i]] BY <2>1 DEF Orphan
  <2> HIDE DEF o
  <2> QED BY <2>1, <2>2, <2>3
<1> HIDE DEF o
<1>5. \A i \in DOMAIN q : \A e : o[i] = Fire(e) <=> q[i] = Fire(e) /\ e \notin gone
  <2> SUFFICES ASSUME NEW i \in DOMAIN q, NEW e
               PROVE  o[i] = Fire(e) <=> q[i] = Fire(e) /\ e \notin gone
    OBVIOUS
  <2>1. CASE q[i].kind = "fire" /\ q[i].entry \in gone
    <3>1. o[i].kind = "stale" BY <2>1, <1>1, <1>2 DEF Handler
    <3> QED BY <3>1, <2>1 DEF Fire
  <2>2. CASE ~(q[i].kind = "fire" /\ q[i].entry \in gone)
    BY <2>2, <1>2 DEF Fire
  <2> QED BY <2>1, <2>2
<1>6. \A e : Once(q, Fire(e)) => Once(o, Fire(e))
  BY <1>2, <1>5 DEF Once
<1>7. \A e : InQueue(o, Fire(e)) <=> InQueue(q, Fire(e)) /\ e \notin gone
  BY <1>2, <1>5 DEF InQueue
<1> QED BY <1>4, <1>6, <1>7 DEF o

-----------------------------------------------------------------------------
(* The invariant.                                                          *)

LEMMA IInvInit == Init => IInv
<1> SUFFICES ASSUME Init PROVE IInv
  OBVIOUS
<1>1. queue = <<>> /\ queue \in Seq(Handler)
  <2> HIDE DEF Handler
  <2> QED BY DEF Init
<1>2. TypeOK
  <2>1. runs \in 0..MaxRuns
    BY CronAssumption DEF Init
  <2>2. /\ file \subseteq Entries /\ toSave \subseteq Entries
        /\ timers \subseteq Entries /\ armed \subseteq timers /\ zombies \subseteq Entries
    BY DEF Init
  <2>3. /\ cli = "idle" /\ watcher = "check" /\ daemon = "running"
        /\ signalled = FALSE /\ missed = FALSE
    BY DEF Init
  <2> QED BY <1>1, <2>1, <2>2, <2>3 DEF TypeOK
<1>3. \A h : Once(queue, h) /\ ~InQueue(queue, h)
  <2>1. DOMAIN queue = {} BY <1>1
  <2> QED BY <2>1, Zenon DEF Once, InQueue
<1>4. timers = {} BY DEF Init
<1> QED BY <1>2, <1>3, <1>4 DEF IInv, FiresOnce

\* A handler that is none of a timer is posted: timers are as before.
LEMMA PostOther ==
    ASSUME IInv, NEW g \in Handler, g.kind # "fire",
           timers' = timers, armed' = armed, queue' = Append(queue, g)
    PROVE  queue' \in Seq(Handler) /\ FiresOnce'
<1>1. queue \in Seq(Handler) BY DEF IInv, TypeOK
<1>2. \A e : g # Fire(e) BY DEF Fire
<1> HIDE DEF Handler
<1>3. queue' \in Seq(Handler) BY <1>1, PostQueue
<1>4. \A e : InQueue(queue', Fire(e)) <=> InQueue(queue, Fire(e))
  BY <1>1, <1>2, PostQueue
<1>5. \A e : Once(queue, Fire(e)) => Once(queue', Fire(e))
  BY <1>1, <1>2, PostQueue
<1> QED BY <1>3, <1>4, <1>5 DEF IInv, FiresOnce, Fire

\* A handler that is none of a timer has run: timers are as before.
LEMMA RunOther ==
    ASSUME IInv, queue # <<>>, Head(queue).kind # "fire",
           timers' = timers, armed' = armed, queue' = Tail(queue)
    PROVE  queue' \in Seq(Handler) /\ FiresOnce'
<1>1. queue \in Seq(Handler) BY DEF IInv, TypeOK
<1>2. \A e : Head(queue) # Fire(e) BY DEF Fire
<1> HIDE DEF Handler
<1>3. queue' \in Seq(Handler) BY <1>1, TailQueue
<1>4. \A e : Once(queue, Fire(e)) =>
          /\ Once(queue', Fire(e))
          /\ InQueue(queue', Fire(e)) <=> InQueue(queue, Fire(e))
  BY <1>1, <1>2, TailQueue
<1> QED BY <1>3, <1>4 DEF IInv, FiresOnce, Fire

\* An update: the timers of entries that are gone leave the queue and the
\* pending ones, those of new entries are pending, the others are as before.
LEMMA UpdateKeeps == IInv /\ RunUpdate => IInv'
<1> SUFFICES ASSUME IInv, RunUpdate PROVE IInv'
  OBVIOUS
<1> DEFINE gone == timers \ file
           t == Tail(queue)
<1>1. /\ queue \in Seq(Handler) /\ queue # <<>> /\ Head(queue).kind = "update"
      /\ gone \in SUBSET Entries
  BY DEF IInv, TypeOK, RunUpdate, Ready
<1>2. \A e : Head(queue) # Fire(e) BY <1>1 DEF Fire
<1>3. /\ t \in Seq(Handler)
      /\ \A e : Once(queue, Fire(e)) =>
             /\ Once(t, Fire(e))
             /\ InQueue(t, Fire(e)) <=> InQueue(queue, Fire(e))
  <2> HIDE DEF Handler
  <2> QED BY <1>1, <1>2, TailQueue
<1>4. /\ queue' = Orphan(t, gone)
      /\ timers' = file
      /\ armed' = (armed \cap file) \cup (file \ timers)
  BY DEF RunUpdate
<1> HIDE DEF t, gone
<1>5. /\ queue' \in Seq(Handler)
      /\ \A e : Once(t, Fire(e)) => Once(queue', Fire(e))
      /\ \A e : InQueue(queue', Fire(e)) <=> InQueue(t, Fire(e)) /\ e \notin gone
  <2> HIDE DEF Handler
  <2> QED BY <1>1, <1>3, <1>4, OrphanQueue
<1>6. FiresOnce'
  <2> SUFFICES ASSUME NEW e \in Entries
               PROVE  /\ Once(queue', Fire(e))
                      /\ InQueue(queue', Fire(e)) <=> e \in timers' \ armed'
    BY DEF FiresOnce, Fire
  <2>1. Once(queue, Fire(e)) /\ (InQueue(queue, Fire(e)) <=> e \in timers \ armed)
    BY DEF IInv, FiresOnce
  <2>2. Once(queue', Fire(e)) BY <2>1, <1>3, <1>5
  <2>3. InQueue(queue', Fire(e)) <=> e \in timers \ armed /\ e \notin gone
    BY <2>1, <1>3, <1>5
  <2>4. e \in timers \ armed /\ e \notin gone <=> e \in timers' \ armed'
    BY <1>4 DEF gone
  <2> QED BY <2>2, <2>3, <2>4
<1>7. TypeOK'
  BY <1>4, <1>5 DEF IInv, TypeOK, RunUpdate, cliVars
<1> QED BY <1>6, <1>7 DEF IInv

\* A handler of a timer has run: that timer waits again.
LEMMA FireKeeps == IInv /\ RunFire => IInv'
<1> SUFFICES ASSUME IInv, RunFire PROVE IInv'
  OBVIOUS
<1>1. /\ queue \in Seq(Handler) /\ queue # <<>> /\ Head(queue).kind = "fire"
      /\ queue' = Tail(queue) /\ timers' = timers
      /\ armed' = armed \cup {Head(queue).entry}
  BY DEF IInv, TypeOK, RunFire, Ready
<1>2. Head(queue) \in Handler /\ Head(queue) = queue[1] /\ 1 \in DOMAIN queue
  BY <1>1, TailQueue
<1>3. PICK f \in Entries : Head(queue) = Fire(f)
  BY <1>1, <1>2 DEF Handler, Fire
<1>4. f \in timers
  BY <1>2, <1>3 DEF IInv, FiresOnce, InQueue
<1>5. \A e \in Entries : Fire(e) = Fire(f) <=> e = f
  BY DEF Fire
<1>6. /\ queue' \in Seq(Handler)
      /\ \A e : Once(queue, Fire(e)) =>
             /\ Once(queue', Fire(e))
             /\ InQueue(queue', Fire(e)) <=> InQueue(queue, Fire(e)) /\ Fire(e) # Fire(f)
  <2> HIDE DEF Handler
  <2> QED BY <1>1, <1>3, TailQueue
<1>7. armed' = armed \cup {f}
  BY <1>1, <1>3 DEF Fire
<1>8. FiresOnce'
  <2> SUFFICES ASSUME NEW e \in Entries
               PROVE  /\ Once(queue', Fire(e))
                      /\ InQueue(queue', Fire(e)) <=> e \in timers' \ armed'
    BY DEF FiresOnce, Fire
  <2>1. Once(queue, Fire(e)) /\ (InQueue(queue, Fire(e)) <=> e \in timers \ armed)
    BY DEF IInv, FiresOnce
  <2> QED BY <2>1, <1>1, <1>5, <1>6, <1>7
<1>9. TypeOK'
  BY <1>1, <1>4, <1>6, <1>7 DEF IInv, TypeOK, RunFire, cliVars
<1> QED BY <1>8, <1>9 DEF IInv

\* A timer expires: its handler is posted, and was not in the queue.
LEMMA ExpireKeeps == IInv /\ Expire => IInv'
<1> SUFFICES ASSUME IInv, Expire PROVE IInv'
  OBVIOUS
<1>1. PICK f \in armed : armed' = armed \ {f} /\ queue' = Append(queue, Fire(f))
  BY DEF Expire, Post, Fire
<1>2. queue \in Seq(Handler) /\ f \in Entries /\ f \in timers /\ timers' = timers
  BY DEF IInv, TypeOK, Expire
<1>3. Fire(f) \in Handler
  BY <1>2 DEF Fire, Handler
<1>4. ~InQueue(queue, Fire(f))
  BY <1>1, <1>2 DEF IInv, FiresOnce
<1>5. \A e \in Entries : Fire(e) = Fire(f) <=> e = f
  BY DEF Fire
<1>6. /\ queue' \in Seq(Handler)
      /\ \A e : InQueue(queue', Fire(e)) <=> InQueue(queue, Fire(e)) \/ Fire(e) = Fire(f)
      /\ \A e : Once(queue, Fire(e)) => Once(queue', Fire(e))
  <2> HIDE DEF Handler
  <2> QED BY <1>1, <1>2, <1>3, <1>4, PostQueue
<1>7. FiresOnce'
  <2> SUFFICES ASSUME NEW e \in Entries
               PROVE  /\ Once(queue', Fire(e))
                      /\ InQueue(queue', Fire(e)) <=> e \in timers' \ armed'
    BY DEF FiresOnce, Fire
  <2>1. Once(queue, Fire(e)) /\ (InQueue(queue, Fire(e)) <=> e \in timers \ armed)
    BY DEF IInv, FiresOnce
  <2> QED BY <2>1, <1>1, <1>2, <1>5, <1>6
<1>8. TypeOK'
  BY <1>1, <1>6, <1>2 DEF IInv, TypeOK, Expire, cliVars
<1> QED BY <1>7, <1>8 DEF IInv

\* Steps that leave timers and the queue alone.
LEMMA QuietKeeps ==
    ASSUME IInv, UNCHANGED <<timers, armed, queue>> PROVE FiresOnce'
  BY DEF IInv, FiresOnce, Fire, Once, InQueue

LEMMA IInvStep == IInv /\ [Next]_vars => IInv'
<1> SUFFICES ASSUME IInv, [Next]_vars PROVE IInv'
  OBVIOUS
<1> USE CronAssumption
<1>1. CASE CliAdd \/ CliDel
  <2>1. UNCHANGED <<timers, armed, queue>>
    BY <1>1 DEF CliAdd, CliDel, CliLoad, CliIdleVars, timerVars
  <2>2. TypeOK'
    BY <1>1 DEF IInv, TypeOK, CliAdd, CliDel, CliLoad, CliIdleVars, timerVars
  <2> QED BY <2>1, <2>2, QuietKeeps DEF IInv
<1>2. CASE Cli
  <2>1. UNCHANGED <<timers, armed, queue>>
    BY <1>2 DEF Cli, CliTruncate, CliWriteLine, CliSaved, CliNotify, CliIdleVars, timerVars
  <2>2. TypeOK'
    BY <1>2 DEF IInv, TypeOK, Cli, CliTruncate, CliWriteLine, CliSaved, CliNotify,
                NotifyOne, CliIdleVars, timerVars
  <2> QED BY <2>1, <2>2, QuietKeeps DEF IInv
<1>3. CASE WatcherPost
  <2>1. Plain("update") \in Handler /\ Plain("update").kind # "fire"
    BY DEF Plain, Handler
  <2>2. queue' \in Seq(Handler) /\ FiresOnce'
    BY <1>3, <2>1, PostOther DEF WatcherPost, Post, timerVars
  <2>3. TypeOK'
    BY <1>3, <2>2 DEF IInv, TypeOK, WatcherPost, timerVars, cliVars
  <2> QED BY <2>2, <2>3 DEF IInv
<1>4. CASE WatcherWait \/ WatcherExit \/ SpuriousWake
  <2>1. UNCHANGED <<timers, armed, queue>>
    BY <1>4 DEF WatcherWait, WatcherExit, SpuriousWake, timerVars
  <2>2. TypeOK'
    BY <1>4 DEF IInv, TypeOK, WatcherWait, WatcherExit, SpuriousWake, timerVars, cliVars
  <2> QED BY <2>1, <2>2, QuietKeeps DEF IInv
<1>5. CASE RunUpdate
  BY <1>5, UpdateKeeps
<1>6. CASE RunFire
  BY <1>6, FireKeeps
<1>7. CASE RunStale
  <2>1. Head(queue) \in Handler
    BY <1>7, TailQueue DEF IInv, TypeOK, RunStale, Ready
  <2>2. Head(queue).entry \in Entries
    BY <1>7, <2>1 DEF RunStale, Ready, Handler
  <2>3. queue' \in Seq(Handler) /\ FiresOnce'
    BY <1>7, RunOther DEF RunStale, Ready
  <2>4. TypeOK'
    BY <1>7, <2>2, <2>3 DEF IInv, TypeOK, RunStale, cliVars
  <2> QED BY <2>3, <2>4 DEF IInv
<1>8. CASE RunSignal
  <2>1. queue' \in Seq(Handler) /\ FiresOnce'
    BY <1>8, RunOther DEF RunSignal, Ready, timerVars
  <2>2. TypeOK'
    BY <1>8, <2>1 DEF IInv, TypeOK, RunSignal, NotifyOne, cliVars, timerVars
  <2> QED BY <2>1, <2>2 DEF IInv
<1>9. CASE Expire
  BY <1>9, ExpireKeeps
<1>10. CASE ExpireZombie
  <2>1. PICK f \in zombies : /\ zombies' = zombies \ {f}
                             /\ queue' = Append(queue, [kind |-> "stale", entry |-> f])
    BY <1>10 DEF ExpireZombie, Post
  <2>2. /\ [kind |-> "stale", entry |-> f] \in Handler
        /\ [kind |-> "stale", entry |-> f].kind # "fire"
    BY DEF Handler, IInv, TypeOK
  <2>3. queue' \in Seq(Handler) /\ FiresOnce'
    BY <1>10, <2>1, <2>2, PostOther DEF ExpireZombie
  <2>4. TypeOK'
    BY <1>10, <2>1, <2>3 DEF IInv, TypeOK, ExpireZombie, cliVars
  <2> QED BY <2>3, <2>4 DEF IInv
<1>11. CASE Signal
  <2>1. Plain("signal") \in Handler /\ Plain("signal").kind # "fire"
    BY DEF Plain, Handler
  <2>2. queue' \in Seq(Handler) /\ FiresOnce'
    BY <1>11, <2>1, PostOther DEF Signal, Post, timerVars
  <2>3. TypeOK'
    BY <1>11, <2>2 DEF IInv, TypeOK, Signal, timerVars, cliVars
  <2> QED BY <2>2, <2>3 DEF IInv
<1>12. CASE UNCHANGED vars
  <2>1. UNCHANGED <<timers, armed, queue>>
    BY <1>12 DEF vars, timerVars
  <2>2. TypeOK'
    BY <1>12 DEF IInv, TypeOK, vars, timerVars, cliVars
  <2> QED BY <2>1, <2>2, QuietKeeps DEF IInv
<1> QED
  BY <1>1, <1>2, <1>3, <1>4, <1>5, <1>6, <1>7, <1>8, <1>9, <1>10, <1>11, <1>12
  DEF Next, Watcher, Io

LEMMA IInvAlways == Spec => []IInv
  BY IInvInit, IInvStep, PTL DEF Spec

-----------------------------------------------------------------------------
(* What it gives.                                                          *)

\* Every variable keeps its type, and the queue only holds handlers of known
\* entries, however cis_cron, the threads, the clock and signals interleave.
THEOREM TypeCorrect == Spec => []TypeOK
<1>1. IInv => TypeOK BY DEF IInv
<1> QED BY <1>1, IInvAlways, PTL

\* The handlers of an entry's timer are none if the timer waits, and one if it
\* does not.
LEMMA OneHandler == IInv => EveryTimerRunsOnce
<1> SUFFICES ASSUME IInv, NEW e \in timers
             PROVE  Cardinality(Queued("fire", e)) = IF e \in armed THEN 0 ELSE 1
  BY DEF EveryTimerRunsOnce
<1>1. /\ Once(queue, Fire(e))
      /\ InQueue(queue, Fire(e)) <=> e \notin armed
  BY DEF IInv, TypeOK, FiresOnce
<1>2. Queued("fire", e) = {i \in DOMAIN queue : queue[i] = Fire(e)}
  BY DEF Queued, Fire
<1>3. CASE e \in armed
  <2>1. Queued("fire", e) = {} BY <1>1, <1>2, <1>3 DEF InQueue
  <2> QED BY <2>1, <1>3, FS_EmptySet
<1>4. CASE e \notin armed
  <2>1. PICK i \in DOMAIN queue : queue[i] = Fire(e)
    BY <1>1, <1>4 DEF InQueue
  <2>2. Queued("fire", e) = {i}
    BY <2>1, <1>1, <1>2 DEF Once
  <2> QED BY <2>2, <1>4, FS_Singleton
<1> QED BY <1>3, <1>4

\* No sequence of updates, expirations and handlers loses an entry's timer or
\* doubles it: cron_manager::update merges table and timers, cron_timer::run
\* waits again only after its handler ran.
THEOREM TimersRunOnce == Spec => []EveryTimerRunsOnce
  BY IInvAlways, OneHandler, PTL
=============================================================================
