---------------------------- MODULE StartJobProofs ----------------------------
(***************************************************************************)
(* Proofs about StartJob for any number of processes, jobs and parameters,  *)
(* and any command lines.                                                   *)
(*                                                                          *)
(* What a startjob knows of its ancestors was read from its environment     *)
(* when it started.  The inductive invariant says that this stays true:     *)
(* the job and the build of a startjob whose script has begun no longer     *)
(* change, and before that no script can hand them on.                      *)
(*                                                                          *)
(* With one job after the other, the startjobs of a session that are at     *)
(* work wait for each other in a line, and only the last of the line writes *)
(* to the session (Waits, Left).  Whatever fails, a startjob waits for      *)
(* those that hold its script's output, so that all of a line below the     *)
(* opener of a session is at an end before the opener is (Held).            *)
(***************************************************************************)
EXTENDS StartJob, FiniteSetTheorems, WellFoundedInduction, TLAPS

\* Where the script of p says it runs, and whose script started p.
Place(p) ==
    /\ ctx[p].job = inv[p].job /\ ctx[p].build = build[p]
    /\ IF parent[p] = Operator
       THEN ctx[p].parentJob = None /\ ctx[p].parentBuild = None
       ELSE /\ ctx[p].parentJob = inv[parent[p]].job
            /\ ctx[p].parentBuild = build[parent[p]]

\* The environment of p, and what of it p hands on as it is.
Inherited(p) ==
    /\ parent[p] = Operator => env[p] = NoEnvironment
    /\ parent[p] # Operator =>
           /\ script[parent[p]] # "none"
           /\ env[p].job = inv[parent[p]].job /\ env[p].build = build[parent[p]]
    /\ pc[p] \in {"load", "prepare"} =>
           /\ ctx[p].parentJob = env[p].parentJob
           /\ ctx[p].parentBuild = env[p].parentBuild

Placed ==
    \A p \in Procs :
        /\ pc[p] \in {"unborn", "load", "prepare"} => script[p] = "none"
        /\ pc[p] # "unborn" => Session(p) \in Procs
        /\ Inherited(p)
        /\ script[p] # "none" => build[p] \in Nat /\ Place(p)

\* The .prm file of a session holds what scripts of that session have set.
SetInSession ==
    \A s \in Procs : \A k \in Params :
        prm[s][k] # None => script[prm[s][k]] # "none" /\ Session(prm[s][k]) = s

Typed == TypeOK /\ params = [p \in Procs |-> params[p]]

IInv == Typed /\ Placed /\ SetInSession /\ ParamsStayInSession

-----------------------------------------------------------------------------
(* Types.                                                                  *)

\* A job has a whole number of builds.
LEMMA BuildsCounted == \A j : Cardinality(BuildsOf(j)) \in Nat
<1>1. IsFiniteSet(Procs)
  BY StartJobAssumption, FS_Interval DEF Procs
<1> QED BY <1>1, FS_Subset, FS_CardinalityType DEF BuildsOf

\* Processes are numbers, an unset variable is none, and 0 is nobody's number.
LEMMA ProcsFacts == /\ None \notin Procs /\ Default \notin Procs /\ Operator \notin Procs
                    /\ None \notin Jobs /\ None \notin Nat
                    /\ \A p \in Procs : p \in Nat
  BY StartJobAssumption DEF Procs, Default, Operator

LEMMA InvocationFacts ==
    \A i \in Invocations : i.job \in Jobs /\ JobParams[i.job] \subseteq Params
  BY StartJobAssumption DEF Invocation

LEMMA TypedInit == Init => Typed
<1> SUFFICES ASSUME Init PROVE Typed
  OBVIOUS
<1>1. AnyInvocation \in Invocations
  BY StartJobAssumption DEF AnyInvocation
<1>2. NoEnvironment \in Environment
  BY DEF NoEnvironment, Environment
<1>3. Unset \in [Params -> Procs \cup {None}]
  BY DEF Unset
<1>4. Defaults(AnyInvocation.job) \in [JobParams[AnyInvocation.job] -> Values]
  BY DEF Defaults, Values
<1>5. \A p \in Procs : params[p] \in [ParamsOf(p) -> Values]
  BY <1>4 DEF Init, ParamsOf
<1>6. [job |-> None, build |-> None] \in [job : Jobs \cup {None}, build : Nat \cup {None}]
  OBVIOUS
<1>7. params = [p \in Procs |-> params[p]]
  BY DEF Init
<1> QED BY <1>1, <1>2, <1>3, <1>5, <1>6, <1>7 DEF Init, Typed, TypeOK, Operator

\* The session of a startjob that was born is a process.
LEMMA SessionsAreProcs ==
    ASSUME Placed, NEW p \in Procs, pc[p] # "unborn" PROVE Session(p) \in Procs
  BY DEF Placed

LEMMA TypedStart ==
    ASSUME IInv, NEW p \in Procs, NEW q \in Procs \cup {Operator}, Start(p, q)
    PROVE  Typed'
<1>1. PICK i \in Invocations :
          /\ inv' = [inv EXCEPT ![p] = i]
          /\ params' = [params EXCEPT ![p] = Defaults(i.job)]
          /\ LET e == IF q = Operator THEN NoEnvironment ELSE ctx[q]
             IN  env' = [env EXCEPT ![p] = e] /\ InvokeSession(p, e, i.new)
          /\ calm' = (calm /\ (q # Operator => i.held
                               /\ \A r \in Procs : parent[r] = q => Over(r)))
  BY DEF Start
<1>2. TypeOK /\ params = [r \in Procs |-> params[r]]
  BY DEF IInv, Typed
<1> DEFINE e == IF q = Operator THEN NoEnvironment ELSE ctx[q]
<1>3. e \in Environment
  BY <1>2 DEF TypeOK, NoEnvironment, Environment
<1>4. env' \in [Procs -> Environment]
  BY <1>1, <1>2, <1>3 DEF TypeOK
<1>5. [e EXCEPT !.session = p] \in Environment
  BY <1>3 DEF Environment
<1>6. ctx' \in [Procs -> Environment] /\ cisLog' \in [Procs -> {"none", "opened", "closed"}]
  <2> HIDE DEF e
  <2>1. \/ ctx' = [ctx EXCEPT ![p] = [e EXCEPT !.session = e.session]]
        \/ ctx' = [ctx EXCEPT ![p] = [e EXCEPT !.session = p]]
    BY <1>1 DEF InvokeSession, e
  <2>2. [e EXCEPT !.session = e.session] \in Environment
    BY <1>3 DEF Environment
  <2>3. cisLog' = cisLog \/ cisLog' = [cisLog EXCEPT ![p] = "opened"]
    BY <1>1 DEF InvokeSession, e
  <2>4. ctx' \in [Procs -> Environment]
    <3> HIDE DEF Environment
    <3> QED BY <1>2, <1>5, <2>1, <2>2 DEF TypeOK
  <2> QED BY <1>2, <2>3, <2>4 DEF TypeOK
<1> HIDE DEF e
<1>7. inv' \in [Procs -> Invocations]
  BY <1>1, <1>2 DEF TypeOK
<1>8. /\ params' = [r \in Procs |-> params'[r]]
      /\ \A r \in Procs : params'[r] \in [ParamsOf(r)' -> Values]
  <2>1. Defaults(i.job) \in [JobParams[i.job] -> Values]
    BY DEF Defaults, Values
  <2> QED BY <1>1, <1>2, <2>1 DEF TypeOK, ParamsOf
<1>9. calm' \in BOOLEAN
  BY <1>1, <1>2, Zenon DEF TypeOK
<1>10. /\ parent' \in [Procs -> Procs \cup {Operator}]
       /\ pc' \in [Procs -> Running \cup {"unborn", "gone", "killed", "crashed"}]
       /\ UNCHANGED <<build, script, status, due, prm, last>>
  BY <1>2 DEF Start, TypeOK, Goto, Running
<1> QED
  BY <1>2, <1>4, <1>6, <1>7, <1>8, <1>9, <1>10 DEF Typed, TypeOK

\* The parameters of a build are chosen.
LEMMA TypedWithParams ==
    ASSUME Typed, NEW p \in Procs, NEW choice \in [ParamsOf(p) -> Values],
           WithParams(p, choice), UNCHANGED <<parent, inv, env, ctx, build, script, status,
                                              prm, last, cisLog, calm>>,
           due' \in [Procs -> [Params -> Procs \cup {None}]]
    PROVE  Typed'
<1>1. TypeOK /\ params = [r \in Procs |-> params[r]]
  BY DEF Typed
<1>2. /\ params' = [r \in Procs |-> params'[r]]
      /\ \A r \in Procs : params'[r] \in [ParamsOf(r)' -> Values]
  BY <1>1 DEF TypeOK, WithParams, ParamsOf
<1>3. pc' \in [Procs -> Running \cup {"unborn", "gone", "killed", "crashed"}]
  BY <1>1 DEF TypeOK, WithParams, Goto, Running
<1> QED BY <1>1, <1>2, <1>3 DEF Typed, TypeOK

\* main returns.
LEMMA TypedLeave ==
    ASSUME Typed, NEW p \in Procs, NEW how \in {"ok", "fail"}, Leave(p, how),
           UNCHANGED <<parent, inv, env, ctx, params, script, due, prm, last, calm>>,
           build' \in [Procs -> Nat \cup {None}]
    PROVE  Typed'
<1>1. TypeOK /\ params = [r \in Procs |-> params[r]]
  BY DEF Typed
<1>2. /\ pc' \in [Procs -> Running \cup {"unborn", "gone", "killed", "crashed"}]
      /\ status' \in [Procs -> {"none", "ok", "fail"}]
      /\ cisLog' \in [Procs -> {"none", "opened", "closed"}]
  BY <1>1 DEF TypeOK, Leave, Goto, Running
<1>3. /\ params' = [r \in Procs |-> params'[r]]
      /\ \A r \in Procs : params'[r] \in [ParamsOf(r)' -> Values]
  BY <1>1 DEF TypeOK, ParamsOf
<1> QED BY <1>1, <1>2, <1>3 DEF Typed, TypeOK

\* The actions that end main.
LeaveActions(p) ==
    \/ LoadRefused(p) \/ TypedInvalid(p) \/ LaunchRefused(p) \/ RunRefused(p)
    \/ SetRefused(p) \/ SpawnMaintenance(p)

\* The actions that settle the parameters.
ParamActions(p) ==
    \/ TypeParams(p) \/ UseGiven(p) \/ UseSession(p) \/ SessionUnreadable(p) \/ NoParams(p)

LEMMA TypedLeaveActions ==
    ASSUME IInv, NEW p \in Procs, LeaveActions(p) PROVE Typed'
<1>1. Typed /\ TypeOK
  BY DEF IInv, Typed
<1>2. build' \in [Procs -> Nat \cup {None}]
  <2>1. CASE LaunchRefused(p)
    <3> DEFINE n == Cardinality(BuildsOf(inv[p].job))
    <3>1. n \in Nat BY BuildsCounted
    <3>2. \E m \in {None, n} : build' = [build EXCEPT ![p] = m]
      BY <2>1 DEF LaunchRefused
    <3> HIDE DEF n
    <3> QED BY <1>1, <3>1, <3>2 DEF TypeOK
  <2>2. CASE ~LaunchRefused(p)
    BY <1>1, <2>2 DEF TypeOK, LeaveActions, LoadRefused, TypedInvalid, RunRefused, SetRefused,
                      SpawnMaintenance
  <2> QED BY <2>1, <2>2
<1>3. PICK how \in {"ok", "fail"} : Leave(p, how)
  BY DEF LeaveActions, LoadRefused, TypedInvalid, LaunchRefused, RunRefused, SetRefused,
         SpawnMaintenance
<1>4. UNCHANGED <<parent, inv, env, ctx, params, script, due, prm, last, calm>>
  BY DEF LeaveActions, LoadRefused, TypedInvalid, LaunchRefused, RunRefused, SetRefused,
         SpawnMaintenance
<1> QED BY <1>1, <1>2, <1>3, <1>4, TypedLeave

LEMMA TypedParamActions ==
    ASSUME IInv, NEW p \in Procs, ParamActions(p) PROVE Typed'
<1>1. Typed /\ TypeOK
  BY DEF IInv, Typed
<1>2. params[p] \in [ParamsOf(p) -> Values] /\ p \in Values
  BY <1>1 DEF TypeOK, Values
<1>3. ParamsOf(p) \subseteq Params
  BY <1>1, InvocationFacts DEF TypeOK, ParamsOf
<1>4. UNCHANGED <<parent, inv, env, ctx, build, script, status, prm, last, cisLog, calm>>
  BY DEF ParamActions, TypeParams, UseGiven, UseSession, SessionUnreadable, NoParams, storeVars
<1>5. Session(p) \in Procs
  BY <1>1 DEF IInv, Placed, ParamActions, TypeParams, UseGiven, UseSession, SessionUnreadable,
              NoParams, WithParams
<1>6. prm[Session(p)] \in [Params -> Procs \cup {None}]
  BY <1>1, <1>5 DEF TypeOK
<1>7. due' \in [Procs -> [Params -> Procs \cup {None}]]
  BY <1>1, <1>6 DEF TypeOK, ParamActions, TypeParams, UseGiven, UseSession, SessionUnreadable,
                    NoParams
<1>8. PICK choice \in [ParamsOf(p) -> Values] : WithParams(p, choice)
  <2>1. CASE TypeParams(p)
    <3>1. PICK typed \in SUBSET ParamsOf(p) :
              WithParams(p, [k \in ParamsOf(p) |-> IF k \in typed THEN p ELSE params[p][k]])
      BY <2>1 DEF TypeParams
    <3>2. [k \in ParamsOf(p) |-> IF k \in typed THEN p ELSE params[p][k]]
              \in [ParamsOf(p) -> Values]
      BY <1>2
    <3> QED BY <3>1, <3>2
  <2>2. CASE UseGiven(p)
    <3>1. [k \in ParamsOf(p) |-> IF k \in inv[p].given THEN p ELSE params[p][k]]
              \in [ParamsOf(p) -> Values]
      BY <1>2
    <3> QED BY <2>2, <3>1 DEF UseGiven
  <2>3. CASE UseSession(p)
    <3> DEFINE set == prm[Session(p)]
    <3>1. WithParams(p, [k \in ParamsOf(p) |->
                             IF set[k] # None THEN set[k] ELSE params[p][k]])
      BY <2>3 DEF UseSession
    <3>2. \A k \in ParamsOf(p) : set[k] # None => set[k] \in Values
      BY <1>3, <1>6 DEF Values
    <3> HIDE DEF set
    <3>3. [k \in ParamsOf(p) |-> IF set[k] # None THEN set[k] ELSE params[p][k]]
              \in [ParamsOf(p) -> Values]
      BY <1>2, <3>2
    <3> QED BY <3>1, <3>3
  <2>4. CASE SessionUnreadable(p) \/ NoParams(p)
    BY <1>2, <2>4 DEF SessionUnreadable, NoParams
  <2> QED BY <2>1, <2>2, <2>3, <2>4 DEF ParamActions
<1> QED BY <1>1, <1>4, <1>7, <1>8, TypedWithParams

\* Variables whose steps are the same in many actions.
LEMMA ParamsTyped ==
    ASSUME Typed, UNCHANGED <<params, inv>>
    PROVE  /\ params' = [r \in Procs |-> params'[r]]
           /\ \A r \in Procs : params'[r] \in [ParamsOf(r)' -> Values]
  BY DEF Typed, TypeOK, ParamsOf

LEMMA TypedLaunch ==
    ASSUME IInv, NEW p \in Procs, Launch(p) PROVE Typed'
<1>1. TypeOK
  BY DEF IInv, Typed
<1> DEFINE n == Cardinality(BuildsOf(inv[p].job))
<1>2. n \in Nat
  BY BuildsCounted
<1> DEFINE c == [session     |-> ctx[p].session,
                 job         |-> inv[p].job,
                 build       |-> n,
                 parentJob   |-> IF env[p].job # None THEN env[p].job ELSE ctx[p].parentJob,
                 parentBuild |-> IF env[p].build # None THEN env[p].build
                                                        ELSE ctx[p].parentBuild]
<1>3. build' = [build EXCEPT ![p] = n] /\ ctx' = [ctx EXCEPT ![p] = c]
  BY <1>1 DEF Launch, TypeOK
<1>4. inv[p].job \in Jobs
  BY <1>1, InvocationFacts DEF TypeOK
<1> HIDE DEF n
<1>5. c \in Environment
  BY <1>1, <1>2, <1>4 DEF TypeOK, Environment
<1> HIDE DEF c
<1>6. ctx' \in [Procs -> Environment]
  <2> HIDE DEF Environment
  <2> QED BY <1>1, <1>3, <1>5 DEF TypeOK
<1>7. build' \in [Procs -> Nat \cup {None}]
  BY <1>1, <1>2, <1>3 DEF TypeOK
<1>8. /\ script' \in [Procs -> {"none", "running", "ended"}]
      /\ pc' \in [Procs -> Running \cup {"unborn", "gone", "killed", "crashed"}]
  BY <1>1 DEF TypeOK, Launch, Goto, Running
<1>9. UNCHANGED <<parent, inv, env, params, status, due, prm, last, cisLog, calm>>
  BY DEF Launch, storeVars
<1> QED BY <1>1, <1>6, <1>7, <1>8, <1>9, ParamsTyped DEF IInv, Typed, TypeOK

LEMMA TypedScript ==
    ASSUME IInv, NEW p \in Procs, ScriptEnds(p) \/ \E k \in Params : SetParam(p, k)
    PROVE  Typed'
<1>1. TypeOK
  BY DEF IInv, Typed
<1>2. CASE ScriptEnds(p)
  <2>1. UNCHANGED <<params, inv>> BY <1>2 DEF ScriptEnds
  <2> QED BY <1>1, <1>2, <2>1, ParamsTyped DEF IInv, Typed, TypeOK, ScriptEnds, storeVars
<1>3. ASSUME NEW k \in Params, SetParam(p, k) PROVE Typed'
  <2>1. UNCHANGED <<params, inv>> BY <1>3 DEF SetParam, procVars
  <2>2. prm' \in [Procs -> [Params -> Procs \cup {None}]]
    BY <1>1, <1>3 DEF TypeOK, SetParam
  <2> QED BY <1>1, <1>3, <2>1, <2>2, ParamsTyped DEF IInv, Typed, TypeOK, SetParam, procVars
<1> QED BY <1>2, <1>3

\* The other actions of main.
OtherActions(p) ==
    RunReturns(p) \/ SetName(p) \/ SetNumber(p) \/ Throws(p) \/ Kill(p)

LEMMA TypedOtherActions ==
    ASSUME IInv, NEW p \in Procs, OtherActions(p) PROVE Typed'
<1>1. TypeOK
  BY DEF IInv, Typed
<1>2. UNCHANGED <<parent, inv, env, ctx, params, build, script, due, prm>>
  BY DEF OtherActions, RunReturns, SetName, SetNumber, Throws, Kill, storeVars
<1>3. pc' \in [Procs -> Running \cup {"unborn", "gone", "killed", "crashed"}]
  <2>1. PICK label \in {"spawn", "setname", "setnumber", "crashed", "killed"} : Goto(p, label)
    BY DEF OtherActions, RunReturns, SetName, SetNumber, Throws, Kill
  <2> QED BY <1>1, <2>1 DEF TypeOK, Goto, Running
<1>4. status' \in [Procs -> {"none", "ok", "fail"}] /\ calm' \in BOOLEAN
      /\ cisLog' \in [Procs -> {"none", "opened", "closed"}]
  BY <1>1 DEF TypeOK, OtherActions, RunReturns, SetName, SetNumber, Throws, Kill, storeVars
<1>5. last' \in [Procs -> [job : Jobs \cup {None}, build : Nat \cup {None}]]
  <2>1. inv[p].job \in Jobs /\ build[p] \in Nat \cup {None}
    BY <1>1, InvocationFacts DEF TypeOK
  <2>2. CASE SetName(p)
    BY <1>1, <2>1, <2>2 DEF TypeOK, SetName
  <2>3. CASE SetNumber(p)
    BY <1>1, <2>1, <2>3 DEF TypeOK, SetNumber
  <2>4. CASE RunReturns(p) \/ Throws(p) \/ Kill(p)
    BY <1>1, <2>4 DEF TypeOK, RunReturns, Throws, Kill, storeVars
  <2> QED BY <2>2, <2>3, <2>4 DEF OtherActions
<1>6. UNCHANGED <<params, inv>> BY <1>2
<1> QED BY <1>1, <1>2, <1>3, <1>4, <1>5, <1>6, ParamsTyped DEF IInv, Typed, TypeOK

-----------------------------------------------------------------------------
(* Places.                                                                 *)

LEMMA PlacedInit == Init => Placed
  BY ProcsFacts DEF Init, Placed, Inherited, Operator, NoEnvironment

\* Steps that change of all this only where a born startjob is in main.
LEMMA PlacedQuiet ==
    ASSUME IInv, NEW p \in Procs, NEW label, Goto(p, label),
           pc[p] # "unborn", label \notin {"unborn", "load"},
           label = "prepare" => pc[p] = "load",
           UNCHANGED <<parent, inv, env, ctx, build, script>>
    PROVE  Placed'
<1>1. /\ pc' = [pc EXCEPT ![p] = label]
      /\ pc \in [Procs -> Running \cup {"unborn", "gone", "killed", "crashed"}]
  BY DEF IInv, Typed, TypeOK, Goto
<1>2. SUFFICES ASSUME NEW r \in Procs
               PROVE  /\ pc'[r] \in {"unborn", "load", "prepare"} => script[r] = "none"
                      /\ pc'[r] # "unborn" => Session(r) \in Procs
                      /\ Inherited(r)'
                      /\ script[r] # "none" => build[r] \in Nat /\ Place(r)
  BY DEF Placed, Place, Session
<1>3. /\ pc'[r] \in {"unborn", "load", "prepare"} =>
             pc[r] \in {"unborn", "load", "prepare"} /\ (pc[r] = "unborn" <=> pc'[r] = "unborn")
      /\ pc'[r] # "unborn" => pc[r] # "unborn"
  BY <1>1
<1> QED BY <1>3 DEF IInv, Placed, Inherited

LEMMA PlacedMain ==
    ASSUME IInv, NEW p \in Procs,
           ParamActions(p) \/ OtherActions(p) \/ (LeaveActions(p) /\ ~LaunchRefused(p))
    PROVE  Placed'
<1>1. UNCHANGED <<parent, inv, env, ctx, build, script>>
  BY DEF ParamActions, OtherActions, LeaveActions, LoadRefused, TypedInvalid, LaunchRefused,
         RunRefused, SetRefused, SpawnMaintenance, TypeParams, UseGiven, UseSession,
         SessionUnreadable, NoParams, RunReturns, SetName, SetNumber, Throws, Kill
<1>2. pc[p] # "unborn"
  BY DEF ParamActions, OtherActions, LeaveActions, LoadRefused, TypedInvalid, LaunchRefused,
         RunRefused, SetRefused, SpawnMaintenance, TypeParams, UseGiven, UseSession, WithParams,
         SessionUnreadable, NoParams, RunReturns, SetName, SetNumber, Throws, Kill, Running
<1>3. CASE ParamActions(p)
  <2>1. pc[p] = "load" /\ Goto(p, "prepare")
    BY <1>3 DEF ParamActions, TypeParams, UseGiven, UseSession, WithParams, SessionUnreadable,
                NoParams
  <2> QED BY <1>1, <1>2, <2>1, PlacedQuiet
<1>4. CASE ~ParamActions(p)
  <2>1. PICK label \in {"gone", "spawn", "setname", "setnumber", "crashed", "killed"} :
            Goto(p, label)
    BY <1>4 DEF OtherActions, LeaveActions, LoadRefused, TypedInvalid, LaunchRefused,
         RunRefused, SetRefused, SpawnMaintenance, RunReturns, SetName, SetNumber, Throws,
         Kill, Leave
  <2> QED BY <1>1, <1>2, <2>1, PlacedQuiet
<1> QED BY <1>3, <1>4

\* Nobody has a parent whose script has not begun.
LEMMA NoChildYet ==
    ASSUME Placed, NEW p \in Procs, script[p] = "none"
    PROVE  \A r \in Procs : parent[r] # p
  BY ProcsFacts DEF Placed, Inherited

LEMMA PlacedStart ==
    ASSUME IInv, NEW p \in Procs, NEW q \in Procs \cup {Operator}, Start(p, q)
    PROVE  Placed'
<1>1. TypeOK /\ Placed
  BY DEF IInv, Typed
<1>2. pc[p] = "unborn" /\ script[p] = "none"
  BY <1>1 DEF Start, Placed
<1>3. \A r \in Procs : parent[r] # p
  BY <1>1, <1>2, NoChildYet
<1> DEFINE e == IF q = Operator THEN NoEnvironment ELSE ctx[q]
<1>4. PICK i \in Invocations :
          /\ inv' = [inv EXCEPT ![p] = i]
          /\ env' = [env EXCEPT ![p] = e] /\ InvokeSession(p, e, i.new)
  BY DEF Start
<1>5. e \in Environment
  BY <1>1 DEF TypeOK, NoEnvironment, Environment
<1>6. /\ q = Operator => e = NoEnvironment
      /\ q # Operator => e.job = inv[q].job /\ e.build = build[q] /\ script[q] = "running"
                         /\ q # p
  BY <1>1, <1>2 DEF Start, Placed, Place
<1> HIDE DEF e
<1>7. PICK s \in Procs : ctx' = [ctx EXCEPT ![p] = [e EXCEPT !.session = s]]
  <2>1. CASE ~i.new /\ e.session # None
    <3>1. e.session \in Procs
      BY <1>5, <2>1 DEF Environment
    <3>2. ctx' = [ctx EXCEPT ![p] = [e EXCEPT !.session = e.session]]
      BY <1>4, <2>1 DEF InvokeSession
    <3> QED BY <3>1, <3>2
  <2>2. CASE ~(~i.new /\ e.session # None)
    <3>1. ctx' = [ctx EXCEPT ![p] = [e EXCEPT !.session = p]]
      BY <1>4, <2>2 DEF InvokeSession
    <3> QED BY <3>1
  <2> QED BY <2>1, <2>2
<1>8. /\ parent' = [parent EXCEPT ![p] = q]
      /\ pc' = [pc EXCEPT ![p] = "load"]
      /\ UNCHANGED <<build, script>>
  BY DEF Start, Goto
<1>9. ASSUME NEW r \in Procs, r # p
      PROVE  /\ pc'[r] \in {"unborn", "load", "prepare"} => script'[r] = "none"
             /\ pc'[r] # "unborn" => Session(r)' \in Procs
             /\ Inherited(r)'
             /\ script'[r] # "none" => build'[r] \in Nat /\ Place(r)'
  <2>1. /\ pc'[r] = pc[r] /\ parent'[r] = parent[r] /\ env'[r] = env[r] /\ ctx'[r] = ctx[r]
        /\ inv'[r] = inv[r] /\ parent[r] # p
        /\ parent[r] # Operator => inv'[parent[r]] = inv[parent[r]]
    BY <1>1, <1>3, <1>4, <1>7, <1>8, <1>9 DEF TypeOK
  <2> QED BY <1>1, <1>8, <2>1 DEF Placed, Inherited, Place, Session
<1>10. /\ pc'[p] = "load" /\ parent'[p] = q /\ env'[p] = e
       /\ ctx'[p] = [e EXCEPT !.session = s] /\ script'[p] = "none"
  BY <1>1, <1>2, <1>4, <1>7, <1>8 DEF TypeOK
<1>11. ctx'[p].session = s /\ ctx'[p].parentJob = e.parentJob
       /\ ctx'[p].parentBuild = e.parentBuild
  BY <1>5, <1>10 DEF Environment
<1>12. Inherited(p)'
  <2>1. q # Operator => inv'[q] = inv[q]
    BY <1>1, <1>4, <1>6 DEF TypeOK
  <2> QED BY <1>6, <1>8, <1>10, <1>11, <2>1 DEF Inherited
<1>13. Session(p)' \in Procs
  BY <1>11 DEF Session
<1> QED BY <1>9, <1>10, <1>12, <1>13 DEF Placed

LEMMA PlacedLaunch ==
    ASSUME IInv, NEW p \in Procs, Launch(p) PROVE Placed'
<1>1. TypeOK /\ Placed
  BY DEF IInv, Typed
<1>2. pc[p] = "prepare" /\ script[p] = "none"
  BY <1>1 DEF Launch, Placed
<1>3. \A r \in Procs : parent[r] # p
  BY <1>1, <1>2, NoChildYet
<1> DEFINE n == Cardinality(BuildsOf(inv[p].job))
<1>4. n \in Nat
  BY BuildsCounted
<1>5. /\ build' = [build EXCEPT ![p] = n]
      /\ ctx' = [ctx EXCEPT ![p] =
             [session     |-> ctx[p].session,
              job         |-> inv[p].job,
              build       |-> n,
              parentJob   |-> IF env[p].job # None THEN env[p].job ELSE ctx[p].parentJob,
              parentBuild |-> IF env[p].build # None THEN env[p].build
                                                     ELSE ctx[p].parentBuild]]
  BY <1>1 DEF Launch, TypeOK
<1> HIDE DEF n
<1>6. /\ pc' = [pc EXCEPT ![p] = "run"]
      /\ script' = [script EXCEPT ![p] = "running"]
      /\ UNCHANGED <<parent, inv, env>>
  BY DEF Launch, Goto
<1>7. ASSUME NEW r \in Procs, r # p
      PROVE  /\ pc'[r] \in {"unborn", "load", "prepare"} => script'[r] = "none"
             /\ pc'[r] # "unborn" => Session(r)' \in Procs
             /\ Inherited(r)'
             /\ script'[r] # "none" => build'[r] \in Nat /\ Place(r)'
  <2>1. /\ pc'[r] = pc[r] /\ script'[r] = script[r] /\ ctx'[r] = ctx[r] /\ build'[r] = build[r]
        /\ parent[r] # p
        /\ parent[r] # Operator => /\ build'[parent[r]] = build[parent[r]]
                                   /\ script'[parent[r]] = script[parent[r]]
    BY <1>1, <1>3, <1>5, <1>6, <1>7 DEF TypeOK
  <2> QED BY <1>1, <1>6, <2>1 DEF Placed, Inherited, Place, Session
<1>8. /\ pc'[p] = "run" /\ script'[p] = "running" /\ build'[p] = n
      /\ ctx'[p].session = ctx[p].session
      /\ ctx'[p].job = inv[p].job /\ ctx'[p].build = n
      /\ ctx'[p].parentJob = IF env[p].job # None THEN env[p].job ELSE ctx[p].parentJob
      /\ ctx'[p].parentBuild = IF env[p].build # None THEN env[p].build
                                                      ELSE ctx[p].parentBuild
  BY <1>1, <1>5, <1>6 DEF TypeOK
<1>9. Session(p)' \in Procs
  BY <1>1, <1>2, <1>8 DEF Placed, Session
<1>10. /\ parent[p] = Operator =>
              ctx'[p].parentJob = None /\ ctx'[p].parentBuild = None
       /\ parent[p] # Operator =>
              /\ ctx'[p].parentJob = inv[parent[p]].job
              /\ ctx'[p].parentBuild = build[parent[p]]
              /\ build'[parent[p]] = build[parent[p]]
              /\ script'[parent[p]] = script[parent[p]]
  <2>1. CASE parent[p] = Operator
    BY <1>1, <1>2, <1>8, <2>1 DEF Placed, Inherited, NoEnvironment
  <2>2. CASE parent[p] # Operator
    <3>1. parent[p] \in Procs /\ parent[p] # p
      BY <1>1, <1>3, <2>2 DEF TypeOK
    <3>2. env[p].job = inv[parent[p]].job /\ env[p].build = build[parent[p]]
          /\ script[parent[p]] # "none"
      BY <1>1, <2>2 DEF Placed, Inherited
    <3>3. env[p].job # None
      BY <1>1, <3>1, <3>2, ProcsFacts, InvocationFacts DEF TypeOK
    <3>4. env[p].build # None
      BY <1>1, <3>1, <3>2, ProcsFacts DEF Placed
    <3>5. build'[parent[p]] = build[parent[p]] /\ script'[parent[p]] = script[parent[p]]
      BY <1>1, <1>5, <1>6, <3>1 DEF TypeOK
    <3> QED BY <1>8, <3>2, <3>3, <3>4, <3>5, <2>2
  <2> QED BY <2>1, <2>2
<1>11. Inherited(p)' /\ Place(p)'
  BY <1>1, <1>6, <1>8, <1>10 DEF Placed, Inherited, Place
<1> QED BY <1>4, <1>7, <1>8, <1>9, <1>11 DEF Placed

\* The directory may have been made, but there is no script.
LEMMA PlacedLaunchRefused ==
    ASSUME IInv, NEW p \in Procs, LaunchRefused(p) PROVE Placed'
<1>1. TypeOK /\ Placed
  BY DEF IInv, Typed
<1>2. pc[p] = "prepare" /\ script[p] = "none"
  BY <1>1 DEF LaunchRefused, Placed
<1>3. \A r \in Procs : parent[r] # p
  BY <1>1, <1>2, NoChildYet
<1>4. /\ \E n : build' = [build EXCEPT ![p] = n]
      /\ pc' = [pc EXCEPT ![p] = "gone"]
      /\ UNCHANGED <<parent, inv, env, ctx, script>>
  BY DEF LaunchRefused, Leave, Goto
<1>5. ASSUME NEW r \in Procs
      PROVE  /\ pc'[r] \in {"unborn", "load", "prepare"} => script'[r] = "none"
             /\ pc'[r] # "unborn" => Session(r)' \in Procs
             /\ Inherited(r)'
             /\ script'[r] # "none" => build'[r] \in Nat /\ Place(r)'
  <2>1. /\ pc'[r] = pc[r] \/ (pc'[r] = "gone" /\ pc[r] # "unborn")
        /\ script[r] # "none" => build'[r] = build[r]
        /\ parent[r] # Operator => build'[parent[r]] = build[parent[r]]
    BY <1>1, <1>2, <1>3, <1>4 DEF TypeOK
  <2> QED BY <1>1, <1>4, <2>1 DEF Placed, Inherited, Place, Session
<1> QED BY <1>5 DEF Placed

LEMMA PlacedScript ==
    ASSUME IInv, NEW p \in Procs, ScriptEnds(p) \/ \E k \in Params : SetParam(p, k)
    PROVE  Placed'
<1>1. TypeOK /\ Placed
  BY DEF IInv, Typed
<1>2. CASE ScriptEnds(p)
  <2>1. /\ script' = [script EXCEPT ![p] = "ended"] /\ script[p] = "running"
        /\ UNCHANGED <<pc, parent, inv, env, ctx, build>>
    BY <1>2 DEF ScriptEnds
  <2>2. \A r \in Procs : script'[r] # "none" <=> script[r] # "none"
    BY <1>1, <2>1 DEF TypeOK
  <2> QED BY <1>1, <2>1, <2>2 DEF Placed, Inherited, Place, Session, TypeOK
<1>3. CASE \E k \in Params : SetParam(p, k)
  <2>1. UNCHANGED <<pc, parent, inv, env, ctx, build, script>>
    BY <1>3 DEF SetParam, procVars
  <2> QED BY <1>1, <2>1 DEF Placed, Inherited, Place, Session
<1> QED BY <1>2, <1>3

-----------------------------------------------------------------------------
(* Parameters.                                                             *)

\* What ScriptKnowsItsPlace, ParamsStayInSession and SetInSession look at of a
\* startjob with a script does not change any more.
LEMMA ScriptsStay ==
    ASSUME IInv, [Next]_vars, NEW p \in Procs, script[p] # "none"
    PROVE  script'[p] # "none" /\ Session(p)' = Session(p)
<1>1. TypeOK /\ Placed
  BY DEF IInv, Typed
<1>2. pc[p] \notin {"unborn", "load", "prepare"}
  BY <1>1 DEF Placed
<1>3. ASSUME NEW r \in Procs, NEW q \in Procs \cup {Operator}, Start(r, q)
      PROVE  script'[p] # "none" /\ Session(p)' = Session(p)
  <2>1. r # p
    BY <1>2, <1>3 DEF Start
  <2>2. \E c : ctx' = [ctx EXCEPT ![r] = c]
    BY <1>3 DEF Start, InvokeSession
  <2>3. ctx'[p] = ctx[p] /\ script' = script
    BY <1>1, <1>3, <2>1, <2>2 DEF TypeOK, Start
  <2> QED BY <2>3 DEF Session
<1>4. ASSUME NEW r \in Procs, Launch(r)
      PROVE  script'[p] # "none" /\ Session(p)' = Session(p)
  <2>1. r # p
    BY <1>2, <1>4 DEF Launch
  <2> QED BY <1>1, <1>4, <2>1 DEF TypeOK, Launch, Session
<1>5. ASSUME NEW r \in Procs, ParamActions(r) \/ OtherActions(r) \/ LeaveActions(r)
      PROVE  script'[p] # "none" /\ Session(p)' = Session(p)
  <2>1. UNCHANGED <<ctx, script>>
    BY <1>5 DEF ParamActions, OtherActions, LeaveActions, LoadRefused, TypedInvalid,
         LaunchRefused, RunRefused, SetRefused, SpawnMaintenance, TypeParams, UseGiven,
         UseSession, SessionUnreadable, NoParams, RunReturns, SetName, SetNumber, Throws,
         Kill
  <2> QED BY <2>1 DEF Session
<1>6. ASSUME NEW r \in Procs, ScriptEnds(r) \/ \E k \in Params : SetParam(r, k)
      PROVE  script'[p] # "none" /\ Session(p)' = Session(p)
  <2>1. ctx' = ctx /\ (script' = script \/ script' = [script EXCEPT ![r] = "ended"])
    BY <1>6 DEF ScriptEnds, SetParam, procVars
  <2> QED BY <1>1, <2>1 DEF TypeOK, Session
<1>7. CASE AllEnded \/ UNCHANGED vars
  BY <1>7 DEF AllEnded, vars, procVars, Session
<1> QED
  BY <1>3, <1>4, <1>5, <1>6, <1>7
  DEF Next, Step, ParamActions, OtherActions, LeaveActions

LEMMA SetInSessionStep ==
    ASSUME IInv, [Next]_vars PROVE SetInSession'
<1>1. TypeOK /\ Placed /\ SetInSession
  BY DEF IInv, Typed
<1>2. CASE prm' = prm
  <2> SUFFICES ASSUME NEW s \in Procs, NEW k \in Params, prm[s][k] # None
               PROVE  script'[prm[s][k]] # "none" /\ ctx'[prm[s][k]].session = s
    BY <1>2 DEF SetInSession, Session
  <2>1. PICK v \in Procs : v = prm[s][k] /\ script[v] # "none" /\ Session(v) = s
    BY <1>1 DEF TypeOK, SetInSession
  <2> QED BY <2>1, ScriptsStay DEF Session
<1>3. ASSUME NEW p \in Procs, NEW j \in Params, SetParam(p, j) PROVE SetInSession'
  <2> SUFFICES ASSUME NEW s \in Procs, NEW k \in Params, prm'[s][k] # None
               PROVE  script'[prm'[s][k]] # "none" /\ ctx'[prm'[s][k]].session = s
    BY DEF SetInSession, Session
  <2>1. /\ script[p] # "none" /\ UNCHANGED <<script, ctx>>
        /\ prm' = [prm EXCEPT ![Session(p)][j] = p]
    BY <1>3 DEF SetParam, procVars
  <2>2. prm'[s][k] = prm[s][k] \/ (prm'[s][k] = p /\ s = Session(p))
    BY <1>1, <2>1 DEF TypeOK
  <2> QED BY <1>1, <2>1, <2>2 DEF SetInSession, Session
<1>4. prm' = prm \/ \E p \in Procs, j \in Params : SetParam(p, j)
  BY DEF Next, Step, Start, AllEnded, vars, procVars, storeVars,
         LoadRefused, TypedInvalid, LaunchRefused, RunRefused, SetRefused, SpawnMaintenance,
         TypeParams, UseGiven, UseSession, SessionUnreadable, NoParams, RunReturns, SetName,
         SetNumber, Throws, Kill, Launch, ScriptEnds
<1> QED BY <1>2, <1>3, <1>4

\* The parameters of p come from where they may.
Allowed(p) ==
    \A k \in ParamsOf(p) :
        params[p][k] \notin {Default, p} =>
            /\ script[params[p][k]] # "none" /\ Session(params[p][k]) = Session(p)
            /\ ~inv[p].predefined

LEMMA ParamsStep ==
    ASSUME IInv, [Next]_vars PROVE ParamsStayInSession'
<1>1. TypeOK /\ Placed /\ SetInSession /\ (\A p \in Procs : Allowed(p))
  BY DEF IInv, Typed, ParamsStayInSession, Allowed
<1>2. SUFFICES ASSUME NEW p \in Procs PROVE Allowed(p)'
  BY DEF ParamsStayInSession, Allowed, ParamsOf, Session
<1>3. ASSUME NEW v \in Values, script[v] # "none", v # Default, Session(v) = Session(p),
             Session(p)' = Session(p)
      PROVE  script'[v] # "none" /\ Session(v)' = Session(p)'
  BY <1>3, ScriptsStay DEF Values
<1>4. \A k \in ParamsOf(p) : params[p][k] \in Values
  BY <1>1 DEF TypeOK
\* Nothing is chosen: what was chosen before stays where it was.
<1>5. ASSUME inv'[p] = inv[p], params'[p] = params[p], Session(p)' = Session(p)
      PROVE  Allowed(p)'
  <2> SUFFICES ASSUME NEW k \in ParamsOf(p), params[p][k] \notin {Default, p}
               PROVE  /\ script'[params[p][k]] # "none"
                      /\ Session(params[p][k])' = Session(p)'
                      /\ ~inv[p].predefined
    BY <1>5 DEF Allowed, ParamsOf, Session
  <2>1. /\ script[params[p][k]] # "none" /\ Session(params[p][k]) = Session(p)
        /\ ~inv[p].predefined
    BY <1>1 DEF Allowed
  <2> QED BY <1>3, <1>4, <1>5, <2>1
<1>6. ASSUME NEW r \in Procs, ParamActions(r) PROVE Allowed(p)'
  <2>1. UNCHANGED <<inv, ctx, script>> /\ \E c : params' = [params EXCEPT ![r] = c]
    BY <1>6 DEF ParamActions, TypeParams, UseGiven, UseSession, SessionUnreadable, NoParams,
                WithParams
  <2>2. CASE r # p
    <3>1. params'[p] = params[p]
      BY <2>1, <2>2 DEF IInv, Typed
    <3> QED BY <1>5, <2>1, <3>1 DEF Session
  <2>3. ASSUME r = p, NEW choice, WithParams(p, choice),
               \A k \in ParamsOf(p) : choice[k] \notin {Default, p} =>
                   /\ script[choice[k]] # "none" /\ Session(choice[k]) = Session(p)
                   /\ ~inv[p].predefined
        PROVE  Allowed(p)'
    <3>1. params'[p] = choice
      BY <2>3 DEF WithParams, IInv, Typed
    <3> QED BY <2>1, <2>3, <3>1 DEF Allowed, ParamsOf, Session
  <2>4. CASE r = p /\ TypeParams(p)
    <3>1. PICK typed \in SUBSET ParamsOf(p) :
              WithParams(p, [k \in ParamsOf(p) |-> IF k \in typed THEN p ELSE params[p][k]])
      BY <2>4 DEF TypeParams
    <3> QED BY <1>1, <2>3, <2>4, <3>1 DEF Allowed
  <2>5. CASE r = p /\ UseGiven(p)
    BY <1>1, <2>3, <2>5 DEF UseGiven, Allowed
  <2>6. CASE r = p /\ UseSession(p)
    <3> DEFINE set == prm[Session(p)]
               choice == [k \in ParamsOf(p) |->
                             IF set[k] # None THEN set[k] ELSE params[p][k]]
    <3>1. WithParams(p, choice) /\ ~inv[p].predefined /\ pc[p] = "load"
      BY <2>6 DEF UseSession, Inherits, WithParams
    <3>2. Session(p) \in Procs /\ ParamsOf(p) \subseteq Params
      BY <1>1, <3>1, InvocationFacts DEF Placed, TypeOK, ParamsOf
    <3>3. \A k \in ParamsOf(p) : set[k] # None =>
              script[set[k]] # "none" /\ Session(set[k]) = Session(p)
      BY <1>1, <3>2 DEF SetInSession
    <3>4. \A k \in ParamsOf(p) : choice[k] = IF set[k] # None THEN set[k] ELSE params[p][k]
      OBVIOUS
    <3> HIDE DEF set, choice
    <3>5. \A k \in ParamsOf(p) : choice[k] \notin {Default, p} =>
              /\ script[choice[k]] # "none" /\ Session(choice[k]) = Session(p)
              /\ ~inv[p].predefined
      BY <1>1, <3>1, <3>3, <3>4 DEF Allowed
    <3> QED BY <2>3, <2>6, <3>1, <3>5
  <2>7. CASE r = p /\ (SessionUnreadable(p) \/ NoParams(p))
    BY <1>1, <2>3, <2>7 DEF SessionUnreadable, NoParams, Allowed
  <2> QED BY <1>6, <2>2, <2>4, <2>5, <2>6, <2>7 DEF ParamActions
<1>7. ASSUME NEW r \in Procs, NEW q \in Procs \cup {Operator}, Start(r, q)
      PROVE  Allowed(p)'
  <2>1. PICK i \in Invocations : /\ inv' = [inv EXCEPT ![r] = i]
                                 /\ params' = [params EXCEPT ![r] = Defaults(i.job)]
    BY <1>7 DEF Start
  <2>2. CASE r = p
    <3>1. inv'[p] = i /\ params'[p] = Defaults(i.job)
      BY <1>1, <2>1, <2>2 DEF TypeOK, IInv, Typed
    <3>2. \A k \in ParamsOf(p)' : params'[p][k] = Default
      BY <3>1 DEF Defaults, ParamsOf
    <3> QED BY <3>2 DEF Allowed
  <2>3. CASE r # p
    <3>1. \E c : ctx' = [ctx EXCEPT ![r] = c]
      BY <1>7 DEF Start, InvokeSession
    <3>2. inv'[p] = inv[p] /\ params'[p] = params[p] /\ ctx'[p] = ctx[p]
      BY <1>1, <2>1, <2>3, <3>1 DEF TypeOK, IInv, Typed
    <3> QED BY <1>5, <3>2 DEF Session
  <2> QED BY <2>2, <2>3
<1>8. ASSUME NEW r \in Procs, Launch(r) PROVE Allowed(p)'
  <2>1. inv' = inv /\ params' = params /\ Session(p)' = Session(p)
    BY <1>1, <1>8 DEF TypeOK, Launch, Session
  <2> QED BY <1>5, <2>1
<1>9. CASE UNCHANGED <<inv, params, ctx>>
  BY <1>5, <1>9 DEF Session
<1>10. \/ \E r \in Procs, q \in Procs \cup {Operator} : Start(r, q)
       \/ \E r \in Procs : Launch(r) \/ ParamActions(r)
       \/ UNCHANGED <<inv, params, ctx>>
  BY DEF Next, Step, AllEnded, vars, procVars, ParamActions,
         LoadRefused, TypedInvalid, LaunchRefused, RunRefused, SetRefused, SpawnMaintenance,
         RunReturns, SetName, SetNumber, Throws, Kill, ScriptEnds, SetParam
<1> QED BY <1>6, <1>7, <1>8, <1>9, <1>10

-----------------------------------------------------------------------------
(* The invariant, and what it gives.                                       *)

LEMMA IInvInit == Init => IInv
<1> SUFFICES ASSUME Init PROVE IInv
  OBVIOUS
<1>1. SetInSession
  BY DEF Init, SetInSession, Unset
<1>2. ParamsStayInSession
  BY DEF Init, ParamsStayInSession, ParamsOf, Defaults
<1> QED BY <1>1, <1>2, TypedInit, PlacedInit DEF IInv

LEMMA IInvStep == IInv /\ [Next]_vars => IInv'
<1> SUFFICES ASSUME IInv, [Next]_vars PROVE IInv'
  OBVIOUS
<1>1. SetInSession' /\ ParamsStayInSession'
  BY SetInSessionStep, ParamsStep
<1>2. Typed' /\ Placed'
  <2>1. ASSUME NEW p \in Procs, NEW q \in Procs \cup {Operator}, Start(p, q)
        PROVE  Typed' /\ Placed'
    BY <2>1, TypedStart, PlacedStart
  <2>2. ASSUME NEW p \in Procs, Launch(p) PROVE Typed' /\ Placed'
    BY <2>2, TypedLaunch, PlacedLaunch
  <2>3. ASSUME NEW p \in Procs, LaunchRefused(p) PROVE Typed' /\ Placed'
    BY <2>3, TypedLeaveActions, PlacedLaunchRefused DEF LeaveActions
  <2>4. ASSUME NEW p \in Procs,
               ParamActions(p) \/ OtherActions(p) \/ (LeaveActions(p) /\ ~LaunchRefused(p))
        PROVE  Typed' /\ Placed'
    BY <2>4, TypedParamActions, TypedOtherActions, TypedLeaveActions, PlacedMain
  <2>5. ASSUME NEW p \in Procs, ScriptEnds(p) \/ \E k \in Params : SetParam(p, k)
        PROVE  Typed' /\ Placed'
    BY <2>5, TypedScript, PlacedScript
  <2>6. CASE AllEnded \/ UNCHANGED vars
    <3>1. UNCHANGED vars BY <2>6 DEF AllEnded
    <3>2. Typed'
      BY <3>1, ParamsTyped DEF IInv, Typed, TypeOK, vars, procVars, storeVars
    <3>3. Placed'
      BY <3>1 DEF IInv, Placed, Inherited, Place, Session, vars, procVars, storeVars
    <3> QED BY <3>2, <3>3
  <2> QED
    BY <2>1, <2>2, <2>3, <2>4, <2>5, <2>6
    DEF Next, Step, ParamActions, OtherActions, LeaveActions
<1> QED BY <1>1, <1>2 DEF IInv

LEMMA IInvAlways == Spec => []IInv
  BY IInvInit, IInvStep, PTL DEF Spec

\* Every variable keeps its type: the parameters of a build are those its job
\* declares, however startjobs, scripts and kills interleave.
THEOREM TypeCorrect == Spec => []TypeOK
<1>1. IInv => TypeOK BY DEF IInv, Typed
<1> QED BY <1>1, IInvAlways, PTL

\* However deep the tree of scripts and startjobs is, and whatever sessions it
\* has: context and execute tell a script its own job and build, and the job
\* and build whose script started its startjob.
THEOREM PlaceKnown == Spec => []ScriptKnowsItsPlace
<1>1. IInv => ScriptKnowsItsPlace
  BY DEF IInv, Placed, Place, ScriptKnowsItsPlace
<1> QED BY <1>1, IInvAlways, PTL

\* However many sessions there are at once, prepare_params hands a build no
\* parameter of another one, and none of the session with --params.
THEOREM ParamsOfSession == Spec => []ParamsStayInSession
<1>1. IInv => ParamsStayInSession
  BY DEF IInv
<1> QED BY <1>1, IInvAlways, PTL

-----------------------------------------------------------------------------
(* What a script finds in its session.                                     *)

\* Startjobs start in order, after those whose scripts start them, and a session
\* is older than those that inherit it.
Ordered ==
    /\ \A p, r \in Procs : pc[p] # "unborn" /\ r < p => pc[r] # "unborn"
    /\ \A p \in Procs :
           /\ pc[p] # "unborn" => Session(p) <= p
           /\ parent[p] # Operator => pc[p] # "unborn" /\ parent[p] < p
           /\ pc[p] = "unborn" => status[p] = "none"
           /\ status[p] = "ok" => pc[p] = "gone"

Active(p) == pc[p] \in Running

\* With one job after the other: who waits for whom.  Between two startjobs of a
\* session that are at work there is one that the first is waiting for.
Waits ==
    /\ \A p \in Procs :
           /\ parent[p] # Operator => inv[p].held
           /\ script[p] = "running" => pc[p] = "run"
           /\ Active(p) /\ parent[p] # Operator => pc[parent[p]] = "run"
    /\ \A p, r \in Procs :
           parent[p] = parent[r] /\ parent[p] # Operator /\ p < r => ~Active(p)
    /\ \A x, y \in Procs :
           Active(x) /\ Active(y) /\ y < x /\ Session(x) = Session(y) =>
               \E c \in Procs : parent[c] = y /\ Active(c) /\ Session(c) = Session(y) /\ c <= x

\* What a startjob has left to its session is there until it ends.
Left ==
    \A p \in Procs :
        /\ pc[p] = "setnumber" => last[Session(p)].job = inv[p].job
        /\ pc[p] = "spawn" /\ ~OpenedByMe(p) =>
               last[Session(p)] = [job |-> inv[p].job, build |-> build[p]]

InTurn == Ordered /\ (calm => Waits /\ Left) /\ LastJobIsTheScripts

\* The others of its session wait for a startjob that does something else.
LEMMA OthersWait ==
    ASSUME IInv, Waits, NEW p \in Procs, Active(p), pc[p] # "run",
           NEW r \in Procs, r # p, Active(r), Session(r) = Session(p)
    PROVE  pc[r] = "run" /\ r < p
<1>1. p \in Nat /\ r \in Nat
  BY ProcsFacts
<1>2. ASSUME p < r PROVE FALSE
  <2>1. PICK c \in Procs : parent[c] = p /\ Active(c)
    BY <1>2 DEF Waits
  <2> QED BY <2>1, ProcsFacts DEF Waits
<1>3. r < p
  BY <1>1, <1>2
<1>4. PICK c \in Procs : parent[c] = r /\ Active(c)
  BY <1>3 DEF Waits
<1> QED BY <1>3, <1>4, ProcsFacts DEF Waits

\* A step of main leaves p waiting, or at work elsewhere, or ends it; out of run
\* it comes only when its script and who holds the script's output have ended.
LEMMA MainStep ==
    ASSUME IInv, NEW p \in Procs, Step(p)
    PROVE  /\ pc[p] \in Running
           /\ \E label \in {"prepare", "run", "setname", "setnumber", "spawn", "gone", "crashed"} :
                  /\ pc' = [pc EXCEPT ![p] = label]
                  /\ label = "run" <=> Launch(p)
                  /\ label = "setnumber" <=> SetName(p)
                  /\ label = "spawn" => SetNumber(p) \/ OpenedByMe(p)
           /\ pc[p] = "run" => Drained(p)
           /\ UNCHANGED <<parent, inv, calm>>
           /\ \A r \in Procs : Session(r)' = Session(r)
           /\ \A r \in Procs : r # p => script'[r] = script[r] /\ build'[r] = build[r]
                                        /\ status'[r] = status[r]
           /\ ~Launch(p) => script' = script
           /\ pc[p] # "prepare" => build' = build
           /\ Launch(p) => pc[p] = "prepare" /\ status' = status
           /\ status'[p] = "ok" =>
                  \/ SpawnMaintenance(p) /\ pc[p] = "spawn" /\ pc'[p] = "gone"
                  \/ status[p] = "ok"
           /\ \/ last' = last /\ ~SetName(p) /\ ~SetNumber(p)
              \/ pc[p] = "setname" /\ SetName(p)
                 /\ last' = [last EXCEPT ![Session(p)].job = inv[p].job]
              \/ pc[p] = "setnumber" /\ SetNumber(p)
                 /\ last' = [last EXCEPT ![Session(p)].build = build[p]]
<1>1. TypeOK
  BY DEF IInv, Typed
<1>2. CASE Launch(p)
  <2> DEFINE n == Cardinality(BuildsOf(inv[p].job))
             c == [session     |-> ctx[p].session,
                   job         |-> inv[p].job,
                   build       |-> n,
                   parentJob   |-> IF env[p].job # None THEN env[p].job ELSE ctx[p].parentJob,
                   parentBuild |-> IF env[p].build # None THEN env[p].build
                                                          ELSE ctx[p].parentBuild]
  <2>1. ctx' = [ctx EXCEPT ![p] = c] /\ c.session = ctx[p].session
    BY <1>1, <1>2 DEF Launch, TypeOK
  <2> HIDE DEF n, c
  <2>2. \A r \in Procs : Session(r)' = Session(r)
    BY <1>1, <2>1 DEF Session, TypeOK
  <2>3. pc' = [pc EXCEPT ![p] = "run"] /\ pc[p] = "prepare" /\ script' = [script EXCEPT ![p] = "running"]
        /\ UNCHANGED <<parent, inv, calm, status, last>>
        /\ \E m : build' = [build EXCEPT ![p] = m]
    BY <1>2 DEF Launch, Goto, storeVars
  <2>4. ~SetName(p) /\ ~SetNumber(p)
    BY <2>3 DEF SetName, SetNumber
  <2> QED BY <1>1, <1>2, <2>2, <2>3, <2>4 DEF TypeOK, Running
<1>3. CASE ParamActions(p)
  <2>1. pc' = [pc EXCEPT ![p] = "prepare"] /\ pc[p] = "load"
        /\ UNCHANGED <<parent, inv, calm, ctx, script, build, status, last>>
    BY <1>3 DEF ParamActions, TypeParams, UseGiven, UseSession, SessionUnreadable, NoParams,
                WithParams, Goto, storeVars
  <2>2. ~Launch(p) /\ ~SetName(p) /\ ~SetNumber(p)
    BY <2>1 DEF Launch, SetName, SetNumber
  <2> QED BY <2>1, <2>2 DEF Running, Session
<1>4. CASE LeaveActions(p)
  <2>1. PICK how \in {"ok", "fail"} :
            /\ pc' = [pc EXCEPT ![p] = "gone"]
            /\ status' = [status EXCEPT ![p] = how]
            /\ how = "ok" => SpawnMaintenance(p) /\ pc[p] = "spawn"
    BY <1>4 DEF LeaveActions, LoadRefused, TypedInvalid, LaunchRefused, RunRefused, SetRefused,
         SpawnMaintenance, Leave, Goto
  <2>2. pc[p] \in Running /\ (pc[p] = "run" => Drained(p))
        /\ UNCHANGED <<parent, inv, calm, ctx, script, last>>
    BY <1>4 DEF LeaveActions, LoadRefused, TypedInvalid, LaunchRefused, RunRefused, SetRefused,
         SpawnMaintenance, Running
  <2>3. ((\E n : build' = [build EXCEPT ![p] = n]) /\ pc[p] = "prepare") \/ build' = build
    BY <1>4 DEF LeaveActions, LoadRefused, TypedInvalid, LaunchRefused, RunRefused, SetRefused,
         SpawnMaintenance
  <2>4. ~Launch(p) /\ ~SetName(p) /\ ~SetNumber(p)
    BY <1>1, <2>1 DEF Launch, SetName, SetNumber, Goto, TypeOK
  <2>5. pc'[p] = "gone" /\ status'[p] = how
    BY <1>1, <2>1 DEF TypeOK
  <2>6. \A r \in Procs : r # p => build'[r] = build[r] /\ status'[r] = status[r]
    BY <1>1, <2>1, <2>3 DEF TypeOK
  <2> QED BY <2>1, <2>2, <2>3, <2>4, <2>5, <2>6 DEF Session
<1>5. CASE RunReturns(p) \/ SetName(p) \/ SetNumber(p) \/ Throws(p)
  <2>1. UNCHANGED <<parent, inv, calm, ctx, script, build>>
    BY <1>5 DEF RunReturns, SetName, SetNumber, Throws
  <2>2. CASE RunReturns(p)
    <3>1. pc[p] = "run" /\ Drained(p) /\ UNCHANGED <<last, status>>
          /\ \/ pc' = [pc EXCEPT ![p] = "spawn"] /\ OpenedByMe(p)
             \/ pc' = [pc EXCEPT ![p] = "setname"]
      BY <2>2 DEF RunReturns, Goto, storeVars
    <3>2. ~Launch(p) /\ ~SetName(p) /\ ~SetNumber(p)
      BY <3>1 DEF Launch, SetName, SetNumber
    <3> QED BY <2>1, <3>1, <3>2 DEF Session, Running
  <2>3. CASE SetName(p)
    <3>1. pc[p] = "setname" /\ pc' = [pc EXCEPT ![p] = "setnumber"] /\ status' = status
          /\ last' = [last EXCEPT ![Session(p)].job = inv[p].job]
      BY <2>3 DEF SetName, Goto
    <3>2. ~Launch(p)
      BY <3>1 DEF Launch
    <3> QED BY <2>1, <2>3, <3>1, <3>2 DEF Session, Running
  <2>4. CASE SetNumber(p)
    <3>1. pc[p] = "setnumber" /\ pc' = [pc EXCEPT ![p] = "spawn"] /\ status' = status
          /\ last' = [last EXCEPT ![Session(p)].build = build[p]]
      BY <2>4 DEF SetNumber, Goto
    <3>2. ~Launch(p) /\ ~SetName(p)
      BY <3>1 DEF Launch, SetName
    <3> QED BY <2>1, <2>4, <3>1, <3>2 DEF Session, Running
  <2>5. CASE Throws(p)
    <3>1. pc[p] \in {"load", "prepare", "spawn"} /\ pc' = [pc EXCEPT ![p] = "crashed"] /\ last' = last
          /\ status' = [status EXCEPT ![p] = "fail"]
      BY <2>5 DEF Throws, Goto, storeVars
    <3>2. ~Launch(p) /\ ~SetName(p) /\ ~SetNumber(p)
      BY <1>1, <3>1 DEF Launch, SetName, SetNumber, Goto, TypeOK
    <3>3. status'[p] = "fail"  /\ \A r \in Procs : r # p => status'[r] = status[r]
      BY <1>1, <3>1 DEF TypeOK
    <3> QED BY <2>1, <3>1, <3>2, <3>3 DEF Session, Running
  <2> QED BY <1>5, <2>2, <2>3, <2>4, <2>5
<1> QED BY <1>2, <1>3, <1>4, <1>5 DEF Step, ParamActions, LeaveActions

\* A startjob that starts is the youngest, its script has not begun, and its session is
\* its own or that of the script that starts it.
LEMMA StartStep ==
    ASSUME IInv, Ordered, NEW p \in Procs, NEW q \in Procs \cup {Operator}, Start(p, q)
    PROVE  /\ pc[p] = "unborn" /\ pc' = [pc EXCEPT ![p] = "load"]
           /\ script[p] = "none"
           /\ parent' = [parent EXCEPT ![p] = q]
           /\ \A r \in Procs : /\ r < p => pc[r] # "unborn"
                               /\ pc[r] # "unborn" => r < p
                               /\ parent[r] # p
                               /\ r # p => Session(r)' = Session(r) /\ inv'[r] = inv[r]
           /\ q # Operator => script[q] = "running" /\ pc[q] # "unborn" /\ q < p
           /\ \/ Session(p)' = p
              \/ q # Operator /\ Session(p)' = Session(q)
           /\ calm' => calm /\ (q # Operator => inv'[p].held
                                    /\ \A r \in Procs : parent[r] = q => ~Active(r))
           /\ UNCHANGED <<build, script, status, last>>
<1>1. TypeOK /\ Placed
  BY DEF IInv, Typed
<1>2. /\ pc[p] = "unborn" /\ pc' = [pc EXCEPT ![p] = "load"]
      /\ parent' = [parent EXCEPT ![p] = q]
      /\ UNCHANGED <<build, script, status, last>>
  BY DEF Start, Goto
<1>3. script[p] = "none"
  BY <1>1, <1>2 DEF Placed
<1>4. \A r \in Procs : parent[r] # p
  BY <1>1, <1>3, NoChildYet
<1>5. \A r \in Procs : r < p => pc[r] # "unborn"
  BY ProcsFacts DEF Start, Procs
<1>6. \A r \in Procs : pc[r] # "unborn" => r < p
  <2> SUFFICES ASSUME NEW r \in Procs, pc[r] # "unborn", ~(r < p) PROVE FALSE
    OBVIOUS
  <2>1. p < r
    BY <1>2, ProcsFacts
  <2> QED BY <1>2, <2>1 DEF Ordered
<1>7. q # Operator => script[q] = "running" /\ pc[q] # "unborn" /\ q < p
  <2> SUFFICES ASSUME q # Operator PROVE script[q] = "running" /\ pc[q] # "unborn" /\ q < p
    OBVIOUS
  <2>1. script[q] = "running"
    BY DEF Start
  <2> QED BY <1>1, <1>6, <2>1 DEF Placed
<1> DEFINE e == IF q = Operator THEN NoEnvironment ELSE ctx[q]
<1>8. PICK i \in Invocations :
          /\ inv' = [inv EXCEPT ![p] = i]
          /\ InvokeSession(p, e, i.new)
          /\ calm' = (calm /\ (q # Operator => i.held
                               /\ \A r \in Procs : parent[r] = q => Over(r)))
  BY DEF Start
<1>9. e \in Environment /\ (q = Operator => e.session = None) /\ (q # Operator => e = ctx[q])
  BY <1>1 DEF TypeOK, NoEnvironment, Environment
<1> HIDE DEF e
<1>10. /\ inv'[p] = i /\ \A r \in Procs : r # p => inv'[r] = inv[r]
  BY <1>1, <1>8 DEF TypeOK
<1>11. /\ \A r \in Procs : r # p => Session(r)' = Session(r)
       /\ \/ Session(p)' = p
          \/ q # Operator /\ Session(p)' = Session(q)
  <2>1. PICK s : /\ ctx' = [ctx EXCEPT ![p] = [e EXCEPT !.session = s]]
                 /\ s = p \/ (e.session # None /\ s = e.session)
    <3>1. CASE ~i.new /\ e.session # None
      <4>1. ctx' = [ctx EXCEPT ![p] = [e EXCEPT !.session = e.session]]
        BY <1>8, <3>1 DEF InvokeSession
      <4> QED BY <3>1, <4>1
    <3>2. CASE ~(~i.new /\ e.session # None)
      <4>1. ctx' = [ctx EXCEPT ![p] = [e EXCEPT !.session = p]]
        BY <1>8, <3>2 DEF InvokeSession
      <4> QED BY <4>1
    <3> QED BY <3>1, <3>2
  <2>2. ctx'[p].session = s /\ \A r \in Procs : r # p => ctx'[r] = ctx[r]
    BY <1>1, <1>9, <2>1 DEF TypeOK, Environment
  <2> QED BY <1>9, <2>1, <2>2 DEF Session
<1>12. calm' => calm /\ (q # Operator => i.held
                             /\ \A r \in Procs : parent[r] = q => ~Active(r))
  BY <1>8, Zenon DEF Over, Active, Running
<1> QED BY <1>2, <1>3, <1>4, <1>5, <1>6, <1>7, <1>10, <1>11, <1>12

-----------------------------------------------------------------------------
LEMMA OrderedStart ==
    ASSUME IInv, Ordered, NEW p \in Procs, NEW q \in Procs \cup {Operator}, Start(p, q)
    PROVE  Ordered'
<1>1. TypeOK
  BY DEF IInv, Typed
<1>2. /\ pc[p] = "unborn" /\ pc' = [pc EXCEPT ![p] = "load"]
      /\ parent' = [parent EXCEPT ![p] = q] /\ status' = status
      /\ \A r \in Procs : /\ r < p => pc[r] # "unborn"
                          /\ r # p => Session(r)' = Session(r)
      /\ q # Operator => pc[q] # "unborn" /\ q < p
      /\ \/ Session(p)' = p
         \/ q # Operator /\ Session(p)' = Session(q)
  BY StartStep
<1>3. \A r \in Procs : /\ pc'[r] = IF r = p THEN "load" ELSE pc[r]
                       /\ parent'[r] = IF r = p THEN q ELSE parent[r]
  BY <1>1, <1>2 DEF TypeOK
<1>4. \A x, y \in Procs : pc'[x] # "unborn" /\ y < x => pc'[y] # "unborn"
  BY <1>2, <1>3 DEF Ordered
<1>5. ASSUME NEW r \in Procs
      PROVE  /\ pc'[r] # "unborn" => Session(r)' <= r
             /\ parent'[r] # Operator => pc'[r] # "unborn" /\ parent'[r] < r
             /\ pc'[r] = "unborn" => status'[r] = "none"
             /\ status'[r] = "ok" => pc'[r] = "gone"
  <2>1. CASE r = p
    <3>1. Session(p)' <= p
      <4>1. CASE Session(p)' = p
        BY <4>1, ProcsFacts
      <4>2. CASE q # Operator /\ Session(p)' = Session(q)
        <5>1. Session(q) <= q /\ q < p /\ Session(q) \in Procs
          BY <1>2, <4>2 DEF Ordered, IInv, Placed
        <5> QED BY <4>2, <5>1, ProcsFacts
      <4> QED BY <1>2, <4>1, <4>2
    <3>2. status[p] = "none"
      BY <1>2 DEF Ordered
    <3> QED BY <1>2, <1>3, <2>1, <3>1, <3>2
  <2>2. CASE r # p
    BY <1>2, <1>3, <2>2 DEF Ordered
  <2> QED BY <2>1, <2>2
<1> QED BY <1>4, <1>5 DEF Ordered

LEMMA WaitsStart ==
    ASSUME IInv, Ordered, Waits, NEW p \in Procs, NEW q \in Procs \cup {Operator}, Start(p, q),
           calm'
    PROVE  Waits'
<1>1. TypeOK
  BY DEF IInv, Typed
<1>2. /\ pc[p] = "unborn" /\ pc' = [pc EXCEPT ![p] = "load"]
      /\ parent' = [parent EXCEPT ![p] = q] /\ UNCHANGED script /\ script[p] = "none"
      /\ \A r \in Procs : /\ pc[r] # "unborn" => r < p
                          /\ parent[r] # p
                          /\ r # p => Session(r)' = Session(r) /\ inv'[r] = inv[r]
      /\ q # Operator => script[q] = "running" /\ pc[q] # "unborn" /\ q < p
                         /\ inv'[p].held /\ \A r \in Procs : parent[r] = q => ~Active(r)
      /\ \/ Session(p)' = p
         \/ q # Operator /\ Session(p)' = Session(q)
  BY StartStep
<1>3. \A r \in Procs : /\ pc'[r] = IF r = p THEN "load" ELSE pc[r]
                       /\ parent'[r] = IF r = p THEN q ELSE parent[r]
                       /\ Active(r)' <=> r = p \/ Active(r)
                       /\ Active(r) => r < p
  BY <1>1, <1>2 DEF TypeOK, Active, Running
<1>4. p # Operator /\ \A r \in Procs : r \in Nat
  BY ProcsFacts
<1>5. ASSUME NEW r \in Procs
      PROVE  /\ parent'[r] # Operator => inv'[r].held
             /\ script'[r] = "running" => pc'[r] = "run"
             /\ Active(r)' /\ parent'[r] # Operator => pc'[parent'[r]] = "run"
  <2>1. CASE r = p
    <3>1. q # Operator => pc'[q] = "run"
      BY <1>2, <1>3 DEF Waits
    <3> QED BY <1>2, <1>3, <2>1, <3>1
  <2>2. CASE r # p
    <3>1. parent[r] # Operator => parent[r] \in Procs /\ parent[r] # p
      BY <1>1, <1>2 DEF TypeOK
    <3> QED BY <1>2, <1>3, <2>2, <3>1 DEF Waits
  <2> QED BY <2>1, <2>2
<1>6. ASSUME NEW x \in Procs, NEW y \in Procs,
             parent'[x] = parent'[y], parent'[x] # Operator, x < y
      PROVE  ~Active(x)'
  <2>1. x # p
    <3> SUFFICES ASSUME x = p PROVE FALSE OBVIOUS
    <3>1. y # p /\ parent[y] # Operator
      BY <1>3, <1>4, <1>6
    <3>2. y < p
      BY <1>2, <3>1 DEF Ordered
    <3> QED BY <1>4, <1>6, <3>2
  <2>2. CASE y = p
    BY <1>2, <1>3, <1>6, <2>1, <2>2
  <2>3. CASE y # p
    BY <1>3, <1>6, <2>1, <2>3 DEF Waits
  <2> QED BY <2>2, <2>3
<1>7. ASSUME NEW x \in Procs, NEW y \in Procs, Active(x)', Active(y)', y < x,
             Session(x)' = Session(y)'
      PROVE  \E c \in Procs : parent'[c] = y /\ Active(c)' /\ Session(c)' = Session(y)' /\ c <= x
  <2>1. y # p
    BY <1>3, <1>4, <1>7
  <2>2. Active(y) /\ Session(y)' = Session(y) /\ Session(y) <= y /\ Session(y) \in Procs /\ y < p
    BY <1>2, <1>3, <1>7, <2>1 DEF Ordered, Active, Running, IInv, Placed
  <2>3. ASSUME NEW c \in Procs, parent[c] = y, Active(c), Session(c) = Session(y)
        PROVE  parent'[c] = y /\ Active(c)' /\ Session(c)' = Session(y)' /\ c # p
    BY <1>2, <1>3, <1>4, <2>2, <2>3
  <2>4. CASE x # p
    <3>1. PICK c \in Procs : parent[c] = y /\ Active(c) /\ Session(c) = Session(y) /\ c <= x
      BY <1>2, <1>3, <1>7, <2>2, <2>4 DEF Waits
    <3> QED BY <2>3, <3>1
  <2>5. CASE x = p
    <3>1. q # Operator /\ Session(y) = Session(q)
      BY <1>2, <1>4, <1>7, <2>2, <2>5
    <3>2. q \in Procs /\ Active(q) /\ q < p
      BY <1>2, <3>1 DEF Waits, Active, Running
    <3>3. CASE y = q
      <4>1. parent'[p] = y /\ Active(p)' /\ Session(p)' = Session(y)' /\ p <= x
        BY <1>3, <1>4, <1>7, <2>5, <3>3
      <4> QED BY <4>1
    <3>4. CASE y < q
      <4>1. PICK c \in Procs : parent[c] = y /\ Active(c) /\ Session(c) = Session(y) /\ c <= q
        BY <2>2, <3>1, <3>2, <3>4 DEF Waits
      <4>2. c <= x
        BY <1>4, <2>5, <3>2, <4>1
      <4> QED BY <2>3, <4>1, <4>2
    <3>5. CASE q < y
      <4>1. PICK c \in Procs : parent[c] = q /\ Active(c)
        BY <2>2, <3>1, <3>2, <3>5 DEF Waits
      <4> QED BY <1>2, <3>1, <4>1
    <3> QED BY <1>4, <3>2, <3>3, <3>4, <3>5
  <2> QED BY <2>4, <2>5
<1> QED BY <1>5, <1>6, <1>7 DEF Waits

\* Nothing is left yet by a startjob that starts, and while it is at work its
\* script's startjob does not ask.
LEMMA LeftStart ==
    ASSUME IInv, Ordered, NEW p \in Procs, NEW q \in Procs \cup {Operator}, Start(p, q), calm',
           Left, LastJobIsTheScripts
    PROVE  Left' /\ LastJobIsTheScripts'
<1>1. TypeOK
  BY DEF IInv, Typed
<1>2. /\ pc[p] = "unborn" /\ pc' = [pc EXCEPT ![p] = "load"]
      /\ parent' = [parent EXCEPT ![p] = q] /\ UNCHANGED <<build, script, status, last>>
      /\ script[p] = "none"
      /\ \A r \in Procs : /\ pc[r] # "unborn" => r < p
                          /\ parent[r] # p
                          /\ r # p => Session(r)' = Session(r) /\ inv'[r] = inv[r]
      /\ calm
  BY StartStep
<1>3. \A r \in Procs : /\ pc'[r] = IF r = p THEN "load" ELSE pc[r]
                       /\ parent'[r] = IF r = p THEN q ELSE parent[r]
  BY <1>1, <1>2 DEF TypeOK
<1>4. p # Operator /\ \A r \in Procs : r \in Nat
  BY ProcsFacts
<1>5. Left'
  <2> SUFFICES ASSUME NEW r \in Procs, pc'[r] \in {"setnumber", "spawn"}
               PROVE  /\ pc'[r] = "setnumber" => last'[Session(r)'].job = inv'[r].job
                      /\ pc'[r] = "spawn" /\ Session(r)' # r =>
                             last'[Session(r)'] = [job |-> inv'[r].job, build |-> build'[r]]
    BY DEF Left, OpenedByMe
  <2>1. r # p /\ pc'[r] = pc[r] /\ Session(r)' = Session(r) /\ inv'[r] = inv[r]
    BY <1>2, <1>3
  <2> QED BY <1>2, <2>1 DEF Left, OpenedByMe
<1>6. LastJobIsTheScripts'
  <2> SUFFICES ASSUME NEW P \in Procs, script'[P] = "running",
                      NEW c \in Procs, parent'[c] = P, Session(c)' = Session(P)',
                      status'[c] = "ok",
                      \A r \in Procs : parent'[r] = P /\ Session(r)' = Session(P)' => r <= c
               PROVE  last'[Session(P)'] = [job |-> inv'[c].job, build |-> build'[c]]
    BY DEF LastJobIsTheScripts
  <2>1. P # p /\ c # p
    BY <1>2 DEF Ordered
  <2>2. parent[c] = P /\ Session(c) = Session(P) /\ inv'[c] = inv[c] /\ Session(P)' = Session(P)
    BY <1>2, <1>3, <2>1
  <2>3. \A r \in Procs : parent[r] = P /\ Session(r) = Session(P) => r <= c
    <3> SUFFICES ASSUME NEW r \in Procs, parent[r] = P, Session(r) = Session(P) PROVE r <= c
      OBVIOUS
    <3>1. r # p
      <4>1. CASE r = p
        BY <1>2, ProcsFacts, <4>1 DEF Ordered
      <4> QED BY <4>1
    <3> QED BY <1>2, <1>3, <2>1, <2>2, <3>1
  <2> QED BY <1>2, <2>2, <2>3 DEF LastJobIsTheScripts
<1> QED BY <1>5, <1>6

-----------------------------------------------------------------------------
LEMMA OrderedMain ==
    ASSUME IInv, Ordered, NEW p \in Procs, Step(p) PROVE Ordered'
<1>1. TypeOK
  BY DEF IInv, Typed
<1>2. PICK label \in {"prepare", "run", "setname", "setnumber", "spawn", "gone", "crashed"} :
          pc' = [pc EXCEPT ![p] = label]
  BY MainStep
<1>3. /\ pc[p] \in Running /\ parent' = parent
      /\ \A r \in Procs : Session(r)' = Session(r) /\ (r # p => status'[r] = status[r])
      /\ status'[p] = "ok" => pc'[p] = "gone" \/ status[p] = "ok"
  BY MainStep
<1>4. \A r \in Procs : /\ pc'[r] = IF r = p THEN label ELSE pc[r]
                       /\ pc'[r] # "unborn" <=> pc[r] # "unborn"
  BY <1>1, <1>2, <1>3 DEF TypeOK, Running
<1>5. status[p] # "ok"
  BY <1>3 DEF Ordered, Running
<1> QED BY <1>3, <1>4, <1>5 DEF Ordered

LEMMA WaitsMain ==
    ASSUME IInv, Waits, NEW p \in Procs, Step(p) PROVE Waits'
<1>1. TypeOK
  BY DEF IInv, Typed
<1>2. PICK label \in {"prepare", "run", "setname", "setnumber", "spawn", "gone", "crashed"} :
          pc' = [pc EXCEPT ![p] = label] /\ (label = "run" <=> Launch(p))
  BY MainStep
<1>3. /\ pc[p] \in Running /\ UNCHANGED <<parent, inv>>
      /\ pc[p] = "run" => Drained(p)
      /\ \A r \in Procs : Session(r)' = Session(r) /\ (r # p => script'[r] = script[r])
      /\ ~Launch(p) => script' = script
      /\ Launch(p) => pc[p] = "prepare"
  BY MainStep
<1>4. \A r \in Procs : /\ pc'[r] = IF r = p THEN label ELSE pc[r]
                       /\ Active(r)' => Active(r)
                       /\ r # p => (Active(r)' <=> Active(r))
  BY <1>1, <1>2, <1>3 DEF TypeOK, Active
<1>5. ASSUME NEW c \in Procs, parent[c] = p PROVE ~Active(c)
  <2> SUFFICES ASSUME Active(c) PROVE FALSE OBVIOUS
  <2>1. p # Operator
    BY ProcsFacts
  <2>2. pc[p] = "run" /\ inv[c].held
    BY <1>5, <2>1 DEF Waits
  <2>3. Over(c)
    BY <1>3, <1>5, <2>2 DEF Drained
  <2> QED BY <2>3 DEF Over, Active, Running
<1>6. ASSUME NEW r \in Procs
      PROVE  /\ parent'[r] # Operator => inv'[r].held
             /\ script'[r] = "running" => pc'[r] = "run"
             /\ Active(r)' /\ parent'[r] # Operator => pc'[parent'[r]] = "run"
  <2>1. script'[r] = "running" => pc'[r] = "run"
    <3>1. CASE r = p /\ ~Launch(p)
      BY <1>3, <3>1 DEF Waits, Drained
    <3>2. CASE r = p /\ Launch(p)
      BY <1>2, <1>4, <3>2
    <3>3. CASE r # p
      BY <1>3, <1>4, <3>3 DEF Waits
    <3> QED BY <3>1, <3>2, <3>3
  <2>2. Active(r)' /\ parent'[r] # Operator => pc'[parent'[r]] = "run"
    <3> SUFFICES ASSUME Active(r)', parent[r] # Operator PROVE pc'[parent[r]] = "run"
      BY <1>3
    <3>1. parent[r] \in Procs /\ parent[r] # p
      BY <1>1, <1>4, <1>5 DEF TypeOK
    <3> QED BY <1>4, <3>1 DEF Waits
  <2> QED BY <1>3, <2>1, <2>2 DEF Waits
<1>7. \A x, y \in Procs :
          parent'[x] = parent'[y] /\ parent'[x] # Operator /\ x < y => ~Active(x)'
  BY <1>3, <1>4 DEF Waits
<1>8. ASSUME NEW x \in Procs, NEW y \in Procs, Active(x)', Active(y)', y < x,
             Session(x)' = Session(y)'
      PROVE  \E c \in Procs : parent'[c] = y /\ Active(c)' /\ Session(c)' = Session(y)' /\ c <= x
  <2>1. PICK c \in Procs : parent[c] = y /\ Active(c) /\ Session(c) = Session(y) /\ c <= x
    BY <1>3, <1>4, <1>8 DEF Waits
  <2>2. Active(c)'
    <3> SUFFICES ASSUME ~Active(c)' PROVE FALSE OBVIOUS
    <3>1. c = p /\ c # x /\ c < x
      BY <1>4, <1>8, <2>1, ProcsFacts
    <3>2. \E d \in Procs : parent[d] = p /\ Active(d)
      BY <1>3, <1>4, <1>8, <2>1, <3>1 DEF Waits
    <3> QED BY <1>5, <3>2
  <2> QED BY <1>3, <2>1, <2>2
<1> QED BY <1>6, <1>7, <1>8 DEF Waits

\* Nobody else of its session writes what p has left.
LEMMA LeftMain ==
    ASSUME IInv, Waits, Left, NEW p \in Procs, Step(p) PROVE Left'
<1>1. TypeOK
  BY DEF IInv, Typed
<1>2. PICK label \in {"prepare", "run", "setname", "setnumber", "spawn", "gone", "crashed"} :
          /\ pc' = [pc EXCEPT ![p] = label]
          /\ label = "setnumber" <=> SetName(p)
          /\ label = "spawn" => SetNumber(p) \/ OpenedByMe(p)
  BY MainStep
<1>3. /\ pc[p] \in Running /\ UNCHANGED <<parent, inv>>
      /\ \A r \in Procs : Session(r)' = Session(r) /\ (r # p => build'[r] = build[r])
      /\ pc[p] # "prepare" => build' = build
      /\ \/ last' = last /\ ~SetName(p) /\ ~SetNumber(p)
         \/ pc[p] = "setname" /\ SetName(p)
            /\ last' = [last EXCEPT ![Session(p)].job = inv[p].job]
         \/ pc[p] = "setnumber" /\ SetNumber(p)
            /\ last' = [last EXCEPT ![Session(p)].build = build[p]]
  BY MainStep
<1>4. \A r \in Procs : pc'[r] = IF r = p THEN label ELSE pc[r]
  BY <1>1, <1>2 DEF TypeOK
<1>5. \A r \in Procs : pc[r] # "unborn" => Session(r) \in Procs
  BY DEF IInv, Placed
<1> SUFFICES ASSUME NEW r \in Procs, pc'[r] \in {"setnumber", "spawn"}
             PROVE  /\ pc'[r] = "setnumber" => last'[Session(r)].job = inv[r].job
                    /\ pc'[r] = "spawn" /\ Session(r) # r =>
                           last'[Session(r)] = [job |-> inv[r].job, build |-> build'[r]]
  BY <1>3 DEF Left, OpenedByMe
<1>6. CASE r # p
  <2>1. pc'[r] = pc[r] /\ build'[r] = build[r] /\ Active(r) /\ Active(p) /\ Session(r) \in Procs
    BY <1>3, <1>4, <1>5, <1>6 DEF Active, Running
  <2>2. last'[Session(r)] = last[Session(r)]
    <3>1. CASE last' = last
      BY <3>1
    <3>2. CASE last' # last
      <4>1. pc[p] # "run" /\ pc[p] # "unborn"
        BY <1>3, <3>2
      <4>2. Session(r) # Session(p)
        BY <1>4, <1>6, <2>1, <4>1, OthersWait
      <4>3. Session(p) \in Procs
        BY <1>5, <4>1
      <4> QED BY <1>1, <1>3, <2>1, <4>2, <4>3 DEF TypeOK
    <3> QED BY <3>1, <3>2
  <2> QED BY <2>1, <2>2 DEF Left, OpenedByMe
<1>7. CASE r = p
  <2>1. Session(p) \in Procs
    BY <1>3, <1>5 DEF Running
  <2> DEFINE s == Session(p)
  <2>2. /\ last[s] \in [job : Jobs \cup {None}, build : Nat \cup {None}]
        /\ last \in [Procs -> [job : Jobs \cup {None}, build : Nat \cup {None}]]
    BY <1>1, <2>1 DEF TypeOK
  <2>3. CASE label = "setnumber"
    <3>1. last' = [last EXCEPT ![s].job = inv[p].job]
      BY <1>2, <1>3, <2>3 DEF SetName, SetNumber
    <3> HIDE DEF s
    <3>2. last'[s].job = inv[p].job
      BY <2>1, <2>2, <3>1 DEF s
    <3> QED BY <1>4, <1>7, <2>3, <3>2 DEF s
  <2>4. CASE label = "spawn" /\ s # p
    <3>1. pc[p] = "setnumber" /\ last' = [last EXCEPT ![s].build = build[p]]
          /\ build' = build
      BY <1>2, <1>3, <2>4 DEF SetName, SetNumber, OpenedByMe
    <3>2. last[s].job = inv[p].job
      BY <3>1 DEF Left
    <3> HIDE DEF s
    <3>3. last'[s] = [job |-> inv[p].job, build |-> build[p]]
      BY <2>1, <2>2, <3>1, <3>2 DEF s
    <3> QED BY <1>4, <1>7, <2>4, <3>1, <3>3 DEF s
  <2> QED BY <1>4, <1>7, <2>3, <2>4
<1> QED BY <1>6, <1>7

\* What a script finds changes only when the job that it started last, and waits
\* for, leaves something; and then this job has not ended.
LEMMA LastMain ==
    ASSUME IInv, Ordered, Waits, Left, calm, LastJobIsTheScripts, NEW p \in Procs, Step(p)
    PROVE  LastJobIsTheScripts'
<1>1. TypeOK
  BY DEF IInv, Typed
<1>2. /\ pc[p] \in Running /\ UNCHANGED <<parent, inv>>
      /\ pc[p] = "run" => Drained(p)
      /\ \A r \in Procs : Session(r)' = Session(r)
      /\ \A r \in Procs : r # p => script'[r] = script[r] /\ build'[r] = build[r]
                                   /\ status'[r] = status[r]
      /\ ~Launch(p) => script' = script
      /\ Launch(p) => pc[p] = "prepare"
      /\ status'[p] = "ok" => (pc[p] = "spawn" /\ SpawnMaintenance(p)) \/ status[p] = "ok"
      /\ pc[p] # "prepare" => build' = build
  BY MainStep
<1>3. \/ last' = last
      \/ pc[p] \in {"setname", "setnumber"} /\ \A s \in Procs : s # Session(p) => last'[s] = last[s]
  <2>1. Session(p) \in Procs
    BY <1>2 DEF IInv, Placed, Running
  <2>2. \/ last' = last
        \/ pc[p] = "setname" /\ last' = [last EXCEPT ![Session(p)].job = inv[p].job]
        \/ pc[p] = "setnumber" /\ last' = [last EXCEPT ![Session(p)].build = build[p]]
    BY MainStep
  <2> QED BY <1>1, <2>1, <2>2 DEF TypeOK
<1> SUFFICES ASSUME NEW P \in Procs, script'[P] = "running",
                    NEW c \in Procs, parent[c] = P, Session(c) = Session(P),
                    status'[c] = "ok",
                    \A r \in Procs : parent[r] = P /\ Session(r) = Session(P) => r <= c
             PROVE  last'[Session(P)] = [job |-> inv[c].job, build |-> build'[c]]
  BY <1>2 DEF LastJobIsTheScripts
<1>4. P # Operator /\ c \in Nat /\ P \in Nat /\ p \in Nat
  BY ProcsFacts
<1>5. P # p
  <2> SUFFICES ASSUME P = p PROVE FALSE OBVIOUS
  <2>1. CASE Launch(p)
    <3>1. script[p] = "none"
      BY <1>2, <2>1 DEF IInv, Placed
    <3> QED BY <3>1, NoChildYet DEF IInv
  <2>2. CASE ~Launch(p)
    <3>1. script[p] = "running"
      BY <1>2, <2>2
    <3> QED BY <1>2, <3>1 DEF Waits, Drained
  <2> QED BY <2>1, <2>2
<1>6. script[P] = "running" /\ pc[P] = "run" /\ Active(P) /\ Active(p)
  BY <1>2, <1>5 DEF Waits, Active, Running
<1>7. Session(P) \in Procs /\ Session(P) <= P /\ P < c /\ pc[c] # "unborn"
  BY <1>4, <1>6 DEF IInv, Placed, Ordered
<1>8. last'[Session(P)] = last[Session(P)]
  <2> SUFFICES ASSUME last' # last, Session(p) = Session(P) PROVE FALSE
    BY <1>3, <1>7
  <2>1. P < p
    BY <1>2, <1>3, <1>5, <1>6, OthersWait
  <2>2. PICK d \in Procs : parent[d] = P /\ Active(d) /\ Session(d) = Session(P)
    BY <1>6, <2>1 DEF Waits
  <2>3. d <= c /\ d \in Nat
    BY <2>2, ProcsFacts
  <2>4. d = c
    BY <1>4, <2>2, <2>3 DEF Waits
  <2>5. c # p /\ status[c] # "ok"
    <3>1. status[c] # "ok" BY <2>2, <2>4 DEF Ordered, Active, Running
    <3>2. pc[p] # "spawn" BY <1>3
    <3> QED BY <1>2, <3>1, <3>2
  <2> QED BY <1>2, <2>5
<1>9. CASE status[c] = "ok"
  <2>1. build'[c] = build[c]
    <3>1. pc[c] = "gone" BY <1>9 DEF Ordered
    <3>2. c # p BY <1>2, <3>1 DEF Running
    <3> QED BY <1>2, <3>2
  <2>2. last[Session(P)] = [job |-> inv[c].job, build |-> build[c]]
    BY <1>6, <1>9 DEF LastJobIsTheScripts
  <2> QED BY <1>8, <2>1, <2>2
<1>10. CASE status[c] # "ok"
  <2>1. c = p /\ pc[p] = "spawn" /\ build' = build
    BY <1>2, <1>10
  <2>2. ~OpenedByMe(p)
    BY <1>4, <1>7, <2>1 DEF OpenedByMe
  <2>3. last[Session(p)] = [job |-> inv[p].job, build |-> build[p]]
    BY <2>1, <2>2 DEF Left
  <2> QED BY <1>8, <2>1, <2>3
<1> QED BY <1>9, <1>10

-----------------------------------------------------------------------------
LEMMA InTurnInit == Init => InTurn
<1> SUFFICES ASSUME Init PROVE InTurn
  OBVIOUS
<1>1. Ordered
  BY DEF Init, Ordered
<1>2. Waits
  BY DEF Init, Waits, Active, Running
<1>3. Left
  BY DEF Init, Left
<1>4. LastJobIsTheScripts
  BY DEF Init, LastJobIsTheScripts
<1> QED BY <1>1, <1>2, <1>3, <1>4 DEF InTurn

LEMMA InTurnStep == IInv /\ InTurn /\ [Next]_vars => InTurn'
<1> SUFFICES ASSUME IInv, InTurn, [Next]_vars PROVE InTurn'
  OBVIOUS
<1>1. TypeOK
  BY DEF IInv, Typed
<1>2. ASSUME NEW p \in Procs, NEW q \in Procs \cup {Operator}, Start(p, q) PROVE InTurn'
  <2>1. calm' => calm
    BY <1>2, StartStep DEF InTurn
  <2>2. Ordered'
    BY <1>2, OrderedStart DEF InTurn
  <2>3. CASE calm'
    BY <1>2, <2>1, <2>2, <2>3, WaitsStart, LeftStart DEF InTurn
  <2>4. CASE ~calm'
    BY <2>2, <2>4 DEF InTurn, LastJobIsTheScripts
  <2> QED BY <2>3, <2>4
<1>3. ASSUME NEW p \in Procs, Step(p) PROVE InTurn'
  <2>1. calm' = calm
    BY <1>3, MainStep
  <2>2. Ordered'
    BY <1>3, OrderedMain DEF InTurn
  <2>3. CASE calm
    BY <1>3, <2>1, <2>2, <2>3, WaitsMain, LeftMain, LastMain DEF InTurn
  <2>4. CASE ~calm
    BY <2>1, <2>2, <2>4 DEF InTurn, LastJobIsTheScripts
  <2> QED BY <2>3, <2>4
<1>4. ASSUME NEW p \in Procs, Kill(p) PROVE InTurn'
  <2>1. ~calm' /\ pc' = [pc EXCEPT ![p] = "killed"] /\ pc[p] \in Running
        /\ status' = [status EXCEPT ![p] = "fail"] /\ UNCHANGED <<parent, ctx>>
    BY <1>4 DEF Kill, Goto
  <2>2. \A r \in Procs : /\ pc'[r] # "unborn" <=> pc[r] # "unborn"
                         /\ status'[r] = "ok" => status[r] = "ok" /\ r # p
                         /\ pc'[r] = "unborn" => status'[r] = status[r]
                         /\ r # p => pc'[r] = pc[r]
    BY <1>1, <2>1 DEF TypeOK, Running
  <2>3. Ordered'
    BY <2>1, <2>2 DEF InTurn, Ordered, Session
  <2> QED BY <2>1, <2>3 DEF InTurn, LastJobIsTheScripts
<1>5. ASSUME NEW p \in Procs, ScriptEnds(p) \/ \E k \in Params : SetParam(p, k) PROVE InTurn'
  <2>1. /\ UNCHANGED <<pc, parent, inv, ctx, build, status, last, calm>>
        /\ script' = script \/ script' = [script EXCEPT ![p] = "ended"]
    BY <1>5 DEF ScriptEnds, SetParam, procVars, storeVars
  <2>2. \A r \in Procs : script'[r] = "running" => script[r] = "running"
    BY <1>1, <2>1 DEF TypeOK
  <2>3. Ordered' /\ (calm' => Left')
    BY <2>1 DEF InTurn, Ordered, Left, Session, OpenedByMe
  <2>4. calm' => Waits'
    BY <2>1, <2>2 DEF InTurn, Waits, Active, Session
  <2>5. LastJobIsTheScripts'
    BY <2>1, <2>2 DEF InTurn, LastJobIsTheScripts, Session
  <2> QED BY <2>3, <2>4, <2>5 DEF InTurn
<1>6. CASE AllEnded \/ UNCHANGED vars
  <2>1. UNCHANGED vars BY <1>6 DEF AllEnded
  <2> QED BY <2>1 DEF InTurn, Ordered, Waits, Left, LastJobIsTheScripts, Active, Session, OpenedByMe,
                      vars, procVars, storeVars
<1> QED BY <1>2, <1>3, <1>4, <1>5, <1>6 DEF Next

LEMMA InTurnAlways == Spec => [](IInv /\ InTurn)
<1>1. Init => IInv /\ InTurn
  BY IInvInit, InTurnInit
<1>2. IInv /\ InTurn /\ [Next]_vars => (IInv /\ InTurn)'
  BY IInvStep, InTurnStep
<1> QED BY <1>1, <1>2, PTL DEF Spec

\* A script that starts its jobs one after the other finds in its session the
\* name and the number of the job it started last, if that succeeded, whatever
\* that job started in turn (main's two set_value).
THEOREM LastJobFound == Spec => []LastJobIsTheScripts
<1>1. IInv /\ InTurn => LastJobIsTheScripts
  BY DEF InTurn
<1> QED BY <1>1, InTurnAlways, PTL

-----------------------------------------------------------------------------
(* The end of a session.                                                   *)

\* With a startjob, the one whose script started it.
Closed(S) == \A r \in S : parent[r] # Operator => parent[r] \in S

\* Who waits for whom whatever fails: who still has its starter's output is waited for.
Held ==
    \A p \in Procs :
        /\ script[p] = "running" => pc[p] \in {"run", "killed"}
        /\ Active(p) /\ parent[p] # Operator /\ inv[p].held => pc[parent[p]] \in {"run", "killed"}
        /\ cisLog[p] = "closed" => pc[p] = "gone"

\* A session is opened by one of the startjobs above.
OpenedAbove ==
    \A p \in Procs : pc[p] # "unborn" =>
        \A S \in SUBSET Procs : Closed(S) /\ p \in S => Session(p) \in S

CInv == Ordered /\ Held /\ OpenedAbove

-----------------------------------------------------------------------------
(* The line of startjobs above p.                                          *)

LineOf(f) ==
    f = [p \in Procs |-> {p} \cup (IF parent[p] = Operator THEN {} ELSE f[parent[p]])]

LEMMA LineExists ==
    ASSUME TypeOK PROVE LineOf(Line)
<1> DEFINE f == [p \in Procs |-> {x \in Procs : \A S \in SUBSET Procs : Closed(S) /\ p \in S => x \in S}]
<1>1. ASSUME NEW p \in Procs
      PROVE  f[p] = {p} \cup (IF parent[p] = Operator THEN {} ELSE f[parent[p]])
  <2>1. CASE parent[p] = Operator
    <3>1. Closed({p})
      BY <2>1 DEF Closed
    <3> QED BY <2>1, <3>1
  <2>2. CASE parent[p] # Operator
    <3>1. parent[p] \in Procs
      BY <2>2 DEF TypeOK
    <3>2. ASSUME NEW S \in SUBSET Procs, Closed(S), p \in S PROVE parent[p] \in S
      BY <2>2, <3>2 DEF Closed
    <3>3. f[parent[p]] \subseteq f[p]
      BY <3>1, <3>2
    <3>4. f[p] \subseteq {p} \cup f[parent[p]]
      <4>1. Closed({p} \cup f[parent[p]])
        <5>1. ASSUME NEW r \in f[parent[p]], parent[r] # Operator PROVE parent[r] \in f[parent[p]]
          <6>1. r \in Procs /\ parent[r] \in Procs
            BY <3>1, <5>1 DEF TypeOK
          <6>2. ASSUME NEW S \in SUBSET Procs, Closed(S), parent[p] \in S PROVE parent[r] \in S
            BY <3>1, <5>1, <6>2 DEF Closed
          <6> QED BY <3>1, <6>1, <6>2
        <5>2. parent[p] \in f[parent[p]]
          BY <3>1
        <5> HIDE DEF f
        <5> QED BY <5>1, <5>2 DEF Closed
      <4>2. {p} \cup f[parent[p]] \in SUBSET Procs
        BY <3>1
      <4> QED BY <4>1, <4>2
    <3>5. p \in f[p]
      OBVIOUS
    <3> HIDE DEF f
    <3> QED BY <2>2, <3>3, <3>4, <3>5
  <2> QED BY <2>1, <2>2
<1>2. LineOf(f)
  <2>1. f = [p \in Procs |-> f[p]]
    OBVIOUS
  <2> HIDE DEF f
  <2> QED BY <1>1, <2>1 DEF LineOf
<1> HIDE DEF f
<1>3. \E g : LineOf(g)
  BY <1>2
<1>4. Line = CHOOSE g : LineOf(g)
  BY DEF Line, LineOf
<1> QED BY <1>3, <1>4

\* A line begins with p, is made of startjobs, and is closed.
LEMMA LineClosed ==
    ASSUME TypeOK, Ordered, NEW p \in Procs
    PROVE  p \in Line[p] /\ Line[p] \in SUBSET Procs /\ Closed(Line[p])
<1>1. \A r \in Procs : Line[r] = {r} \cup (IF parent[r] = Operator THEN {} ELSE Line[parent[r]])
  BY LineExists DEF LineOf
<1> DEFINE Good(r) == Line[r] \in SUBSET Procs /\ Closed(Line[r])
           Bad == {r \in Procs : ~Good(r)}
<1>2. Bad = {}
  <2> SUFFICES ASSUME Bad # {} PROVE FALSE
    OBVIOUS
  <2>1. Bad \in SUBSET Nat
    BY ProcsFacts
  <2>2. \A T \in SUBSET Nat : T # {} => \E m \in T : \A k \in T : <<k, m>> \notin OpToRel(<, Nat)
    BY NatLessThanWellFounded, WFMin
  <2>3. \A k, m \in Nat : k < m => <<k, m>> \in OpToRel(<, Nat)
    BY DEF OpToRel
  <2> HIDE DEF Bad
  <2>4. PICK m \in Bad : \A k \in Nat : k < m => k \notin Bad
    BY <2>1, <2>2, <2>3
  <2> USE DEF Bad
  <2>5. m \in Procs /\ ~Good(m) /\ m \in Nat
    BY <2>1, <2>4
  <2>6. CASE parent[m] = Operator
    <3>1. Line[m] = {m}
      BY <1>1, <2>5, <2>6
    <3> QED BY <2>5, <2>6, <3>1 DEF Closed
  <2>7. CASE parent[m] # Operator
    <3>1. parent[m] \in Procs /\ parent[m] < m /\ parent[m] \in Nat
      <4> HIDE DEF Bad, Good
      <4>1. parent[m] \in Procs BY <2>5, <2>7 DEF TypeOK
      <4>2. parent[m] < m BY <2>5, <2>7 DEF Ordered
      <4> QED BY <4>1, <4>2, ProcsFacts
    <3>2. parent[m] \notin Bad
      <4> HIDE DEF Bad
      <4> QED BY <2>4, <2>5, <3>1
    <3>3. Line[parent[m]] \in SUBSET Procs /\ Closed(Line[parent[m]])
      BY <3>1, <3>2
    <3>4. Line[m] = {m} \cup Line[parent[m]] /\ parent[m] \in Line[parent[m]]
      BY <1>1, <2>5, <2>7, <3>1
    <3>5. Line[m] \in SUBSET Procs
      BY <2>5, <3>3, <3>4
    <3>6. Closed(Line[m])
      BY <3>3, <3>4 DEF Closed
    <3> QED BY <2>5, <3>5, <3>6
  <2> QED BY <2>6, <2>7
<1>3. Good(p)
  BY <1>2
<1> QED BY <1>1, <1>3

-----------------------------------------------------------------------------
\* What a step of main does to the ends of sessions: only the startjob that opened one
\* ends it, and is gone then.
LEMMA LogStep ==
    ASSUME TypeOK, NEW p \in Procs, Step(p)
    PROVE  \/ cisLog' = cisLog
           \/ cisLog' = [cisLog EXCEPT ![p] = "closed"] /\ pc' = [pc EXCEPT ![p] = "gone"]
  BY DEF Step, LoadRefused, TypeParams, TypedInvalid, UseGiven, UseSession, SessionUnreadable, NoParams,
         WithParams, Launch, LaunchRefused, RunReturns, RunRefused, SetName, SetNumber, SetRefused,
         SpawnMaintenance, Throws, Leave, Goto, storeVars

LEMMA HeldStart ==
    ASSUME IInv, Ordered, Held, NEW p \in Procs, NEW q \in Procs \cup {Operator}, Start(p, q)
    PROVE  Held'
<1>1. TypeOK
  BY DEF IInv, Typed
<1>2. /\ pc[p] = "unborn" /\ pc' = [pc EXCEPT ![p] = "load"] /\ script[p] = "none"
      /\ parent' = [parent EXCEPT ![p] = q]
      /\ \A r \in Procs : parent[r] # p /\ (r # p => inv'[r] = inv[r])
      /\ q # Operator => script[q] = "running" /\ pc[q] # "unborn"
      /\ script' = script
  BY StartStep
<1>3. cisLog' = cisLog \/ cisLog' = [cisLog EXCEPT ![p] = "opened"]
  BY DEF Start, InvokeSession
<1>4. \A r \in Procs : r # p => pc'[r] = pc[r] /\ parent'[r] = parent[r] /\ cisLog'[r] = cisLog[r]
  BY <1>1, <1>2, <1>3 DEF TypeOK
<1>5. pc'[p] = "load" /\ parent'[p] = q /\ cisLog'[p] # "closed"
  BY <1>1, <1>2, <1>3 DEF TypeOK, Held
<1> SUFFICES ASSUME NEW r \in Procs
             PROVE  /\ script'[r] = "running" => pc'[r] \in {"run", "killed"}
                    /\ Active(r)' /\ parent'[r] # Operator /\ inv'[r].held =>
                           pc'[parent'[r]] \in {"run", "killed"}
                    /\ cisLog'[r] = "closed" => pc'[r] = "gone"
  BY DEF Held
<1>6. CASE r = p
  <2>1. q # Operator => q \in Procs /\ q # p /\ pc[q] \in {"run", "killed"}
    BY <1>2 DEF Held
  <2> QED BY <1>2, <1>4, <1>5, <1>6, <2>1
<1>7. CASE r # p
  <2>1. parent[r] # Operator => parent[r] \in Procs /\ parent[r] # p
    BY <1>1, <1>2 DEF TypeOK
  <2> QED BY <1>2, <1>4, <1>7, <2>1 DEF Held, Active
<1> QED BY <1>6, <1>7

LEMMA HeldMain ==
    ASSUME IInv, Held, NEW p \in Procs, Step(p)
    PROVE  Held'
<1>1. TypeOK
  BY DEF IInv, Typed
<1>2. PICK label \in {"prepare", "run", "setname", "setnumber", "spawn", "gone", "crashed"} :
          /\ pc' = [pc EXCEPT ![p] = label]
          /\ label = "run" <=> Launch(p)
  BY MainStep
<1>3. /\ pc[p] \in Running /\ UNCHANGED <<parent, inv>>
      /\ pc[p] = "run" => Drained(p)
      /\ \A r \in Procs : r # p => script'[r] = script[r]
      /\ ~Launch(p) => script' = script
      /\ Launch(p) => pc[p] = "prepare"
  BY MainStep
<1>4. \A r \in Procs : pc'[r] = IF r = p THEN label ELSE pc[r]
  BY <1>1, <1>2 DEF TypeOK
<1>5. \A r \in Procs : ~(parent[r] = p /\ Active(r) /\ inv[r].held)
  <2> SUFFICES ASSUME NEW r \in Procs, parent[r] = p, Active(r), inv[r].held PROVE FALSE
    OBVIOUS
  <2>1. pc[p] = "run"
    BY <1>3, ProcsFacts DEF Held, Running
  <2>2. Over(r)
    BY <1>3, <2>1 DEF Drained
  <2> QED BY <2>2 DEF Over, Active, Running
<1>6. \A r \in Procs : cisLog'[r] = "closed" => pc'[r] = "gone"
  <2>1. CASE cisLog' = cisLog
    BY <1>3, <1>4, <2>1 DEF Held, Running
  <2>2. CASE cisLog' = [cisLog EXCEPT ![p] = "closed"] /\ pc' = [pc EXCEPT ![p] = "gone"]
    BY <1>1, <2>2 DEF Held, TypeOK
  <2> QED BY <1>1, <2>1, <2>2, LogStep
<1> SUFFICES ASSUME NEW r \in Procs
             PROVE  /\ script'[r] = "running" => pc'[r] \in {"run", "killed"}
                    /\ Active(r)' /\ parent'[r] # Operator /\ inv'[r].held =>
                           pc'[parent'[r]] \in {"run", "killed"}
  BY <1>6 DEF Held
<1>7. script'[r] = "running" => pc'[r] \in {"run", "killed"}
  <2>1. CASE r = p /\ ~Launch(p)
    BY <1>3, <2>1 DEF Held, Drained, Running
  <2>2. CASE r = p /\ Launch(p)
    BY <1>2, <1>4, <2>2
  <2>3. CASE r # p
    BY <1>3, <1>4, <2>3 DEF Held
  <2> QED BY <2>1, <2>2, <2>3
<1>8. Active(r)' /\ parent'[r] # Operator /\ inv'[r].held => pc'[parent'[r]] \in {"run", "killed"}
  <2> SUFFICES ASSUME Active(r)', parent[r] # Operator, inv[r].held
               PROVE  pc'[parent[r]] \in {"run", "killed"}
    BY <1>3
  <2>1. Active(r)
    BY <1>3, <1>4 DEF Active
  <2>2. parent[r] \in Procs /\ parent[r] # p
    BY <1>1, <1>5, <2>1 DEF TypeOK
  <2> QED BY <1>4, <2>1, <2>2 DEF Held
<1> QED BY <1>7, <1>8

LEMMA OpenedAboveStart ==
    ASSUME IInv, Ordered, OpenedAbove, NEW p \in Procs, NEW q \in Procs \cup {Operator}, Start(p, q)
    PROVE  OpenedAbove'
<1>1. TypeOK
  BY DEF IInv, Typed
<1>2. /\ pc[p] = "unborn" /\ pc' = [pc EXCEPT ![p] = "load"]
      /\ parent' = [parent EXCEPT ![p] = q]
      /\ \A r \in Procs : r # p => Session(r)' = Session(r)
      /\ q # Operator => pc[q] # "unborn"
      /\ \/ Session(p)' = p
         \/ q # Operator /\ Session(p)' = Session(q)
  BY StartStep
<1>3. \A r \in Procs : /\ r # p => pc'[r] = pc[r] /\ parent'[r] = parent[r]
                       /\ parent'[p] = q
  BY <1>1, <1>2 DEF TypeOK
<1>4. parent[p] = Operator
  BY <1>2 DEF Ordered
<1> SUFFICES ASSUME NEW r \in Procs, pc'[r] # "unborn",
                    NEW S \in SUBSET Procs, Closed(S)', r \in S
             PROVE  Session(r)' \in S
  BY DEF OpenedAbove
<1>5. Closed(S)
  BY <1>3, <1>4 DEF Closed
<1>6. CASE r # p
  BY <1>2, <1>3, <1>5, <1>6 DEF OpenedAbove
<1>7. CASE r = p
  <2>1. q # Operator => q \in S
    BY <1>3, <1>7 DEF Closed
  <2> QED BY <1>2, <1>5, <1>7, <2>1 DEF OpenedAbove
<1> QED BY <1>6, <1>7

-----------------------------------------------------------------------------
LEMMA CInvInit == Init => CInv
<1> SUFFICES ASSUME Init PROVE CInv
  OBVIOUS
<1>1. Ordered
  BY DEF Init, Ordered
<1>2. Held
  BY DEF Init, Held, Active, Running
<1>3. OpenedAbove
  BY DEF Init, OpenedAbove
<1> QED BY <1>1, <1>2, <1>3 DEF CInv

LEMMA CInvStep == IInv /\ InTurn /\ CInv /\ [Next]_vars => CInv'
<1> SUFFICES ASSUME IInv, InTurn, CInv, [Next]_vars PROVE CInv'
  OBVIOUS
<1>1. TypeOK
  BY DEF IInv, Typed
<1>2. Ordered /\ Ordered'
  BY InTurnStep DEF InTurn
<1>3. ASSUME NEW p \in Procs, NEW q \in Procs \cup {Operator}, Start(p, q) PROVE CInv'
  BY <1>2, <1>3, HeldStart, OpenedAboveStart DEF CInv
<1>4. ASSUME NEW p \in Procs, Step(p) PROVE CInv'
  <2>1. Held'
    BY <1>4, HeldMain DEF CInv
  <2>2. PICK label \in {"prepare", "run", "setname", "setnumber", "spawn", "gone", "crashed"} :
            pc' = [pc EXCEPT ![p] = label]
    BY <1>4, MainStep
  <2>3. pc[p] \in Running /\ parent' = parent /\ \A r \in Procs : Session(r)' = Session(r)
    BY <1>4, MainStep
  <2>4. \A r \in Procs : pc'[r] # "unborn" => pc[r] # "unborn"
    BY <1>1, <2>2, <2>3 DEF TypeOK, Running
  <2>5. OpenedAbove'
    BY <2>3, <2>4 DEF CInv, OpenedAbove, Closed
  <2> QED BY <1>2, <2>1, <2>5 DEF CInv
<1>5. ASSUME NEW p \in Procs, Kill(p) PROVE CInv'
  <2>1. pc' = [pc EXCEPT ![p] = "killed"] /\ pc[p] \in Running
        /\ UNCHANGED <<parent, inv, ctx, script, cisLog>>
    BY <1>5 DEF Kill, Goto, storeVars
  <2>2. \A r \in Procs : /\ pc'[r] = IF r = p THEN "killed" ELSE pc[r]
                         /\ parent[r] # Operator => parent[r] \in Procs
    BY <1>1, <2>1 DEF TypeOK
  <2>3. Held'
    BY <2>1, <2>2 DEF CInv, Held, Active, Running
  <2>4. OpenedAbove'
    BY <2>1, <2>2 DEF CInv, OpenedAbove, Closed, Session, Running
  <2> QED BY <1>2, <2>3, <2>4 DEF CInv
<1>6. ASSUME NEW p \in Procs, ScriptEnds(p) \/ \E k \in Params : SetParam(p, k) PROVE CInv'
  <2>1. /\ UNCHANGED <<pc, parent, inv, ctx, cisLog>>
        /\ script' = script \/ script' = [script EXCEPT ![p] = "ended"]
    BY <1>6 DEF ScriptEnds, SetParam, procVars, storeVars
  <2>2. \A r \in Procs : script'[r] = "running" => script[r] = "running"
    BY <1>1, <2>1 DEF TypeOK
  <2>3. Held'
    BY <2>1, <2>2 DEF CInv, Held, Active
  <2>4. OpenedAbove'
    BY <2>1 DEF CInv, OpenedAbove, Closed, Session
  <2> QED BY <1>2, <2>3, <2>4 DEF CInv
<1>7. CASE AllEnded \/ UNCHANGED vars
  <2>1. UNCHANGED <<pc, parent, inv, ctx, script, cisLog>>
    BY <1>7 DEF AllEnded, vars, procVars, storeVars
  <2>2. Held' /\ OpenedAbove'
    BY <2>1 DEF CInv, Held, OpenedAbove, Closed, Active, Session
  <2> QED BY <1>2, <2>2 DEF CInv
<1> QED BY <1>3, <1>4, <1>5, <1>6, <1>7 DEF Next

LEMMA CInvCloses == IInv /\ CInv => SessionClosesLast
<1> SUFFICES ASSUME IInv, CInv,
                    NEW p \in Procs, Live(p), cisLog[Session(p)] = "closed",
                    \A q \in Line[p] : inv[q].held /\ pc[q] # "killed"
             PROVE  FALSE
  BY DEF SessionClosesLast
<1>1. TypeOK /\ Ordered
  BY DEF IInv, Typed, CInv
<1>2. p \in Line[p] /\ Line[p] \in SUBSET Procs /\ Closed(Line[p])
  BY <1>1, LineClosed
<1> DEFINE S == {r \in Line[p] : Active(r)}
<1>3. p \in S /\ pc[p] # "unborn"
  <2>1. Active(p)
    BY <1>2 DEF Live, CInv, Held, Active, Running
  <2> QED BY <1>2, <2>1 DEF Active, Running
<1>4. S \in SUBSET Procs /\ Closed(S)
  <2> SUFFICES ASSUME NEW r \in Line[p], Active(r), parent[r] # Operator PROVE parent[r] \in S
    BY <1>2 DEF Closed
  <2>1. parent[r] \in Line[p]
    BY <1>2 DEF Closed
  <2>2. pc[parent[r]] = "run"
    BY <1>2, <2>1 DEF CInv, Held
  <2> QED BY <2>1, <2>2 DEF Active, Running
<1>5. Session(p) \in S
  <2> HIDE DEF S
  <2> QED BY <1>3, <1>4 DEF CInv, OpenedAbove
<1>6. Session(p) \in Procs /\ pc[Session(p)] \in Running
  BY <1>2, <1>5 DEF Active
<1> QED BY <1>6 DEF CInv, Held, Running

\* However deep the tree, and whatever fails in it: when startjob logs the end of its
\* session, nothing of the session is at work, unless it is below a startjob that was
\* left behind or killed (the run of a script waits for all that holds its output).
THEOREM ClosesLast == Spec => []SessionClosesLast
<1>1. Init => CInv
  BY CInvInit
<1>2. IInv /\ InTurn /\ CInv /\ [Next]_vars => CInv'
  BY CInvStep
<1>3. IInv /\ CInv => SessionClosesLast
  BY CInvCloses
<1> QED BY <1>1, <1>2, <1>3, InTurnAlways, PTL DEF Spec
=============================================================================
