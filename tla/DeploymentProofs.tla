-------------------------- MODULE DeploymentProofs --------------------------
(***************************************************************************)
(* Proofs about Deployment for any number of runs of deploy.py, inside     *)
(* sessions or not, and any number of calls that fail.                     *)
(*                                                                         *)
(* IInv follows the verdict back to the assertions.  A script whose next   *)
(* line is n has passed the lines before n; core_test gets beyond a        *)
(* startjob only with the code of a job that has passed all of its lines;  *)
(* and deploy.py only waits for what core_test says.                       *)
(*                                                                         *)
(* FInv is what the next line of a script asks for, as long as no call has *)
(* failed: the values and parameters of the session when core_test is at   *)
(* line n, and what with_args has got of them and leaves there.            *)
(***************************************************************************)
EXTENDS Deployment, TLAPS

Seen(job, line, pd) == \A n \in 1 .. line - 1 : <<job, n>> \in pd

AllSeen(job, pd) == Seen(job, Len(Scripts[job]) + 1, pd)

\* What has passed before a frame got where it is.
FrameSeen(f, pd) ==
    /\ f.line \in 1 .. Len(Scripts[f.job]) + 1
    /\ Seen(f.job, f.line, pd)
    /\ f.job = "core_test" =>
           /\ f.line > 4 => AllSeen("without_args", pd)
           /\ f.line > 9 => AllSeen("with_args", pd)

\* core_test, or core_test in a startjob and the job it started.
Stack(fs) ==
    /\ fs \in Seq(Frame) /\ Len(fs) <= 2
    /\ Len(fs) >= 1 => fs[1].job = "core_test"
    /\ Len(fs) = 2 =>
           /\ fs[1].line \in 1 .. Len(core_test)
           /\ core_test[fs[1].line].op = "startjob"
           /\ fs[2].job = core_test[fs[1].line].key

Tested(pd) == \A j \in DOMAIN Scripts : AllSeen(j, pd)

Waits ==
    /\ frames # <<>> => maker \in Deployers /\ at[maker] = "wait"
    /\ \A d \in Deployers :
           /\ at[d] \in {"fill", "test", "wait"} => maker = d
           /\ at[d] \in {"test", "wait", "success"} => Made(d) = ToSet(Parts)
           /\ at[d] = "wait" /\ frames = <<>> /\ Good(answer) => Tested(passed)
           /\ at[d] = "success" /\ check[d] => Tested(passed)

OwnParts == \A x \in parts : x[2] = maker /\ maker # Nobody

IInv ==
    /\ at = [d \in Deployers |-> at[d]]
    /\ params \in [Params -> Texts]
    /\ Stack(frames) /\ \A i \in DOMAIN frames : FrameSeen(frames[i], passed)
    /\ Waits /\ OwnParts

-----------------------------------------------------------------------------
(* The scripts.                                                            *)

\* Their names and lengths.
LEMMA ScriptNames ==
    /\ DOMAIN Scripts = {"core_test", "without_args", "with_args"}
    /\ Scripts["core_test"] = core_test /\ Scripts["without_args"] = without_args
    /\ Scripts["with_args"] = with_args
    /\ Len(core_test) = 12 /\ Len(without_args) = 1 /\ Len(with_args) = 7
  BY DEF Scripts, core_test, without_args, with_args

\* What they do, line by line.
LEMMA CoreTestLines ==
    /\ core_test[1].op = "owner" /\ core_test[2].op = "setvalue" /\ core_test[3].op = "getvalue"
    /\ core_test[4].op = "startjob" /\ core_test[4].key = "without_args"
    /\ core_test[5].op = "getvalue" /\ core_test[6].op = "getvalue"
    /\ core_test[7].op = "setparam" /\ core_test[7].val = "set"
    /\ core_test[8].op = "setparam" /\ core_test[8].val = "replaced"
    /\ core_test[9].op = "startjob" /\ core_test[9].key = "with_args"
    /\ core_test[10].op = "getvalue" /\ core_test[11].op = "getvalue"
    /\ core_test[12].op = "getvalue"
  BY DEF Do, core_test

LEMMA OtherLines ==
    /\ without_args[1].op = "owner" /\ with_args[1].op = "owner"
    /\ with_args[2].op = "getparam" /\ with_args[3].op = "getparam" /\ with_args[4].op = "getparam"
    /\ with_args[5].op = "setvalue" /\ with_args[6].op = "setvalue" /\ with_args[7].op = "setvalue"
  BY DEF Do, without_args, with_args

\* Only core_test starts jobs, and which; only it sets parameters.
LEMMA ScriptCalls ==
    ASSUME NEW j \in DOMAIN Scripts, NEW n \in 1 .. Len(Scripts[j])
    PROVE  /\ Scripts[j][n].op = "startjob" =>
                  j = "core_test" /\ n \in {4, 9} /\ Scripts[j][n].key \in DOMAIN Scripts
           /\ j = "core_test" /\ n = 4 =>
                  Scripts[j][n].op = "startjob" /\ Scripts[j][n].key = "without_args"
           /\ j = "core_test" /\ n = 9 =>
                  Scripts[j][n].op = "startjob" /\ Scripts[j][n].key = "with_args"
           /\ Scripts[j][n].op = "setparam" => Scripts[j][n].val \in Texts
<1>1. CASE j = "core_test"
  <2>1. n \in 1 .. 12 /\ Scripts[j] = core_test BY <1>1, ScriptNames
  <2>2. n \in {1, 2, 3, 4, 5, 6, 7, 8, 9, 10, 11, 12} BY <2>1
  <2> HIDE DEF core_test
  <2> QED BY <1>1, <2>1, <2>2, CoreTestLines, ScriptNames DEF Texts
<1>2. CASE j = "without_args"
  BY <1>2, ScriptNames, OtherLines
<1>3. CASE j = "with_args"
  <2>1. n \in 1 .. 7 /\ Scripts[j] = with_args BY <1>3, ScriptNames
  <2>2. n \in {1, 2, 3, 4, 5, 6, 7} BY <2>1
  <2> QED BY <1>3, <2>1, <2>2, OtherLines
<1> QED BY <1>1, <1>2, <1>3, ScriptNames

-----------------------------------------------------------------------------
(* Frames.                                                                 *)

\* What has passed stays so.
LEMMA SeenGrows ==
    ASSUME NEW pd, NEW qd, pd \subseteq qd
    PROVE  /\ \A f : FrameSeen(f, pd) => FrameSeen(f, qd)
           /\ Tested(pd) => Tested(qd)
  BY DEF FrameSeen, AllSeen, Seen, Tested

LEMMA JudgedFrame ==
    ASSUME NEW f \in Frame, NEW holds \in BOOLEAN
    PROVE  /\ Judged(f, holds) \in Frame /\ Judged(f, holds).job = f.job
           /\ Judged(f, holds).line = IF holds THEN f.line + 1 ELSE f.line
<1>1. CASE holds
  <2>1. Judged(f, holds) = [f EXCEPT !.line = f.line + 1] BY <1>1 DEF Judged
  <2>2. f.line + 1 \in Nat BY DEF Frame
  <2> QED BY <1>1, <2>1, <2>2 DEF Frame
<1>2. CASE ~holds
  <2>1. Judged(f, holds) = [f EXCEPT !.failed = TRUE] BY <1>2 DEF Judged
  <2> QED BY <1>2, <2>1 DEF Frame
<1> QED BY <1>1, <1>2

\* An assertion moves the script that made it to its next line, or fails it.
LEMMA AssertsFrames ==
    ASSUME NEW fs \in Seq(Frame), fs # <<>>, NEW holds \in BOOLEAN, Asserts(fs, holds)
    PROVE  LET n == Len(fs) IN
           /\ frames' \in Seq(Frame) /\ Len(frames') = n /\ DOMAIN frames' = 1 .. n /\ n \in Nat
           /\ n >= 1
           /\ \A i \in 1 .. n - 1 : frames'[i] = fs[i]
           /\ fs[n] \in Frame /\ frames'[n] \in Frame
           /\ frames'[n].job = fs[n].job
           /\ frames'[n].line = IF holds THEN fs[n].line + 1 ELSE fs[n].line
           /\ passed' = IF holds THEN passed \cup {<<fs[n].job, fs[n].line>>} ELSE passed
<1> DEFINE n == Len(fs)
           g == Judged(fs[n], holds)
<1>1. /\ n \in Nat /\ n >= 1 /\ DOMAIN fs = 1 .. n /\ fs[n] \in Frame
      /\ \A i \in 1 .. n : fs[i] \in Frame
  <2> HIDE DEF Frame
  <2> QED OBVIOUS
<1>2. g \in Frame /\ g.job = fs[n].job /\ g.line = IF holds THEN fs[n].line + 1 ELSE fs[n].line
  BY <1>1, JudgedFrame
<1>3. /\ frames' = [fs EXCEPT ![n] = g]
      /\ passed' = IF holds THEN passed \cup {<<fs[n].job, fs[n].line>>} ELSE passed
  BY DEF Asserts, Last
<1> HIDE DEF n, g
<1>4. /\ frames' \in Seq(Frame) /\ Len(frames') = n /\ DOMAIN frames' = 1 .. n
      /\ frames'[n] = g /\ \A i \in 1 .. n - 1 : frames'[i] = fs[i]
  <2>1. fs = [i \in 1 .. n |-> fs[i]]
    BY <1>1 DEF n
  <2>2. frames' = [i \in 1 .. n |-> IF i = n THEN g ELSE fs[i]]
    BY <1>3, <2>1
  <2> HIDE DEF Frame
  <2> QED BY <1>1, <1>2, <2>2
<1> QED BY <1>1, <1>2, <1>3, <1>4 DEF n

\* The invariant of the frames survives an assertion, if core_test gets beyond
\* a startjob only when the job has passed.
LEMMA AssertsKeep ==
    ASSUME NEW fs, Stack(fs), fs # <<>>, \A i \in DOMAIN fs : FrameSeen(fs[i], passed),
           NEW holds \in BOOLEAN, Asserts(fs, holds),
           holds => /\ fs[Len(fs)].line <= Len(Scripts[fs[Len(fs)].job])
                    /\ fs[Len(fs)].job = "core_test" =>
                           /\ fs[Len(fs)].line = 4 => AllSeen("without_args", passed)
                           /\ fs[Len(fs)].line = 9 => AllSeen("with_args", passed)
    PROVE  /\ Stack(frames') /\ \A i \in DOMAIN frames' : FrameSeen(frames'[i], passed')
           /\ frames' # <<>> /\ passed \subseteq passed'
<1> DEFINE n == Len(fs)
<1>1. fs \in Seq(Frame)
  BY DEF Stack
<1>2. /\ frames' \in Seq(Frame) /\ Len(frames') = n /\ DOMAIN frames' = 1 .. n /\ n \in Nat
      /\ n >= 1
      /\ \A i \in 1 .. n - 1 : frames'[i] = fs[i]
      /\ fs[n] \in Frame /\ frames'[n] \in Frame
      /\ frames'[n].job = fs[n].job
      /\ frames'[n].line = IF holds THEN fs[n].line + 1 ELSE fs[n].line
      /\ passed' = IF holds THEN passed \cup {<<fs[n].job, fs[n].line>>} ELSE passed
  BY <1>1, AssertsFrames
<1>3. passed \subseteq passed' /\ DOMAIN fs = 1 .. n
  BY <1>1, <1>2
<1>4. n <= 2 /\ (n = 2 => fs[2].job \in DOMAIN Scripts)
  BY <1>1, <1>2 DEF Stack, Frame
<1>5. Stack(frames')
  <2>1. CASE n = 1
    BY <1>2, <2>1 DEF Stack
  <2>2. CASE n = 2
    BY <1>2, <2>2 DEF Stack
  <2> QED BY <1>2, <1>4, <2>1, <2>2
<1>6. FrameSeen(frames'[n], passed')
  <2>1. FrameSeen(fs[n], passed) /\ fs[n].line \in Nat /\ Len(Scripts[fs[n].job]) \in Nat
    <3>1. fs[n].job \in DOMAIN Scripts BY <1>2 DEF Frame
    <3>2. Len(Scripts[fs[n].job]) \in Nat BY <3>1, ScriptNames
    <3> QED BY <1>2, <1>3, <3>2 DEF Frame
  <2>2. CASE ~holds
    BY <1>2, <2>1, <2>2 DEF FrameSeen
  <2>3. CASE holds
    <3>1. frames'[n].line \in 1 .. Len(Scripts[fs[n].job]) + 1
      BY <1>2, <2>1, <2>3 DEF FrameSeen
    <3>2. Seen(fs[n].job, fs[n].line + 1, passed')
      BY <1>2, <2>1, <2>3 DEF FrameSeen, Seen
    <3>3. fs[n].job = "core_test" =>
              /\ fs[n].line + 1 > 4 => AllSeen("without_args", passed)
              /\ fs[n].line + 1 > 9 => AllSeen("with_args", passed)
      BY <2>1, <2>3 DEF FrameSeen
    <3>4. \A j : AllSeen(j, passed) => AllSeen(j, passed')
      BY <1>3 DEF AllSeen, Seen
    <3> QED BY <1>2, <2>3, <3>1, <3>2, <3>3, <3>4 DEF FrameSeen
  <2> QED BY <2>2, <2>3
<1>7. \A i \in 1 .. n - 1 : FrameSeen(frames'[i], passed')
  <2>1. \A f : FrameSeen(f, passed) => FrameSeen(f, passed')
    BY <1>3, SeenGrows
  <2>2. \A i \in 1 .. n - 1 : frames'[i] = fs[i] /\ i \in DOMAIN fs
    BY <1>2, <1>3
  <2> QED BY <2>1, <2>2
<1>8. frames' # <<>>
  BY <1>2
<1> HIDE DEF n
<1>9. \A i \in 1 .. n : i = n \/ i \in 1 .. n - 1
  BY <1>2
<1>10. \A i \in DOMAIN frames' : FrameSeen(frames'[i], passed')
  BY <1>2, <1>6, <1>7, <1>9
<1> QED BY <1>10, <1>2, <1>3, <1>5, <1>6, <1>7, <1>8

-----------------------------------------------------------------------------
(* Steps of the scripts.                                                   *)

Frames == Stack(frames) /\ \A i \in DOMAIN frames : FrameSeen(frames[i], passed)

\* The frame of the script that runs.
LEMMA TopFrame ==
    ASSUME Frames, frames # <<>>
    PROVE  /\ Len(frames) \in {1, 2} /\ DOMAIN frames = 1 .. Len(frames)
           /\ frames \in Seq(Frame)
           /\ Top = frames[Len(frames)] /\ Top \in Frame /\ FrameSeen(Top, passed)
           /\ Top.job \in DOMAIN Scripts
           /\ Top.line \in 1 .. Len(Scripts[Top.job]) + 1 /\ Len(Scripts[Top.job]) \in Nat
<1>1. frames \in Seq(Frame) /\ Len(frames) <= 2
  BY DEF Frames, Stack
<1>2. /\ Len(frames) \in Nat /\ Len(frames) >= 1 /\ DOMAIN frames = 1 .. Len(frames)
      /\ frames[Len(frames)] \in Frame
  <2> HIDE DEF Frame
  <2> QED BY <1>1
<1>3. Top = frames[Len(frames)] BY DEF Top, Last
<1>4. FrameSeen(Top, passed) BY <1>2, <1>3 DEF Frames
<1>5. Top.job \in DOMAIN Scripts BY <1>2, <1>3 DEF Frame
<1>6. Len(Scripts[Top.job]) \in Nat BY <1>5, ScriptNames
<1> QED BY <1>1, <1>2, <1>3, <1>4, <1>5, <1>6 DEF FrameSeen

\* While scripts run, and go on, deploy.py waits.
LEMMA WaitsOn ==
    ASSUME Waits, frames # <<>>, frames' # <<>>, passed \subseteq passed',
           UNCHANGED <<at, check, maker, parts>>
    PROVE  Waits'
<1>1. Tested(passed) => Tested(passed')
  BY SeenGrows
<1> QED BY <1>1 DEF Waits, Made

\* A call that starts nothing.
LEMMA CallKeeps ==
    ASSUME IInv, NEW op \in {"owner", "setvalue", "getvalue", "setparam", "getparam"},
           Runs(op), NEW holds \in BOOLEAN, Asserts(frames, holds),
           UNCHANGED <<at, check, maker, parts>>,
           UNCHANGED params \/ params' \in [Params -> Texts]
    PROVE  IInv'
<1>1. Frames /\ frames # <<>> /\ ~Ended /\ Scripts[Top.job][Top.line].op = op
  BY DEF IInv, Frames, Runs, Now
<1>2. Top.line \in 1 .. Len(Scripts[Top.job]) /\ Top.job \in DOMAIN Scripts
  BY <1>1, TopFrame DEF Ended
<1>3. Top.job = "core_test" => Top.line # 4 /\ Top.line # 9
  BY <1>1, <1>2, ScriptCalls
<1>4. /\ Stack(frames') /\ \A i \in DOMAIN frames' : FrameSeen(frames'[i], passed')
      /\ frames' # <<>> /\ passed \subseteq passed'
  <2>1. /\ frames[Len(frames)].line <= Len(Scripts[frames[Len(frames)].job])
        /\ frames[Len(frames)].job = "core_test" =>
               frames[Len(frames)].line # 4 /\ frames[Len(frames)].line # 9
    BY <1>1, <1>2, <1>3, TopFrame
  <2> QED BY <1>1, <2>1, AssertsKeep DEF Frames
<1>5. Waits'
  BY <1>1, <1>4, WaitsOn DEF IInv
<1> QED BY <1>4, <1>5 DEF IInv, OwnParts

LEMMA ScriptKeeps ==
    ASSUME IInv, OwnerTest \/ setvalue \/ getvalue \/ setparam \/ getparam PROVE IInv'
<1>1. CASE OwnerTest
  BY <1>1, CallKeeps DEF OwnerTest, sessionVars
<1>2. CASE setvalue
  BY <1>2, CallKeeps DEF setvalue
<1>3. CASE getvalue
  <2>1. PICK holds \in BOOLEAN : Asserts(frames, holds)
    BY <1>3 DEF getvalue
  <2> QED BY <1>3, <2>1, CallKeeps DEF getvalue, sessionVars
<1>4. CASE setparam
  <2>1. PICK holds \in BOOLEAN : Asserts(frames, holds)
    BY <1>4 DEF setparam
  <2>2. Now.val \in Texts
    <3>1. Frames /\ frames # <<>> /\ ~Ended /\ Scripts[Top.job][Top.line].op = "setparam"
      BY <1>4 DEF IInv, Frames, setparam, Runs, Now
    <3>2. Top.line \in 1 .. Len(Scripts[Top.job]) /\ Top.job \in DOMAIN Scripts
      BY <3>1, TopFrame DEF Ended
    <3> QED BY <3>1, <3>2, ScriptCalls DEF Now
  <2>3. UNCHANGED params \/ params' \in [Params -> Texts]
    BY <1>4, <2>2 DEF setparam, IInv
  <2> QED BY <1>4, <2>1, <2>3, CallKeeps DEF setparam
<1>5. CASE getparam
  <2>1. PICK holds \in BOOLEAN : Asserts(frames, holds)
    BY <1>5 DEF getparam
  <2> QED BY <1>5, <2>1, CallKeeps DEF getparam, sessionVars
<1> QED BY <1>1, <1>2, <1>3, <1>4, <1>5

\* A script that begins has its parameters, and nothing behind it.
LEMMA BegunFrame ==
    ASSUME IInv, NEW job \in DOMAIN Scripts
    PROVE  /\ Begun(job) \in Frame /\ Begun(job).job = job /\ Begun(job).line = 1
           /\ FrameSeen(Begun(job), passed)
<1>1. Prepared(params) \in [Params -> Texts]
  <2>1. Defaults \in [Params -> Texts]
    <3>1. \A k \in Params : Defaults[k] \in Texts
      <4>1. Defaults["prm1"] = "why?" /\ Defaults["prm2"] = "" /\ Defaults["prm3"] = "third"
        BY DEF Defaults
      <4>2. {"why?", "", "third"} \subseteq Texts
        BY DEF Texts
      <4> QED BY <4>1, <4>2 DEF Params
    <3>2. Defaults = [k \in Params |-> Defaults[k]]
      BY DEF Defaults, Params
    <3> QED BY <3>1, <3>2
  <2> HIDE DEF Texts, Params
  <2> QED BY <2>1 DEF IInv, Prepared
<1>2. [k \in Params |-> ""] \in [Params -> Texts]
  BY DEF Texts
<1>3. Begun(job) \in Frame /\ Begun(job).job = job /\ Begun(job).line = 1
  BY <1>1, <1>2 DEF Begun, Frame
<1>4. Len(Scripts[job]) \in Nat
  BY ScriptNames
<1> HIDE DEF Begun
<1> QED BY <1>3, <1>4 DEF FrameSeen, Seen

LEMMA StartKeeps ==
    ASSUME IInv, startjob PROVE IInv'
<1>1. /\ Frames /\ frames # <<>> /\ ~Ended /\ Scripts[Top.job][Top.line].op = "startjob"
      /\ UNCHANGED <<at, check, maker, parts, params>>
  BY DEF IInv, Frames, startjob, Runs, Now, sessionVars
<1>2. Top.line \in 1 .. Len(Scripts[Top.job]) /\ Top.job \in DOMAIN Scripts
  BY <1>1, TopFrame DEF Ended
<1> DEFINE key == Scripts[Top.job][Top.line].key
<1>3. Top.job = "core_test" /\ key \in DOMAIN Scripts /\ key # "core_test"
  BY <1>1, <1>2, ScriptCalls, ScriptNames
<1>4. Len(frames) = 1
  <2>1. CASE Len(frames) = 2
    <3>1. frames[1].line \in 1 .. Len(Scripts["core_test"])
          /\ Scripts["core_test"][frames[1].line].op = "startjob"
          /\ frames[2].job = Scripts["core_test"][frames[1].line].key
      BY <1>1, <2>1, ScriptNames DEF Frames, Stack
    <3>2. frames[2].job # "core_test"
      BY <3>1, ScriptCalls, ScriptNames
    <3> QED BY <1>1, <1>3, <2>1, <3>2, TopFrame
  <2> QED BY <1>1, <2>1, TopFrame
<1>5. CASE frames' = Append(frames, Begun(key)) /\ UNCHANGED passed
  <2>1. /\ Begun(key) \in Frame /\ Begun(key).job = key /\ FrameSeen(Begun(key), passed)
    BY <1>3, BegunFrame
  <2>2. frames \in Seq(Frame) BY <1>1, TopFrame
  <2> DEFINE b == Begun(key)
  <2>3. /\ b \in Frame /\ b.job = key /\ FrameSeen(b, passed) /\ frames' = Append(frames, b)
    BY <2>1, <1>5
  <2> HIDE DEF b, key
  <2>4. /\ frames' \in Seq(Frame) /\ Len(frames') = 2 /\ DOMAIN frames' = {1, 2}
        /\ frames'[1] = frames[1] /\ frames'[2] = b
    <3> HIDE DEF Frame
    <3>1. /\ frames' \in Seq(Frame) /\ Len(frames') = Len(frames) + 1
          /\ frames'[Len(frames) + 1] = b
          /\ \A i \in 1 .. Len(frames) : frames'[i] = frames[i]
      BY <2>2, <2>3
    <3>2. DOMAIN frames' = 1 .. 2
      BY <1>4, <3>1
    <3> QED BY <1>4, <3>1, <3>2
  <2>5. Top = frames[1] /\ FrameSeen(Top, passed) /\ Top.line \in 1 .. Len(core_test)
        /\ core_test[Top.line].op = "startjob" /\ key = core_test[Top.line].key
    BY <1>1, <1>2, <1>3, <1>4, TopFrame, ScriptNames DEF key
  <2>6. Stack(frames')
    BY <1>3, <2>3, <2>4, <2>5 DEF Stack
  <2>7. \A i \in DOMAIN frames' : FrameSeen(frames'[i], passed)
    BY <2>3, <2>4, <2>5
  <2>8. Waits'
    <3>1. frames' # <<>>
      <4>1. Len(frames') # 0 BY <2>4
      <4> QED BY <4>1
    <3> QED BY <1>1, <1>5, <3>1, WaitsOn DEF IInv
  <2> QED BY <1>1, <1>5, <2>6, <2>7, <2>8 DEF IInv, OwnParts
<1>6. CASE Answer(frames, [returned |-> 1, line |-> "other"])
  <2>1. Asserts(frames, FALSE)
    BY <1>1, <1>6 DEF Answer, Good
  <2>2. /\ Stack(frames') /\ \A i \in DOMAIN frames' : FrameSeen(frames'[i], passed')
        /\ frames' # <<>> /\ passed \subseteq passed'
    BY <1>1, <2>1, AssertsKeep DEF Frames
  <2>3. Waits' BY <1>1, <2>2, WaitsOn DEF IInv
  <2> QED BY <1>1, <2>2, <2>3 DEF IInv, OwnParts
<1> QED BY <1>5, <1>6 DEF startjob, Call, Now

\* A startjob ends: its answer is good only if its script passed to the end.
LEMMA FinishKeeps ==
    ASSUME IInv, Finish PROVE IInv'
<1>1. /\ Frames /\ frames # <<>> /\ (Top.failed \/ Top.line > Len(Scripts[Top.job]))
      /\ UNCHANGED <<at, check, maker, parts, params>>
  BY DEF IInv, Frames, Finish, Ended
<1>2. PICK a : Answer(Front(frames), a) /\ (Good(a) => Code = "zero")
  <2>1. \/ Answer(Front(frames), [returned |-> 0, line |-> Code])
        \/ Answer(Front(frames), [returned |-> 1, line |-> "other"])
        \/ Answer(Front(frames), [returned |-> 1, line |-> Code])
        \/ Answer(Front(frames), [returned |-> 0, line |-> "other"])
    BY DEF Finish
  <2> QED BY <2>1 DEF Good
<1>3. Good(a) => AllSeen(Top.job, passed)
  <2> SUFFICES ASSUME Good(a) PROVE AllSeen(Top.job, passed)
    OBVIOUS
  <2>1. Top.line > Len(Scripts[Top.job])
    BY <1>1, <1>2 DEF Code
  <2>2. Top.line = Len(Scripts[Top.job]) + 1
    BY <1>1, <2>1, TopFrame
  <2>3. FrameSeen(Top, passed)
    BY <1>1, TopFrame
  <2> QED BY <2>2, <2>3 DEF FrameSeen, AllSeen
<1>4. CASE Len(frames) = 1
  <2>1. Front(frames) = <<>>
    BY <1>1, <1>4, TopFrame DEF Front
  <2>2. frames' = <<>> /\ passed' = passed /\ answer' = a
    BY <1>2, <2>1 DEF Answer
  <2>3. Top.job = "core_test" /\ FrameSeen(Top, passed)
    BY <1>1, <1>4, TopFrame DEF Frames, Stack
  <2>4. Good(a) => Tested(passed)
    <3> SUFFICES ASSUME Good(a) PROVE Tested(passed)
      OBVIOUS
    <3>1. Top.line > Len(Scripts[Top.job])
      BY <1>1, <1>2 DEF Code
    <3>2. Top.line > 9
      BY <1>1, <2>3, <3>1, TopFrame, ScriptNames
    <3>3. AllSeen("without_args", passed) /\ AllSeen("with_args", passed)
          /\ AllSeen("core_test", passed)
      BY <1>1, <1>3, <2>3, <3>2, TopFrame DEF FrameSeen
    <3> QED BY <3>3, ScriptNames DEF Tested
  <2>5. Waits'
    BY <1>1, <2>2, <2>4 DEF IInv, Waits, Made
  <2>6. Stack(frames') /\ DOMAIN frames' = {}
    <3>1. frames' \in Seq(Frame) /\ Len(frames') = 0 /\ DOMAIN frames' = {}
      <4> HIDE DEF Frame
      <4> QED BY <2>2
    <3> QED BY <3>1 DEF Stack
  <2> QED BY <1>1, <2>2, <2>5, <2>6 DEF IInv, OwnParts
<1>5. CASE Len(frames) = 2
  <2> DEFINE fs == Front(frames)
  <2>1. /\ fs \in Seq(Frame) /\ Len(fs) = 1 /\ DOMAIN fs = {1} /\ fs[1] = frames[1]
    <3>1. frames \in Seq(Frame) BY <1>1, TopFrame
    <3> HIDE DEF Frame
    <3> QED BY <1>5, <3>1 DEF Front
  <2>2. /\ frames[1].job = "core_test" /\ frames[1].line \in 1 .. Len(core_test)
        /\ core_test[frames[1].line].op = "startjob"
        /\ Top.job = core_test[frames[1].line].key
        /\ FrameSeen(frames[1], passed)
    BY <1>1, <1>5, TopFrame DEF Frames, Stack
  <2>3. Asserts(fs, Good(a))
    <3>1. fs # <<>>
      <4>1. Len(fs) # 0 BY <2>1
      <4> QED BY <4>1
    <3> QED BY <1>2, <3>1 DEF Answer
  <2>4. Good(a) \in BOOLEAN
    BY DEF Good
  <2> HIDE DEF fs
  <2>5. Stack(fs) /\ fs # <<>> /\ \A i \in DOMAIN fs : FrameSeen(fs[i], passed)
    <3>1. Stack(fs) BY <2>1, <2>2 DEF Stack
    <3>2. fs # <<>>
      <4>1. Len(fs) # 0 BY <2>1
      <4> QED BY <4>1
    <3>3. \A i \in DOMAIN fs : FrameSeen(fs[i], passed)
      BY <2>1, <2>2, Zenon
    <3> QED BY <3>1, <3>2, <3>3
  <2>6. Good(a) =>
          /\ fs[Len(fs)].line <= Len(Scripts[fs[Len(fs)].job])
          /\ fs[Len(fs)].job = "core_test" =>
                 /\ fs[Len(fs)].line = 4 => AllSeen("without_args", passed)
                 /\ fs[Len(fs)].line = 9 => AllSeen("with_args", passed)
    <3>1. /\ fs[Len(fs)] = frames[1] /\ Len(Scripts["core_test"]) = 12
          /\ frames[1].line \in 1 .. 12
      BY <2>1, <2>2, ScriptNames
    <3>2. core_test[4].key = "without_args" /\ core_test[9].key = "with_args"
      BY CoreTestLines
    <3>3. Good(a) /\ frames[1].line = 4 => AllSeen("without_args", passed)
      BY <1>3, <2>2, <3>2
    <3>4. Good(a) /\ frames[1].line = 9 => AllSeen("with_args", passed)
      BY <1>3, <2>2, <3>2
    <3>5. frames[1].line <= 12
      BY <3>1
    <3> HIDE DEF Good
    <3> QED BY <2>2, <3>1, <3>3, <3>4, <3>5
  <2>7. /\ Stack(frames') /\ \A i \in DOMAIN frames' : FrameSeen(frames'[i], passed')
        /\ frames' # <<>> /\ passed \subseteq passed'
    BY <2>3, <2>4, <2>5, <2>6, AssertsKeep
  <2>8. Waits' BY <1>1, <2>7, WaitsOn DEF IInv
  <2> QED BY <1>1, <2>7, <2>8 DEF IInv, OwnParts
<1> QED BY <1>1, <1>4, <1>5, TopFrame

-----------------------------------------------------------------------------
(* Steps of deploy.py.                                                     *)

\* Steps that run no script.
LEMMA DeployKeeps ==
    ASSUME IInv, NEW d \in Deployers,
           Look(d) \/ Refuse(d) \/ Mkdir(d) \/ Fill(d) \/ RunTest(d) \/ Verdict(d)
    PROVE  IInv'
<1>1. UNCHANGED <<frames, params, answer, passed, check>>
  BY DEF Look, Refuse, Mkdir, Fill, RunTest, Verdict, testVars, sessionVars
<1>2. Nobody \notin Deployers /\ at = [c \in Deployers |-> at[c]]
  BY DeploymentAssumption DEF IInv
<1>3. Waits /\ OwnParts /\ params \in [Params -> Texts]
  BY DEF IInv
<1>4. CASE Look(d) \/ Refuse(d)
  <2>1. /\ UNCHANGED <<maker, parts>>
        /\ at[d] = "look" /\ \E l \in {"mkdir", "refused"} : at' = [at EXCEPT ![d] = l]
    BY <1>4 DEF Look, Refuse
  <2>2. Waits'
    BY <1>1, <1>2, <1>3, <2>1 DEF Waits, Made
  <2> QED BY <1>1, <1>2, <1>3, <2>1, <2>2 DEF IInv, OwnParts
<1>5. CASE Mkdir(d) /\ maker = Nobody
  <2>1. /\ parts' = parts /\ maker' = d /\ at' = [at EXCEPT ![d] = "fill"] /\ at[d] = "mkdir"
    BY <1>5 DEF Mkdir
  <2>2. frames = <<>> /\ (\A c \in Deployers : at[c] \notin {"fill", "test", "wait"})
        /\ \A x \in parts : FALSE
    BY <1>2, <1>3, <1>5 DEF Waits, OwnParts
  <2>3. Waits'
    BY <1>1, <1>2, <1>3, <2>1, <2>2 DEF Waits, Made
  <2> QED BY <1>1, <1>2, <1>3, <2>1, <2>2, <2>3 DEF IInv, OwnParts
<1>6. CASE Mkdir(d) /\ maker # Nobody
  <2>1. /\ UNCHANGED <<maker, parts>> /\ at' = [at EXCEPT ![d] = "failed"] /\ at[d] = "mkdir"
    BY <1>6 DEF Mkdir
  <2>2. Waits'
    BY <1>1, <1>2, <1>3, <2>1 DEF Waits, Made
  <2> QED BY <1>1, <1>2, <1>3, <2>1, <2>2 DEF IInv, OwnParts
<1>7. CASE Fill(d)
  <2>1. /\ maker' = maker /\ maker = d /\ at[d] = "fill"
        /\ at' = at \/ at' = [at EXCEPT ![d] = "failed"]
        /\ \E x : parts' \in {parts, parts \cup {<<x, d>>}}
    BY <1>3, <1>7 DEF Fill, Waits
  <2>2. \A c \in Deployers : Made(c) = ToSet(Parts) => Made(c)' = ToSet(Parts)
    BY <2>1 DEF Made
  <2>3. Waits'
    BY <1>1, <1>2, <1>3, <2>1, <2>2 DEF Waits
  <2>4. OwnParts'
    BY <1>2, <1>3, <2>1 DEF OwnParts
  <2> QED BY <1>1, <1>2, <1>3, <2>1, <2>3, <2>4 DEF IInv
<1>8. CASE RunTest(d)
  <2>1. /\ UNCHANGED <<maker, parts>> /\ at[d] = "fill" /\ Made(d) = ToSet(Parts)
        /\ at' = [at EXCEPT ![d] = IF check[d] THEN "test" ELSE "success"]
    BY <1>8 DEF RunTest
  <2>2. Waits'
    BY <1>1, <1>2, <1>3, <2>1 DEF Waits, Made
  <2> QED BY <1>1, <1>2, <1>3, <2>1, <2>2 DEF IInv, OwnParts
<1>9. CASE Verdict(d)
  <2>1. /\ UNCHANGED <<maker, parts>> /\ at[d] = "wait" /\ frames = <<>>
        /\ at' = [at EXCEPT ![d] = IF Good(answer) THEN "success" ELSE "failed"]
    BY <1>9 DEF Verdict
  <2>2. Waits'
    <3> HIDE DEF Good
    <3>1. Good(answer)' <=> Good(answer) BY <1>1 DEF Good
    <3> QED BY <1>1, <1>2, <1>3, <2>1, <3>1 DEF Waits, Made
  <2> QED BY <1>1, <1>2, <1>3, <2>1, <2>2 DEF IInv, OwnParts
<1> QED BY <1>4, <1>5, <1>6, <1>7, <1>8, <1>9

LEMMA CallCoreTestKeeps ==
    ASSUME IInv, NEW d \in Deployers, CallCoreTest(d) PROVE IInv'
<1>1. /\ at[d] = "test" /\ at' = [at EXCEPT ![d] = "wait"] /\ Call("core_test")
      /\ UNCHANGED <<check, maker, parts, params>>
  BY DEF CallCoreTest, sessionVars
<1>2. Waits /\ OwnParts /\ at = [c \in Deployers |-> at[c]]
  BY DEF IInv
<1>3. maker = d /\ frames = <<>>
  BY <1>1, <1>2 DEF Waits
<1>4. CASE frames' = Append(frames, Begun("core_test")) /\ UNCHANGED <<answer, passed>>
  <2> DEFINE b == Begun("core_test")
  <2>1. b \in Frame /\ b.job = "core_test" /\ FrameSeen(b, passed)
    BY BegunFrame, ScriptNames
  <2>2. frames' = <<b>> BY <1>3, <1>4
  <2> HIDE DEF b
  <2>3. frames' \in Seq(Frame) /\ Len(frames') = 1 /\ DOMAIN frames' = {1} /\ frames'[1] = b
        /\ frames' # <<>>
    <3> HIDE DEF Frame
    <3> QED BY <2>1, <2>2
  <2>4. Stack(frames') /\ \A i \in DOMAIN frames' : FrameSeen(frames'[i], passed')
    BY <1>4, <2>1, <2>3 DEF Stack
  <2>5. Waits'
    BY <1>1, <1>2, <1>3, <1>4, <2>3 DEF Waits, Made
  <2> QED BY <1>1, <1>2, <2>4, <2>5 DEF IInv, OwnParts
<1>5. CASE Answer(frames, [returned |-> 1, line |-> "other"])
  <2>1. frames' = frames /\ passed' = passed /\ ~Good(answer')
    BY <1>3, <1>5 DEF Answer, Good
  <2>2. Waits'
    BY <1>1, <1>2, <1>3, <2>1 DEF Waits, Made, Good
  <2> QED BY <1>1, <1>2, <2>1, <2>2 DEF IInv, OwnParts
<1> QED BY <1>1, <1>4, <1>5 DEF Call

-----------------------------------------------------------------------------
(* The invariant, and what it gives.                                       *)

LEMMA IInvInit == Init => IInv
<1> SUFFICES ASSUME Init PROVE IInv
  OBVIOUS
<1>1. frames = <<>> /\ parts = {} /\ at = [d \in Deployers |-> "look"]
  BY DEF Init
<1>2. frames \in Seq(Frame) /\ Len(frames) = 0 /\ DOMAIN frames = {}
  <2> HIDE DEF Frame
  <2> QED BY <1>1
<1>3. Stack(frames) /\ \A i \in DOMAIN frames : FrameSeen(frames[i], passed)
  BY <1>2 DEF Stack
<1>4. params \in [Params -> Texts]
  BY DEF Init, Texts
<1>5. Waits /\ OwnParts
  BY <1>1 DEF Waits, OwnParts
<1> QED BY <1>1, <1>3, <1>4, <1>5 DEF IInv

LEMMA IInvAlways == Spec => []IInv
<1>1. ASSUME IInv, [Next]_vars PROVE IInv'
  <2>1. CASE UNCHANGED vars
    <3>1. UNCHANGED <<at, check, maker, parts, frames, params, answer, passed>>
      BY <2>1 DEF vars, testVars, sessionVars
    <3>2. Waits' BY <1>1, <3>1 DEF IInv, Waits, Made, Good
    <3> QED BY <1>1, <3>1, <3>2 DEF IInv, OwnParts
  <2>2. CASE Script
    BY <1>1, <2>2, ScriptKeeps, StartKeeps, FinishKeeps DEF Script
  <2>3. ASSUME NEW d \in Deployers, Deploy(d) PROVE IInv'
    BY <1>1, <2>3, DeployKeeps, CallCoreTestKeeps DEF Deploy
  <2> QED BY <1>1, <2>1, <2>2, <2>3 DEF Next
<1> QED BY <1>1, IInvInit, PTL DEF Spec

\* Whoever else runs deploy.py for the same directory, and whatever calls fail:
\* if it says "Deployment success", it has made all parts of the directory
\* itself and, unless told not to look, every assertion of core_test and of the
\* two jobs it starts has held.
THEOREM TestedBeforeSuccess == Spec => []SuccessMeansTested
<1>1. IInv => SuccessMeansTested
  <2> SUFFICES ASSUME IInv, NEW d \in Deployers, at[d] = "success"
               PROVE  /\ Made(d) = ToSet(Parts)
                      /\ check[d] => \A j \in DOMAIN Scripts : \A n \in DOMAIN Scripts[j] :
                                         <<j, n>> \in passed
    BY DEF SuccessMeansTested
  <2>1. Made(d) = ToSet(Parts) /\ (check[d] => Tested(passed))
    BY DEF IInv, Waits
  <2>2. ASSUME NEW j \in DOMAIN Scripts
        PROVE  Len(Scripts[j]) \in Nat /\ DOMAIN Scripts[j] = 1 .. Len(Scripts[j])
    <3>1. DOMAIN core_test = 1 .. Len(core_test) BY DEF core_test
    <3>2. DOMAIN with_args = 1 .. Len(with_args) BY DEF with_args
    <3>3. DOMAIN without_args = 1 .. Len(without_args) BY DEF without_args
    <3> QED BY <3>1, <3>2, <3>3, ScriptNames
  <2> QED BY <2>1, <2>2 DEF Tested, AllSeen, Seen
<1> QED BY <1>1, IInvAlways, PTL

\* However many runs of deploy.py have found the directory missing, what is in
\* it was put there by one of them.
THEOREM OneDeployer == Spec => []OneFills
<1>1. IInv => OneFills
  BY DEF IInv, OwnParts, OneFills
<1> QED BY <1>1, IInvAlways, PTL

-----------------------------------------------------------------------------
(* A run that nothing disturbs: what its calls find.                        *)

\* Nothing disturbs the run of deploy.py that has made the directory.
Smooth == faults = 0 /\ maker \notin Inside

\* What core_test finds in its session before line n,
Session(n, v, p) ==
    /\ n > 2 => v["test="] = "test"
    /\ n > 4 /\ n < 10 => v["last_job_name"] = "without_args"
    /\ n > 4 => v["last_job_build_number"] = "number"
    /\ n > 7 => p["prm2"] = "set"
    /\ n > 8 => p["prm3"] = "replaced"
    /\ n > 9 => v["prm1"] = "why?" /\ v["prm2"] = "set" /\ v["prm3"] = "replaced"

\* and what with_args has got, and leaves there.
Passing(got, n, v) ==
    /\ got["prm1"] = "why?" /\ got["prm2"] = "set" /\ got["prm3"] = "replaced"
    /\ n > 5 => v["prm1"] = "why?"
    /\ n > 6 => v["prm2"] = "set"
    /\ n > 7 => v["prm3"] = "replaced"

Planned(fs, v, p) ==
    /\ \A i \in DOMAIN fs : ~fs[i].failed
    /\ fs # <<>> => Session(fs[1].line, v, p)
    /\ Len(fs) = 2 /\ fs[2].job = "with_args" => Passing(fs[2].got, fs[2].line, v)

FInv ==
    /\ faults \in Nat /\ values = [k \in Keys |-> values[k]]
    /\ \A d \in Deployers : maker = d => at[d] \notin {"look", "mkdir"}
    /\ Smooth =>
           /\ \A d \in Deployers : at[d] = "failed" => maker # d
           /\ \A d \in Deployers : maker = d /\ at[d] = "wait" /\ frames = <<>> => Good(answer)
           /\ params["prm1"] = "" /\ Planned(frames, values, params)

-----------------------------------------------------------------------------
(* The calls of the scripts keep to the plan.                               *)

\* What the calls of the scripts are about.
LEMMA CoreTestCalls ==
    ASSUME NEW n \in 1 .. 12, NEW c, c = core_test[n]
    PROVE  /\ c.op = "owner" => n = 1 /\ c.want = "true"
           /\ c.op = "setvalue" => n = 2 /\ c.key = "test=" /\ c.val = "test"
           /\ c.op = "getvalue" =>
                  \/ n = 3 /\ c.key = "test=" /\ c.want = "test"
                  \/ n = 5 /\ c.key = "last_job_name" /\ c.want = "without_args"
                  \/ n = 6 /\ c.key = "last_job_build_number" /\ c.want = "number"
                  \/ n = 10 /\ c.key = "prm1" /\ c.want = "why?"
                  \/ n = 11 /\ c.key = "prm2" /\ c.want = "set"
                  \/ n = 12 /\ c.key = "prm3" /\ c.want = "replaced"
           /\ c.op = "setparam" =>
                  \/ n = 7 /\ c.key = "prm2" /\ c.val = "set"
                  \/ n = 8 /\ c.key = "prm3" /\ c.val = "replaced"
           /\ c.op # "getparam"
<1>1. /\ core_test[1].want = "true"
      /\ core_test[2].key = "test=" /\ core_test[2].val = "test"
      /\ core_test[3].key = "test=" /\ core_test[3].want = "test"
      /\ core_test[5].key = "last_job_name" /\ core_test[5].want = "without_args"
      /\ core_test[6].key = "last_job_build_number" /\ core_test[6].want = "number"
      /\ core_test[7].key = "prm2" /\ core_test[8].key = "prm3"
      /\ core_test[10].key = "prm1" /\ core_test[10].want = "why?"
      /\ core_test[11].key = "prm2" /\ core_test[11].want = "set"
      /\ core_test[12].key = "prm3" /\ core_test[12].want = "replaced"
  BY DEF Do, core_test
<1>2. n \in {1, 2, 3, 4, 5, 6, 7, 8, 9, 10, 11, 12} OBVIOUS
<1> QED BY <1>1, <1>2, CoreTestLines

LEMMA WithArgsCalls ==
    ASSUME NEW n \in 1 .. 7, NEW c, c = with_args[n]
    PROVE  /\ c.op = "owner" => n = 1 /\ c.want = "false"
           /\ c.op = "getparam" => n \in {2, 3, 4}
           /\ c.op = "setvalue" =>
                  /\ c.val = "..."
                  /\ \/ n = 5 /\ c.key = "prm1"
                     \/ n = 6 /\ c.key = "prm2"
                     \/ n = 7 /\ c.key = "prm3"
           /\ c.op \in {"owner", "getparam", "setvalue"}
<1>1. /\ with_args[1].want = "false"
      /\ with_args[5].val = "..." /\ with_args[6].val = "..." /\ with_args[7].val = "..."
      /\ with_args[5].key = "prm1" /\ with_args[6].key = "prm2" /\ with_args[7].key = "prm3"
  BY DEF Do, with_args
<1>2. n = 1 \/ n \in {2, 3, 4} \/ n \in {5, 6, 7} OBVIOUS
<1>3. CASE n = 1 BY <1>1, <1>3, OtherLines
<1>4. CASE n \in {2, 3, 4}
  <2>1. c.op = "getparam" BY <1>4, OtherLines
  <2> QED BY <1>4, <2>1
<1>5. CASE n \in {5, 6, 7}
  <2>1. c.op = "setvalue" /\ c.val = "..." BY <1>1, <1>5, OtherLines
  <2> QED BY <1>1, <1>5, <2>1
<1> QED BY <1>2, <1>3, <1>4, <1>5

LEMMA WithoutArgsCalls ==
    ASSUME NEW n \in 1 .. 1, NEW c, c = without_args[n] PROVE c.op = "owner" /\ c.want = "false"
<1>1. without_args[1].op = "owner" /\ without_args[1].want = "false" BY DEF Do, without_args
<1> QED BY <1>1

\* Which script it is that runs.
LEMMA WhoRuns ==
    ASSUME Frames, frames # <<>>
    PROVE  \/ Len(frames) = 1 /\ Top = frames[1] /\ Top.job = "core_test"
           \/ /\ Len(frames) = 2 /\ Top = frames[2] /\ frames[1].job = "core_test"
              /\ \/ Top.job = "without_args" /\ frames[1].line = 4
                 \/ Top.job = "with_args" /\ frames[1].line = 9
<1>1. /\ Len(frames) \in {1, 2} /\ Top = frames[Len(frames)]
  BY TopFrame
<1>2. /\ frames[1].job = "core_test"
      /\ Len(frames) = 2 =>
           /\ frames[1].line \in 1 .. Len(core_test)
           /\ core_test[frames[1].line].op = "startjob"
           /\ frames[2].job = core_test[frames[1].line].key
  BY <1>1 DEF Frames, Stack
<1>3. CASE Len(frames) = 2
  <2>1. frames[1].line \in 1 .. Len(Scripts["core_test"]) /\ Scripts["core_test"][frames[1].line].op = "startjob"
    BY <1>2, <1>3, ScriptNames
  <2>2. frames[1].line \in {4, 9}
    BY <2>1, ScriptCalls, ScriptNames
  <2> QED BY <1>1, <1>2, <1>3, <2>2, CoreTestLines
<1> QED BY <1>1, <1>2, <1>3

\* An assertion that holds moves its script on, and the plan with it.
LEMMA AssertsPlanned ==
    ASSUME NEW fs, Stack(fs), fs # <<>>, Asserts(fs, TRUE), \A i \in DOMAIN fs : ~fs[i].failed,
           Len(fs) = 1 => Session(fs[1].line + 1, values', params'),
           Len(fs) = 2 => /\ Session(fs[1].line, values', params')
                          /\ fs[2].job = "with_args" => Passing(fs[2].got, fs[2].line + 1, values')
    PROVE  Planned(frames', values', params') /\ frames' # <<>>
<1> DEFINE n == Len(fs)
<1>1. fs \in Seq(Frame) BY DEF Stack
<1>2. /\ n \in {1, 2} /\ DOMAIN fs = 1 .. n /\ fs[n] \in Frame
  <2>1. n \in Nat /\ n >= 1 /\ n <= 2 /\ DOMAIN fs = 1 .. n /\ \A i \in 1 .. n : fs[i] \in Frame
    <3> HIDE DEF Frame
    <3> QED BY <1>1 DEF Stack
  <2> QED BY <2>1
<1> DEFINE g == [fs[n] EXCEPT !.line = fs[n].line + 1]
<1>3. frames' = [fs EXCEPT ![n] = g]
  BY DEF Asserts, Judged
<1>4. g.line = fs[n].line + 1 /\ g.failed = fs[n].failed /\ g.got = fs[n].got /\ g.job = fs[n].job
  BY <1>2 DEF Frame
<1>10. n = Len(fs) OBVIOUS
<1> HIDE DEF g, n
<1>5. /\ Len(frames') = n /\ DOMAIN frames' = 1 .. n /\ frames'[n] = g
      /\ \A i \in 1 .. n : i # n => frames'[i] = fs[i]
  <2>1. fs = [i \in 1 .. n |-> fs[i]]
    <3> HIDE DEF Frame
    <3> QED BY <1>1, <1>2
  <2>2. frames' = [i \in 1 .. n |-> IF i = n THEN g ELSE fs[i]] BY <1>3, <2>1
  <2> QED BY <1>2, <2>2
<1>6. frames' # <<>>
  <2>1. Len(frames') # 0 BY <1>2, <1>5
  <2> QED BY <2>1
<1>7. \A i \in DOMAIN frames' : ~frames'[i].failed
  BY <1>2, <1>4, <1>5
<1>8. CASE n = 1
  BY <1>4, <1>5, <1>7, <1>8, <1>10 DEF Planned
<1>9. CASE n = 2
  BY <1>4, <1>5, <1>7, <1>9, <1>10 DEF Planned
<1> QED BY <1>2, <1>6, <1>8, <1>9

\* The line that the script is at.
LEMMA WhichCall ==
    ASSUME IInv, NEW op, Runs(op)
    PROVE  /\ Frames /\ frames # <<>> /\ Now.op = op /\ Top.line \in Nat
           /\ Top.job = "core_test" => Top.line \in 1 .. 12 /\ Now = core_test[Top.line]
           /\ Top.job = "with_args" => Top.line \in 1 .. 7 /\ Now = with_args[Top.line]
           /\ Top.job = "without_args" => Top.line \in 1 .. 1 /\ Now = without_args[Top.line]
<1>1. Frames /\ frames # <<>> /\ ~Ended /\ Now.op = op
  BY DEF IInv, Frames, Runs
<1>2. Top.line \in 1 .. Len(Scripts[Top.job]) /\ Top.job \in DOMAIN Scripts
  BY <1>1, TopFrame DEF Ended
<1> QED BY <1>1, <1>2, ScriptNames DEF Now

\* The session and the parameters stay as they are in a call that asks.
LEMMA SameSession ==
    ASSUME IInv, FInv, Smooth, NEW op, Runs(op), op \in {"owner", "getvalue", "getparam"},
           Asserts(frames, TRUE), UNCHANGED <<values, params>>
    PROVE  Planned(frames', values', params') /\ frames' # <<>>
<1>1. Frames /\ frames # <<>> /\ Planned(frames, values, params)
  BY WhichCall DEF FInv
<1>2. /\ Len(frames) = 1 => Session(frames[1].line + 1, values, params)
      /\ Len(frames) = 2 /\ frames[2].job = "with_args" =>
             Passing(frames[2].got, frames[2].line + 1, values)
  <2>1. CASE Len(frames) = 1
    <3>1. Top = frames[1] /\ Top.job = "core_test" BY <1>1, <2>1, WhoRuns
    <3>4. /\ Top.line \in 1 .. 12 /\ Now = core_test[Top.line]
          /\ Now.op \in {"owner", "getvalue", "getparam"}
      BY <3>1, WhichCall
    <3>2. Top.line \in 1 .. 12 /\ Top.line \in {1, 3, 5, 6, 10, 11, 12}
      BY <3>4, CoreTestCalls
    <3>3. Session(Top.line, values, params) BY <1>1, <3>1 DEF Planned
    <3> QED BY <2>1, <3>1, <3>2, <3>3 DEF Session
  <2>2. CASE Len(frames) = 2 /\ frames[2].job = "with_args"
    <3>1. Top = frames[2] BY <1>1, <2>2, WhoRuns
    <3>2. Top.line \in 1 .. 7 /\ Top.line \in {1, 2, 3, 4}
      BY <2>2, <3>1, WhichCall, WithArgsCalls
    <3>3. Passing(Top.got, Top.line, values) BY <1>1, <2>2, <3>1 DEF Planned
    <3> QED BY <2>2, <3>1, <3>2, <3>3 DEF Passing
  <2> QED BY <2>1, <2>2
<1>3. Session(frames[1].line, values, params) BY <1>1 DEF Planned
<1>4. \A i \in DOMAIN frames : ~frames[i].failed BY <1>1 DEF Planned
<1>5. Stack(frames) BY <1>1 DEF Frames
<1> HIDE DEF Session, Passing
<1> QED BY <1>1, <1>2, <1>3, <1>4, <1>5, AssertsPlanned

\* Who owns the session is what the scripts assume: core_test, and no job of its.
LEMMA OwnerPlanned ==
    ASSUME IInv, FInv, Smooth, maker \in Deployers, Made(maker) = ToSet(Parts), OwnerTest
    PROVE  Planned(frames', values', params') /\ frames' # <<>>
<1>1. Runs("owner") /\ UNCHANGED <<values, params>>
      /\ Asserts(frames, ("executables" \in Made(maker)) /\ (Now.want = "true") = ~InSession)
  BY DEF OwnerTest, sessionVars
<1>2. "executables" \in ToSet(Parts)
  <2>1. 6 \in DOMAIN Parts /\ Parts[6] = "executables" BY DEF Parts
  <2> QED BY <2>1 DEF ToSet
<1>3. (Now.want = "true") = ~InSession
  <2>1. Frames /\ frames # <<>> BY <1>1, WhichCall
  <2>2. InSession <=> Len(frames) > 1 BY DEF InSession, Smooth
  <2>3. CASE Len(frames) = 1
    <3>1. Top.job = "core_test" BY <2>1, <2>3, WhoRuns
    <3>2. Now.want = "true" BY <1>1, <3>1, WhichCall, CoreTestCalls
    <3> QED BY <2>2, <2>3, <3>2
  <2>4. CASE Len(frames) = 2
    <3>1. Top.job \in {"without_args", "with_args"} BY <2>1, <2>4, WhoRuns
    <3>2. Now.want = "false" BY <1>1, <3>1, WhichCall, WithArgsCalls, WithoutArgsCalls
    <3> QED BY <2>2, <2>4, <3>2
  <2> QED BY <2>1, <2>3, <2>4, WhoRuns
<1>4. Asserts(frames, TRUE)
  <2>1. (("executables" \in Made(maker)) /\ (Now.want = "true") = ~InSession) = TRUE
    BY <1>2, <1>3
  <2> QED BY <1>1, <2>1
<1> QED BY <1>1, <1>4, SameSession

\* core_test finds the values it asks for.
LEMMA GetvaluePlanned ==
    ASSUME IInv, FInv, Smooth, getvalue, faults' = faults
    PROVE  Planned(frames', values', params') /\ frames' # <<>>
<1>1. /\ Runs("getvalue") /\ UNCHANGED <<values, params>> /\ faults \in Nat
      /\ \/ Asserts(frames, values[Now.key] = Now.want)
         \/ faults' = faults + 1
  BY DEF getvalue, sessionVars, CanFail, FInv
<1>2. Asserts(frames, values[Now.key] = Now.want) BY <1>1
<1>3. values[Now.key] = Now.want
  <2>1. Frames /\ frames # <<>> /\ Planned(frames, values, params) /\ Now.op = "getvalue"
    BY <1>1, WhichCall DEF FInv
  <2>2. Top.job = "core_test"
    BY <1>1, <2>1, WhichCall, WhoRuns, WithArgsCalls, WithoutArgsCalls
  <2>3. Top = frames[1] BY <2>1, <2>2, WhoRuns
  <2>4. Session(Top.line, values, params) BY <2>1, <2>3 DEF Planned
  <2>5. Top.line \in 1 .. 12 /\ Now = core_test[Top.line] BY <1>1, <2>2, WhichCall
  <2> QED BY <2>1, <2>4, <2>5, CoreTestCalls DEF Session
<1>4. Asserts(frames, TRUE)
  <2>1. (values[Now.key] = Now.want) = TRUE BY <1>3
  <2> QED BY <1>2, <2>1
<1> QED BY <1>1, <1>4, SameSession

\* The parameters can be read.
LEMMA GetparamPlanned ==
    ASSUME IInv, FInv, Smooth, getparam, faults' = faults
    PROVE  Planned(frames', values', params') /\ frames' # <<>>
<1>1. /\ Runs("getparam") /\ UNCHANGED <<values, params>> /\ faults \in Nat
      /\ \/ Asserts(frames, TRUE)
         \/ faults' = faults + 1
  BY DEF getparam, sessionVars, CanFail, FInv
<1>2. faults' # faults + 1 BY <1>1
<1>3. Asserts(frames, TRUE) BY <1>1, <1>2, Zenon
<1> QED BY <1>1, <1>3, SameSession

\* core_test leaves its test value, with_args what it has got.
LEMMA SetvaluePlanned ==
    ASSUME IInv, FInv, Smooth, setvalue, faults' = faults
    PROVE  Planned(frames', values', params') /\ frames' # <<>>
<1>1. /\ Runs("setvalue") /\ params' = params /\ faults \in Nat
      /\ \/ (values' = [values EXCEPT ![Now.key] = Value] /\ Asserts(frames, TRUE))
         \/ faults' = faults + 1
  BY DEF setvalue, CanFail, FInv
<1>11. faults' # faults + 1 BY <1>1
<1>2. values' = [values EXCEPT ![Now.key] = Value] /\ Asserts(frames, TRUE) BY <1>1, <1>11, Zenon
<1>3. /\ Frames /\ frames # <<>> /\ Planned(frames, values, params) /\ Now.op = "setvalue"
      /\ Stack(frames) /\ \A i \in DOMAIN frames : ~frames[i].failed
      /\ Session(frames[1].line, values, params)
      /\ values = [k \in Keys |-> values[k]]
  BY <1>1, WhichCall DEF FInv, Planned, Frames
<1>4. CASE Len(frames) = 1
  <2>1. Top = frames[1] /\ Top.job = "core_test" BY <1>3, <1>4, WhoRuns
  <2>2. Top.line \in 1 .. 12 /\ Now = core_test[Top.line] BY <1>1, <2>1, WhichCall
  <2>3. Top.line = 2 /\ Now.key = "test=" /\ Now.val = "test" BY <1>3, <2>2, CoreTestCalls
  <2>4. values'["test="] = "test"
    BY <1>2, <1>3, <2>3 DEF Value, Keys
  <2>5. Session(frames[1].line + 1, values', params') BY <2>1, <2>3, <2>4 DEF Session
  <2>6. Len(frames) # 2 BY <1>4
  <2> QED BY <1>2, <1>3, <2>5, <2>6, AssertsPlanned, Zenon
<1>5. CASE Len(frames) = 2
  <2>1. /\ Top = frames[2] /\ Top.job = "with_args" /\ frames[1].line = 9
    BY <1>1, <1>3, <1>5, WhoRuns, WhichCall, WithoutArgsCalls
  <2>2. Top.line \in 1 .. 7 /\ Now = with_args[Top.line] BY <1>1, <2>1, WhichCall
  <2>3. /\ Now.val = "..."
        /\ \/ Top.line = 5 /\ Now.key = "prm1"
           \/ Top.line = 6 /\ Now.key = "prm2"
           \/ Top.line = 7 /\ Now.key = "prm3"
    BY <1>3, <2>2, WithArgsCalls
  <2>4. Value = Top.got[Now.key] BY <2>3 DEF Value, get_param
  <2>5. Passing(Top.got, Top.line, values) BY <1>3, <1>5, <2>1 DEF Planned
  <2>6. \A k \in Keys : values'[k] = IF k = Now.key THEN Value ELSE values[k]
    BY <1>2, <1>3
  <2>7. Passing(frames[2].got, frames[2].line + 1, values')
    BY <2>1, <2>3, <2>4, <2>5, <2>6 DEF Passing, Keys, Params
  <2>8. Session(frames[1].line, values', params')
    BY <1>1, <1>3, <2>1, <2>3, <2>6 DEF Session, Keys, Params
  <2>9. Len(frames) # 1 BY <1>5
  <2> QED BY <1>2, <1>3, <2>7, <2>8, <2>9, AssertsPlanned, Zenon
<1> QED BY <1>3, <1>4, <1>5, WhoRuns

\* core_test sets the two parameters, the first is left to its default.
LEMMA SetparamPlanned ==
    ASSUME IInv, FInv, Smooth, setparam, faults' = faults
    PROVE  Planned(frames', values', params') /\ frames' # <<>> /\ params'["prm1"] = params["prm1"]
<1>1. /\ Runs("setparam") /\ values' = values /\ faults \in Nat
      /\ \/ (params' = [params EXCEPT ![Now.key] = Now.val] /\ Asserts(frames, TRUE))
         \/ faults' = faults + 1
  BY DEF setparam, CanFail, FInv
<1>11. faults' # faults + 1 BY <1>1
<1>2. params' = [params EXCEPT ![Now.key] = Now.val] /\ Asserts(frames, TRUE) BY <1>1, <1>11, Zenon
<1>3. /\ Frames /\ frames # <<>> /\ Planned(frames, values, params) /\ Now.op = "setparam"
      /\ Stack(frames) /\ \A i \in DOMAIN frames : ~frames[i].failed
      /\ params \in [Params -> Texts]
  BY <1>1, WhichCall DEF FInv, Planned, Frames, IInv
<1>4. Top.job = "core_test"
  BY <1>1, <1>3, WhichCall, WhoRuns, WithArgsCalls, WithoutArgsCalls
<1>5. Top = frames[1] /\ Len(frames) = 1 BY <1>3, <1>4, WhoRuns
<1>6. Top.line \in 1 .. 12 /\ Now = core_test[Top.line] BY <1>1, <1>4, WhichCall
<1>7. \/ Top.line = 7 /\ Now.key = "prm2" /\ Now.val = "set"
      \/ Top.line = 8 /\ Now.key = "prm3" /\ Now.val = "replaced"
  BY <1>3, <1>6, CoreTestCalls
<1>8. \A k \in Params : params'[k] = IF k = Now.key THEN Now.val ELSE params[k]
  <2> HIDE DEF Texts
  <2> QED BY <1>2, <1>3
<1>9. Session(Top.line, values, params) BY <1>3, <1>5 DEF Planned
<1>10. Session(frames[1].line + 1, values', params') /\ params'["prm1"] = params["prm1"]
  <2>1. /\ Session(frames[1].line, values, params) /\ values' = values
        /\ \/ frames[1].line = 7 /\ Now.key = "prm2" /\ Now.val = "set"
           \/ frames[1].line = 8 /\ Now.key = "prm3" /\ Now.val = "replaced"
    BY <1>1, <1>5, <1>7, <1>9
  <2>2. CASE frames[1].line = 7 /\ Now.key = "prm2" /\ Now.val = "set"
    BY <1>8, <2>1, <2>2 DEF Session, Params
  <2>3. CASE frames[1].line = 8 /\ Now.key = "prm3" /\ Now.val = "replaced"
    BY <1>8, <2>1, <2>3 DEF Session, Params
  <2> QED BY <2>1, <2>2, <2>3
<1>12. Len(frames) # 2 BY <1>5
<1> QED BY <1>2, <1>3, <1>10, <1>12, AssertsPlanned, Zenon

\* with_args gets the parameters that were set, and the default of the other.
LEMMA StartPlanned ==
    ASSUME IInv, FInv, Smooth, startjob, faults' = faults
    PROVE  Planned(frames', values', params') /\ frames' # <<>>
<1>1. /\ Runs("startjob") /\ UNCHANGED <<values, params>> /\ faults \in Nat
      /\ \/ frames' = Append(frames, Begun(Now.key))
         \/ faults' = faults + 1
  BY DEF startjob, Call, sessionVars, CanFail, FInv
<1>13. faults' # faults + 1 BY <1>1
<1>14. frames' = Append(frames, Begun(Now.key)) BY <1>1, <1>13, Zenon
<1>15. Frames /\ frames # <<>> /\ Now.op = "startjob" BY <1>1, WhichCall
<1>16. Planned(frames, values, params) /\ params["prm1"] = "" BY DEF FInv
<1>2. /\ Frames /\ frames # <<>> /\ Planned(frames, values, params) /\ Now.op = "startjob"
      /\ frames' = Append(frames, Begun(Now.key)) /\ params["prm1"] = ""
      /\ Session(frames[1].line, values, params) /\ \A i \in DOMAIN frames : ~frames[i].failed
  BY <1>14, <1>15, <1>16 DEF Planned
<1>3. Top.job = "core_test"
  BY <1>1, <1>2, WhichCall, WhoRuns, WithArgsCalls, WithoutArgsCalls
<1>4. Top = frames[1] /\ Len(frames) = 1 /\ frames \in Seq(Frame) /\ 1 \in DOMAIN frames
  <2>1. Top = frames[1] /\ Len(frames) = 1 BY <1>15, <1>3, WhoRuns
  <2>2. frames \in Seq(Frame) /\ DOMAIN frames = 1 .. Len(frames) BY <1>15, TopFrame
  <2> QED BY <2>1, <2>2
<1>5. Top.line \in 1 .. 12 /\ Now = core_test[Top.line] BY <1>1, <1>3, WhichCall
<1>6. /\ Top.line = 9 \/ Now.key = "without_args"
      /\ Now.key \in DOMAIN Scripts
  <2>1. Top.line \in {4, 9} /\ Now.key \in DOMAIN Scripts
    <3>1. Top.line \in 1 .. Len(Scripts["core_test"]) /\ Scripts["core_test"][Top.line].op = "startjob"
          /\ Now = Scripts["core_test"][Top.line]
      BY <1>2, <1>5, ScriptNames
    <3> QED BY <3>1, ScriptCalls, ScriptNames
  <2> QED BY <1>5, <2>1, CoreTestLines
<1> DEFINE b == Begun(Now.key)
<1>7. b \in Frame /\ b.job = Now.key /\ b.line = 1 /\ ~b.failed
      /\ b.got = IF Now.key = "with_args" THEN Prepared(params) ELSE [k \in Params |-> ""]
  <2>1. b \in Frame /\ b.job = Now.key /\ b.line = 1 BY <1>6, BegunFrame
  <2> QED BY <2>1 DEF Begun
<1>8. frames' = Append(frames, b) BY <1>2
<1> HIDE DEF b
<1>9. Len(frames') = 2 /\ DOMAIN frames' = {1, 2} /\ frames'[1] = frames[1] /\ frames'[2] = b
  <2> HIDE DEF Frame
  <2>1. b \in Frame /\ frames \in Seq(Frame) BY <1>4, <1>7
  <2>2. /\ frames' \in Seq(Frame) /\ Len(frames') = Len(frames) + 1
        /\ frames'[Len(frames) + 1] = b
        /\ \A i \in 1 .. Len(frames) : frames'[i] = frames[i]
    BY <1>8, <2>1
  <2>3. DOMAIN frames' = 1 .. 2 BY <1>4, <2>2
  <2> QED BY <1>4, <2>2, <2>3
<1>10. b.job = "with_args" => Passing(b.got, b.line, values)
  <2> SUFFICES ASSUME b.job = "with_args" PROVE Passing(b.got, b.line, values) OBVIOUS
  <2>1. Top.line = 9 /\ b.got = Prepared(params) BY <1>6, <1>7
  <2>5. frames[1].line = 9 /\ Session(frames[1].line, values, params) BY <1>2, <1>4, <2>1
  <2>2. params["prm2"] = "set" /\ params["prm3"] = "replaced" BY <2>5 DEF Session
  <2>3. Defaults["prm1"] = "why?" BY DEF Defaults
  <2>4. Prepared(params)["prm1"] = "why?" /\ Prepared(params)["prm2"] = "set"
        /\ Prepared(params)["prm3"] = "replaced"
    BY <1>2, <2>2, <2>3 DEF Prepared, Params
  <2>6. b.line = 1 BY <1>7
  <2> QED BY <2>1, <2>4, <2>6 DEF Passing
<1>11. frames' # <<>>
  <2>1. Len(frames') # 0 BY <1>9
  <2> QED BY <2>1
<1>12. \A i \in DOMAIN frames' : ~frames'[i].failed
  BY <1>2, <1>4, <1>7, <1>9
<1> HIDE DEF Session, Passing
<1> QED BY <1>1, <1>2, <1>9, <1>10, <1>11, <1>12 DEF Planned

\* A script that ends leaves its name and number, or answers deploy.py.
LEMMA FinishPlanned ==
    ASSUME IInv, FInv, Smooth, Finish, faults' = faults
    PROVE  Planned(frames', values', params') /\ (frames' = <<>> => Good(answer'))
<1>7. Finish /\ params' = params /\ frames # <<>> /\ Planned(frames, values, params)
  BY DEF Finish, Ended, FInv
<1>8. Frames BY DEF IInv, Frames
<1>9. faults' # faults + 1
  <2>1. faults \in Nat BY DEF FInv
  <2> QED BY <2>1
<1>1. /\ Frames /\ frames # <<>> /\ params' = params /\ faults' # faults + 1
      /\ Top.failed \/ Top.line > Len(Scripts[Top.job])
      /\ Planned(frames, values, params) /\ values = [k \in Keys |-> values[k]]
  BY <1>7, <1>8, <1>9 DEF Finish, Ended, FInv
<1> DEFINE a == [returned |-> 0, line |-> Code]
<1>2. Answer(Front(frames), a) /\ values' = LastJob(values)
  <2>1. ~CanFail BY <1>1 DEF CanFail
  <2>2. \/ Answer(Front(frames), a) /\ values' = LastJob(values)
        \/ CanFail
    BY Zenon DEF Finish
  <2> QED BY <2>1, <2>2, Zenon
<1>3. ~Top.failed
  <2>1. Len(frames) \in DOMAIN frames /\ Top = frames[Len(frames)] BY <1>1, TopFrame
  <2> QED BY <1>1, <2>1 DEF Planned
<1>4. Good(a) BY <1>3 DEF Good, Code
<1> HIDE DEF a
<1>5. CASE Len(frames) = 1
  <2>1. Front(frames) = <<>> BY <1>1, <1>5, TopFrame DEF Front
  <2>2. frames' = <<>> /\ answer' = a BY <1>2, <2>1 DEF Answer
  <2>3. DOMAIN frames' = {} BY <2>2
  <2> QED BY <1>4, <2>2, <2>3 DEF Planned
<1>6. CASE Len(frames) = 2
  <2> DEFINE fs == Front(frames)
  <2>1. frames \in Seq(Frame) BY <1>1, TopFrame
  <2>2. fs \in Seq(Frame) /\ Len(fs) = 1 /\ DOMAIN fs = {1} /\ fs[1] = frames[1]
    <3> HIDE DEF Frame
    <3> QED BY <1>6, <2>1 DEF Front
  <2> HIDE DEF fs
  <2>3. fs # <<>>
    <3>1. Len(fs) # 0 BY <2>2
    <3> QED BY <3>1
  <2>4. Asserts(fs, TRUE)
    <3>1. Asserts(fs, Good(a)) BY <1>2, <2>3 DEF Answer, fs
    <3>2. Good(a) = TRUE BY <1>4 DEF Good
    <3> QED BY <3>1, <3>2
  <2>5. Stack(fs)
    <3>1. frames[1].job = "core_test" BY <1>1, <1>6, WhoRuns
    <3> QED BY <2>2, <3>1 DEF Stack
  <2>6. \A i \in DOMAIN fs : ~fs[i].failed
    <3>1. 1 \in DOMAIN frames BY <1>1, <1>6, TopFrame
    <3> QED BY <1>1, <2>2, <3>1 DEF Planned
  <2>7. InSession /\ "last_job_name" \in Keys /\ "last_job_build_number" \in Keys
    BY <1>6 DEF InSession, Keys
  <2>8. \A k \in Keys : values'[k] = IF k = "last_job_build_number" THEN "number"
                                     ELSE IF k = "last_job_name" THEN Top.job ELSE values[k]
    <3>1. values' = [[values EXCEPT !["last_job_name"] = Top.job]
                         EXCEPT !["last_job_build_number"] = "number"]
      BY <1>2, <2>7 DEF LastJob, Named
    <3> QED BY <1>1, <3>1
  <2>9. {"test=", "last_job_name", "last_job_build_number", "prm1", "prm2", "prm3"} \subseteq Keys
    BY DEF Keys, Params
  <2>10. Session(frames[1].line, values, params) BY <1>1 DEF Planned
  <2>11. ASSUME Top.job = "without_args" /\ frames[1].line = 4
         PROVE  Session(frames[1].line + 1, values', params')
    BY <1>1, <2>8, <2>9, <2>10, <2>11 DEF Session
  <2>12. ASSUME Top.job = "with_args" /\ frames[1].line = 9
         PROVE  Session(frames[1].line + 1, values', params')
    <3>1. Top = frames[2] BY <1>1, <1>6, WhoRuns
    <3>2. Passing(Top.got, Top.line, values) BY <1>1, <1>6, <2>12, <3>1 DEF Planned
    <3>3. Top.line > 7 BY <1>1, <1>3, <2>12, ScriptNames
    <3>4. values["prm1"] = "why?" /\ values["prm2"] = "set" /\ values["prm3"] = "replaced"
      <4>1. Top.line \in Nat BY <1>1, TopFrame
      <4> QED BY <3>2, <3>3, <4>1 DEF Passing
    <3> QED BY <1>1, <2>8, <2>9, <2>10, <2>12, <3>4 DEF Session
  <2>13. Session(fs[1].line + 1, values', params')
    <3>1. \/ Top.job = "without_args" /\ frames[1].line = 4
          \/ Top.job = "with_args" /\ frames[1].line = 9
      BY <1>1, <1>6, WhoRuns
    <3>2. Session(frames[1].line + 1, values', params')
      BY <2>11, <2>12, <3>1
    <3> QED BY <2>2, <3>2
  <2>14. Len(fs) # 2 BY <2>2
  <2> QED BY <2>3, <2>4, <2>5, <2>6, <2>13, <2>14, AssertsPlanned, Zenon
<1> QED BY <1>1, <1>5, <1>6, WhoRuns

\* Every step of a script goes by the plan.
LEMMA ScriptPlanned ==
    ASSUME IInv, FInv, Smooth, Script, faults' = faults
    PROVE  /\ Planned(frames', values', params') /\ (frames' = <<>> => Good(answer'))
           /\ params'["prm1"] = ""
<1>1. params["prm1"] = "" /\ frames # <<>>
  <2>1. frames # <<>>
    BY DEF Script, OwnerTest, setvalue, getvalue, setparam, getparam, startjob, Finish, Runs, Ended
  <2> QED BY <2>1 DEF FInv
<1>2. CASE setparam
  BY <1>1, <1>2, SetparamPlanned
<1>3. CASE OwnerTest
  <2>1. maker \in Deployers /\ Made(maker) = ToSet(Parts) BY <1>1 DEF IInv, Waits
  <2> QED BY <1>1, <1>3, <2>1, OwnerPlanned DEF OwnerTest, sessionVars
<1>4. CASE setvalue
  <2>1. params' = params BY <1>4 DEF setvalue
  <2> QED BY <1>1, <1>4, <2>1, SetvaluePlanned
<1>5. CASE getvalue
  <2>1. params' = params BY <1>5 DEF getvalue, sessionVars
  <2> QED BY <1>1, <1>5, <2>1, GetvaluePlanned
<1>6. CASE getparam
  <2>1. params' = params BY <1>6 DEF getparam, sessionVars
  <2> QED BY <1>1, <1>6, <2>1, GetparamPlanned
<1>7. CASE startjob
  <2>1. params' = params BY <1>7 DEF startjob, sessionVars
  <2> QED BY <1>1, <1>7, <2>1, StartPlanned
<1>8. CASE Finish
  <2>1. params' = params BY <1>8 DEF Finish
  <2> QED BY <1>1, <1>8, <2>1, FinishPlanned
<1> QED BY <1>2, <1>3, <1>4, <1>5, <1>6, <1>7, <1>8 DEF Script

\* Whatever happens, faults are not forgotten, and values stay values.
LEMMA ScriptFaults ==
    ASSUME FInv, Script
    PROVE  /\ faults' \in Nat /\ (faults' = 0 => faults' = faults)
           /\ values' = [k \in Keys |-> values'[k]] /\ UNCHANGED <<at, maker>>
<1>1. UNCHANGED <<at, maker>>
  BY DEF Script, OwnerTest, setvalue, getvalue, setparam, getparam, startjob, Finish
<1>2. faults \in Nat /\ values = [k \in Keys |-> values[k]]
  BY DEF FInv
<1>3. faults' = faults \/ faults' = faults + 1
  BY DEF Script, OwnerTest, setvalue, getvalue, setparam, getparam, startjob, Finish, Call,
         Works, CanFail
<1>4. \/ values' = values
      \/ \E k, x : values' = [values EXCEPT ![k] = x]
      \/ \E k, x, l, y : values' = [[values EXCEPT ![k] = x] EXCEPT ![l] = y]
  BY DEF Script, OwnerTest, setvalue, getvalue, setparam, getparam, startjob, Finish, sessionVars,
         LastJob, Named
<1>5. values' = [k \in Keys |-> values'[k]]
  BY <1>2, <1>4
<1> QED BY <1>1, <1>2, <1>3, <1>5

\* The steps of deploy.py.  Who finds the directory made fails, but has not made it.
LEMMA DeployPlanned ==
    ASSUME IInv, FInv, NEW d \in Deployers, Deploy(d), IInv' PROVE FInv'
<1>1. /\ faults \in Nat /\ values = [k \in Keys |-> values[k]]
      /\ \A c \in Deployers : maker = c => at[c] \notin {"look", "mkdir"}
      /\ at = [c \in Deployers |-> at[c]] /\ Nobody \notin Deployers /\ Inside \subseteq Deployers
      /\ \A c \in Deployers : at[c] \in {"fill", "test", "wait"} => maker = c
      /\ frames # <<>> => maker \in Deployers /\ at[maker] = "wait"
  BY DeploymentAssumption DEF FInv, IInv, Waits
<1>2. UNCHANGED <<values, params>>
  BY DEF Deploy, Look, Refuse, Mkdir, Fill, RunTest, Verdict, CallCoreTest, testVars, sessionVars
<1>3. faults' \in Nat /\ (faults' = 0 => faults' = faults)
  <2>1. faults' = faults \/ faults' = faults + 1
    BY DEF Deploy, Look, Refuse, Mkdir, Fill, RunTest, Verdict, CallCoreTest, Call, Works, CanFail
  <2> QED BY <1>1, <2>1
<1>4. maker' = maker \/ (maker' = d /\ maker = Nobody /\ at[d] = "mkdir" /\ at' = [at EXCEPT ![d] = "fill"])
  BY DEF Deploy, Look, Refuse, Mkdir, Fill, RunTest, Verdict, CallCoreTest
<1>5. Smooth' => Smooth
  BY <1>1, <1>3, <1>4 DEF Smooth
<1> DEFINE To(l) == /\ at' = at \/ at' = [at EXCEPT ![d] = l]
                    /\ l = "mkdir" => maker = Nobody
                    /\ l # "look"
                    /\ l = "failed" => \/ maker # d \/ faults' = faults + 1
                                       \/ at[d] = "wait" /\ frames = <<>> /\ ~Good(answer)
<1>6. \E l : To(l)
  <2> HIDE DEF Good
  <2>1. CASE Look(d)
    <3>1. To("mkdir") \/ To("refused") BY <2>1 DEF Look
    <3> QED BY <3>1
  <2>2. CASE Refuse(d)
    <3>1. To("refused") BY <2>2 DEF Refuse
    <3> QED BY <3>1
  <2>3. CASE Mkdir(d)
    <3>1. maker # Nobody => maker # d BY <1>1, <2>3 DEF Mkdir
    <3>2. To("fill") \/ To("failed") BY <2>3, <3>1 DEF Mkdir
    <3> QED BY <3>2
  <2>4. CASE Fill(d)
    <3>1. To("failed") \/ To("fill") BY <2>4 DEF Fill, CanFail
    <3> QED BY <3>1
  <2>5. CASE RunTest(d)
    <3>1. To("test") \/ To("success") BY <2>5 DEF RunTest
    <3> QED BY <3>1
  <2>6. CASE Verdict(d)
    <3>1. To("success") \/ To("failed") BY <2>6 DEF Verdict
    <3> QED BY <3>1
  <2>7. CASE CallCoreTest(d)
    <3>1. To("wait") BY <2>7 DEF CallCoreTest
    <3> QED BY <3>1
  <2> HIDE DEF To
  <2> QED BY <2>1, <2>2, <2>3, <2>4, <2>5, <2>6, <2>7 DEF Deploy
<1>11. PICK l : To(l) BY <1>6
<1>7. /\ at' = at \/ at' = [at EXCEPT ![d] = l]
      /\ l = "mkdir" => maker = Nobody
      /\ l # "look"
      /\ l = "failed" => \/ maker # d \/ faults' = faults + 1
                         \/ at[d] = "wait" /\ frames = <<>> /\ ~Good(answer)
  BY <1>11
<1> HIDE DEF To
<1>8. \A c \in Deployers : at'[c] = at[c] \/ (c = d /\ at'[c] = l)
  BY <1>1, <1>7
<1>9. \A c \in Deployers : maker' = c => at'[c] \notin {"look", "mkdir"}
  BY <1>1, <1>4, <1>7, <1>8
<1>10. ASSUME Smooth'
       PROVE  /\ \A c \in Deployers : at'[c] = "failed" => maker' # c
              /\ \A c \in Deployers : maker' = c /\ at'[c] = "wait" /\ frames' = <<>> => Good(answer')
              /\ params'["prm1"] = "" /\ Planned(frames', values', params')
  <2>1. /\ \A c \in Deployers : at[c] = "failed" => maker # c
        /\ \A c \in Deployers : maker = c /\ at[c] = "wait" /\ frames = <<>> => Good(answer)
        /\ params["prm1"] = "" /\ Planned(frames, values, params) /\ faults' = faults
    BY <1>3, <1>5, <1>10 DEF FInv, Smooth
  <2>4. faults \in Nat /\ faults' = faults
    <3>1. faults \in Nat BY DEF FInv
    <3> QED BY <2>1, <3>1
  <2>2. CASE CallCoreTest(d)
    <3>1. /\ at[d] = "test" /\ at' = [at EXCEPT ![d] = "wait"] /\ maker' = maker
          /\ frames' = Append(frames, Begun("core_test"))
      <4>1. faults' # faults + 1 BY <2>4
      <4>2. ~CanFail BY <4>1 DEF CanFail
      <4> QED BY <2>2, <4>2 DEF CallCoreTest, Call
    <3>2. frames = <<>> /\ maker = d BY <1>1, <3>1
    <3> DEFINE b == Begun("core_test")
    <3>3. b.line = 1 /\ ~b.failed /\ b \in Frame
      <4>1. b.line = 1 /\ b \in Frame BY BegunFrame, ScriptNames
      <4> QED BY <4>1 DEF Begun
    <3>4. frames' = <<b>> BY <3>1, <3>2
    <3> HIDE DEF b
    <3>5. frames' # <<>> /\ DOMAIN frames' = {1} /\ frames'[1] = b /\ Len(frames') = 1
      BY <3>4
    <3>6. Session(1, values', params') BY DEF Session
    <3>7. Planned(frames', values', params') BY <3>3, <3>5, <3>6 DEF Planned
    <3>8. \A c \in Deployers : at'[c] = "failed" => maker' # c
      BY <1>1, <2>1, <3>1
    <3> QED BY <1>2, <2>1, <3>5, <3>7, <3>8
  <2>3. CASE ~CallCoreTest(d)
    <3>1. UNCHANGED <<frames, answer>>
      BY <2>3 DEF Deploy, Look, Refuse, Mkdir, Fill, RunTest, Verdict, testVars
    <3>2. Planned(frames', values', params') /\ params'["prm1"] = ""
      BY <1>2, <2>1, <3>1
    <3>3. faults' # faults + 1 BY <2>4
    <3>4. \A c \in Deployers : at'[c] = "wait" => at[c] = "wait"
      BY <1>1, <2>3 DEF Deploy, Look, Refuse, Mkdir, Fill, RunTest, Verdict
    <3>5. \A c \in Deployers : maker' = c /\ at'[c] = "wait" /\ frames' = <<>> => Good(answer')
      <4>1. \A c \in Deployers : maker' = c /\ at'[c] = "wait" => maker = c /\ at[c] = "wait"
        BY <1>1, <1>4, <3>4
      <4> HIDE DEF Good
      <4>2. Good(answer) <=> Good(answer') BY <3>1 DEF Good
      <4> QED BY <2>1, <3>1, <4>1, <4>2
    <3>6. \A c \in Deployers : at'[c] = "failed" => maker' # c
      <4> SUFFICES ASSUME NEW c \in Deployers, at'[c] = "failed" PROVE maker' # c
        OBVIOUS
      <4>1. CASE at[c] = "failed"
        <5>1. maker # c BY <2>1, <4>1
        <5>2. c # d \/ maker' = maker BY <1>4, <4>1
        <5> QED BY <1>4, <5>1, <5>2
      <4>2. CASE at[c] # "failed"
        <5>1. c = d /\ l = "failed" BY <1>8, <4>2
        <5>2. maker # d
          BY <1>7, <2>1, <3>3, <5>1
        <5>3. maker' = maker
          BY <1>1, <1>4, <4>2, <5>1
        <5> QED BY <5>1, <5>2, <5>3
      <4> QED BY <4>1, <4>2
    <3> QED BY <3>2, <3>5, <3>6
  <2> QED BY <2>2, <2>3
<1> QED BY <1>1, <1>2, <1>3, <1>9, <1>10 DEF FInv

\* FInv is inductive, beside IInv.
LEMMA FInvInit == Init => FInv
<1> SUFFICES ASSUME Init PROVE FInv
  OBVIOUS
<1>1. frames = <<>> /\ DOMAIN frames = {}
  <2>1. frames = <<>> BY DEF Init
  <2> QED BY <2>1
<1>2. Planned(frames, values, params) BY <1>1 DEF Planned
<1>3. params["prm1"] = "" BY DEF Init, Params
<1>4. \A d \in Deployers : at[d] = "look" /\ maker # d BY DeploymentAssumption DEF Init
<1>5. faults \in Nat /\ values = [k \in Keys |-> values[k]] BY DEF Init
<1> QED BY <1>2, <1>3, <1>4, <1>5 DEF FInv

LEMMA FInvNext == ASSUME IInv, IInv', FInv, [Next]_vars PROVE FInv'
<1>1. CASE UNCHANGED vars
  <2>1. UNCHANGED <<at, maker, frames, values, params, answer, faults>>
    BY <1>1 DEF vars, testVars, sessionVars
  <2> QED BY <2>1 DEF FInv, Smooth, Planned, Session, Passing, Good
<1>2. CASE Script
  <2>1. /\ faults' \in Nat /\ (faults' = 0 => faults' = faults)
        /\ values' = [k \in Keys |-> values'[k]] /\ UNCHANGED <<at, maker>>
    BY <1>2, ScriptFaults
  <2>2. ASSUME Smooth'
        PROVE  /\ Planned(frames', values', params') /\ (frames' = <<>> => Good(answer'))
               /\ params'["prm1"] = "" /\ \A d \in Deployers : at[d] = "failed" => maker # d
    <3>1. Smooth /\ faults' = faults BY <2>1, <2>2 DEF Smooth
    <3> QED BY <1>2, <3>1, ScriptPlanned DEF FInv
  <2>3. \A d \in Deployers : maker = d => at[d] \notin {"look", "mkdir"}
    BY DEF FInv
  <2>4. /\ faults' \in Nat /\ values' = [k \in Keys |-> values'[k]]
        /\ \A d \in Deployers : maker' = d => at'[d] \notin {"look", "mkdir"}
    BY <2>1, <2>3
  <2>5. ASSUME Smooth'
        PROVE  /\ \A d \in Deployers : at'[d] = "failed" => maker' # d
               /\ \A d \in Deployers : maker' = d /\ at'[d] = "wait" /\ frames' = <<>> => Good(answer')
               /\ params'["prm1"] = "" /\ Planned(frames', values', params')
    <3> HIDE DEF Good, Planned
    <3> QED BY <2>1, <2>2, <2>5
  <2> QED BY <2>4, <2>5 DEF FInv
<1>3. ASSUME NEW d \in Deployers, Deploy(d) PROVE FInv'
  BY <1>3, DeployPlanned
<1> QED BY <1>1, <1>2, <1>3 DEF Next

\* If a deployment is called a failure, there was one: a call failed, for
\* whatever reason, another run of deploy.py was faster, or a job's script ran
\* it in its own session.  The values, parameters and codes of core_test and of
\* the two jobs it starts agree otherwise, line by line (prepare_params, the
\* values left by startjob, cis.py).
THEOREM NoFalseAlarm == Spec => []FailureHasCause
<1>1. IInv /\ FInv => FailureHasCause
  <2> SUFFICES ASSUME IInv, FInv, NEW d \in Deployers, at[d] = "failed", faults = 0, maker = d,
                      d \notin Inside
               PROVE  FALSE
    <3>1. faults \in Nat => (faults > 0 <=> faults # 0) OBVIOUS
    <3> QED BY <3>1 DEF FInv, FailureHasCause
  <2> QED BY DEF FInv, Smooth
<1> QED BY <1>1, IInvAlways, FInvInit, FInvNext, PTL DEF Spec
=============================================================================
