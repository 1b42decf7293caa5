------------------------------ MODULE JobRunner ------------------------------
(***************************************************************************)
(* Running the script of a build: job_runner and the callbacks job::execute *)
(* gives it.                                                                *)
(*                                                                          *)
(* The script runs with stdout and stderr connected to two pipes.  One      *)
(* io_context serves three things in whatever order they come: the line     *)
(* handler of each pipe, and the exit of the child.  Lines go to output.txt *)
(* as they are read, the exit code to exitcode.txt.  io_context::run        *)
(* returns when all three have ended; a pipe ends when the last process     *)
(* that holds it has closed it, which may be long after the child exited.   *)
(***************************************************************************)
EXTENDS Naturals, Sequences, SequencesExt

CONSTANTS
    Chars,          \* characters other than the newline
    NL,             \* the newline
    MaxText,        \* bound: longest text the script writes to a stream
    PipeSize        \* what a pipe holds before its writer blocks

ASSUME RunnerAssumption ==
    NL \notin Chars /\ MaxText \in Nat /\ PipeSize \in Nat \ {0}

Streams == {"out", "err"}
Text == SeqOf(Chars \cup {NL}, MaxText)

VARIABLES
    text,           \* text[s]: all that the script writes to stream s
    rest,           \* rest[s]: what it has yet to write
    pipe,           \* pipe[s]: written, not yet read
    writer,         \* writer[s]: some process holds the write end
    turn,           \* the stream the script writes to, or closes, next
    buf,            \* buf[s]: read, not yet handed to the line handler
    reading,        \* reading[s]: async_read_until is pending on s
    lines,          \* lines[s]: the lines of s in output.txt
    child,          \* "running", "exited", "unlaunched"
    exitCb          \* "pending", then what the exit callback did

scriptVars == <<text, rest, writer, turn, child>>
runnerVars == <<pipe, buf, reading>>
vars == <<scriptVars, runnerVars, lines, exitCb>>

TypeOK ==
    /\ text \in [Streams -> Text] /\ rest \in [Streams -> Text]
    /\ pipe \in [Streams -> Text] /\ \A s \in Streams : Len(pipe[s]) <= PipeSize
    /\ turn \in Streams
    /\ writer \in [Streams -> BOOLEAN] /\ reading \in [Streams -> BOOLEAN]
    /\ buf \in [Streams -> Text]
    /\ \A s \in Streams : lines[s] \in Seq(Seq(Chars))
    /\ child \in {"running", "exited", "unlaunched"}
    /\ exitCb \in {"pending", "written", "unwritten", "failed"}

\* The child is launched with the write ends of both pipes, or not: then it
\* writes nothing and holds no pipe.
async_system ==
    \/ child = "running" /\ writer = [s \in Streams |-> TRUE]
    \/ /\ child = "unlaunched" /\ writer = [s \in Streams |-> FALSE]
       /\ text = [s \in Streams |-> <<>>]

\* run: the child is launched and both reads are started.
Init ==
    /\ text \in [Streams -> Text]
    /\ rest = text
    /\ turn \in Streams
    /\ pipe = [s \in Streams |-> <<>>]
    /\ buf = [s \in Streams |-> <<>>]
    /\ reading = [s \in Streams |-> TRUE]
    /\ lines = [s \in Streams |-> <<>>]
    /\ async_system
    /\ exitCb = "pending"

-----------------------------------------------------------------------------
(* The script, and processes it leaves behind: the write and close calls,  *)
(* made one after the other; a call that finds the pipe full waits.        *)

\* The next stream, among those that are open.
NextTurn == turn' \in Streams /\ (writer' # [s \in Streams |-> FALSE] => writer'[turn'])

Write(s) ==
    /\ turn = s /\ writer[s] /\ rest[s] # <<>>
    /\ Len(pipe[s]) < PipeSize
    /\ pipe' = [pipe EXCEPT ![s] = Append(@, Head(rest[s]))]
    /\ rest' = [rest EXCEPT ![s] = Tail(@)]
    /\ UNCHANGED <<text, writer, child, buf, reading, lines, exitCb>>
    /\ NextTurn

Close(s) ==
    /\ turn = s /\ writer[s] /\ rest[s] = <<>>
    /\ writer' = [writer EXCEPT ![s] = FALSE]
    /\ UNCHANGED <<text, rest, child, pipe, buf, reading, lines, exitCb>>
    /\ NextTurn

\* The child may exit before its output is complete: a process it started in
\* the background goes on writing.
Exit ==
    /\ child = "running"
    /\ child' = "exited"
    /\ UNCHANGED <<text, rest, writer, turn, pipe, buf, reading, lines, exitCb>>

-----------------------------------------------------------------------------
(* The handlers                                                            *)

HasLine(b) == NL \in Range(b)

\* async_read_until takes any part of what is in the pipe while its buffer
\* holds no newline.
Read(s) ==
    /\ reading[s] /\ ~HasLine(buf[s])
    /\ \E n \in 1..Len(pipe[s]) :
        /\ buf' = [buf EXCEPT ![s] = @ \o SubSeq(pipe[s], 1, n)]
        /\ pipe' = [pipe EXCEPT ![s] = SubSeq(@, n + 1, Len(@))]
    /\ UNCHANGED <<scriptVars, reading, lines, exitCb>>

\* The first n characters of a buffer.
make_string(b, n) == SubSeq(b, 1, n)

\* Variant: the rest of the buffer is consumed too.
LineForgetsRest(s) ==
    /\ reading[s] /\ HasLine(buf[s])
    /\ \E n \in 1..Len(buf[s]) :
        /\ buf[s][n] = NL
        /\ \A i \in 1..(n - 1) : buf[s][i] # NL
        /\ lines' = [lines EXCEPT ![s] = Append(@, make_string(buf[s], n - 1))]
        /\ buf' = [buf EXCEPT ![s] = <<>>]
    /\ UNCHANGED <<scriptVars, pipe, reading, exitCb>>

\* The line handlers, without error: hand on the text before the first
\* newline, drop the newline too, read on.
LineRead(s) ==
    /\ reading[s] /\ HasLine(buf[s])
    /\ \E n \in 1..Len(buf[s]) :
        /\ buf[s][n] = NL
        /\ \A i \in 1..(n - 1) : buf[s][i] # NL
        /\ lines' = [lines EXCEPT ![s] = Append(@, make_string(buf[s], n - 1))]
        /\ buf' = [buf EXCEPT ![s] = SubSeq(@, n + 1, Len(@))]
    /\ UNCHANGED <<scriptVars, pipe, reading, exitCb>>

\* Variant: reading ends with the child.
AtChildExit(s) == reading[s] /\ ~HasLine(buf[s]) /\ child # "running"

AtEof(s) == reading[s] /\ ~HasLine(buf[s]) /\ pipe[s] = <<>> /\ ~writer[s]

\* At the end of stdout what is left in the buffer is a line, even when
\* nothing is left.
OutEof ==
    /\ AtEof("out")
    /\ lines' = [lines EXCEPT !["out"] = Append(@, buf["out"])]
    /\ buf' = [buf EXCEPT !["out"] = <<>>]
    /\ reading' = [reading EXCEPT !["out"] = FALSE]
    /\ UNCHANGED <<scriptVars, pipe, exitCb>>

\* Variant: the end of the stream does not stop the reading.
ErrEofReadsOn ==
    /\ AtEof("err")
    /\ UNCHANGED vars

\* At the end of stderr the rest is only handed on when bytes_transferred is
\* not zero, but async_read_until reports zero bytes with every error.
ErrEof ==
    /\ AtEof("err")
    /\ reading' = [reading EXCEPT !["err"] = FALSE]
    /\ UNCHANGED <<scriptVars, pipe, buf, lines, exitCb>>

\* execute's on-exit callback: the launch failed, or exitcode.txt is written,
\* or it cannot be opened.
ExitHandler ==
    /\ exitCb = "pending"
    /\ \/ child = "unlaunched" /\ exitCb' = "failed"
       \/ child = "exited" /\ exitCb' \in {"written", "unwritten"}
    /\ UNCHANGED <<scriptVars, pipe, buf, reading, lines>>

\* io_context::run has returned.
Returned == exitCb # "pending" /\ \A s \in Streams : ~reading[s]

Done == Returned /\ UNCHANGED vars

Script == Exit \/ \E s \in Streams : Write(s) \/ Close(s)
Handlers == ExitHandler \/ OutEof \/ ErrEof \/ \E s \in Streams : Read(s) \/ LineRead(s)

Next == Script \/ Handlers \/ Done

Spec == Init /\ [][Next]_vars

\* The io_context serves what is ready; scripts, and what they leave running,
\* write what they have to write and end.
FairSpec == Spec /\ WF_vars(Handlers) /\ WF_vars(Exit)
            /\ \A s \in Streams : WF_vars(Write(s)) /\ WF_vars(Close(s))

-----------------------------------------------------------------------------
(* Properties                                                              *)

\* The text that a sequence of lines stands for.
Unlines(ls) == FlattenSeq([i \in DOMAIN ls |-> Append(ls[i], NL)])

\* Wherever the script's writes, the reads and the line handlers are
\* interrupted, and however the text is cut into reads: each character is in
\* output.txt, in the buffer, in the pipe or still to be written, once and in
\* order (the line handlers' use of bytes_transferred and consume).
NothingLost ==
    \A s \in Streams :
        reading[s] => Unlines(lines[s]) \o buf[s] \o pipe[s] \o rest[s] = text[s]

\* When run has returned output.txt has all of stdout, the last line ended by a
\* newline of its own, and all complete lines of stderr (on_out_line_read,
\* on_err_line_read).
OutputComplete ==
    Returned => /\ Unlines(lines["out"]) = Append(text["out"], NL)
                /\ Unlines(lines["err"]) \o buf["err"] = text["err"]
                /\ ~HasLine(buf["err"])

\* Output does not block the script for ever on one pipe while the other is
\* read: every run ends, whatever the pipes hold (run_impl's two reads).
RunEnds == <>Returned
=============================================================================
