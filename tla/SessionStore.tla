----------------------------- MODULE SessionStore -----------------------------
(***************************************************************************)
(* The values of a session: sessions/<id>.dat.                             *)
(*                                                                         *)
(* setvalue, and startjob when it ends inside a session, read the file     *)
(* into a map, open it anew, which empties it, and write the changed map   *)
(* back; getvalue reads it.  Nothing locks the file: all processes of the  *)
(* session do this at once.  Every rewrite is written at the start of the  *)
(* file in one piece, over whatever another process put there meanwhile.   *)
(* The parameters in <id>.prm are rewritten by set_param in the same way.  *)
(*                                                                         *)
(* The bytes matter here, because the shorter of two rewrites leaves the   *)
(* tail of the longer one behind it; the letters do not.  A key or a value *)
(* (in its encoded form, without "=" or newline) is its length, and its    *)
(* text is that many x.                                                    *)
(***************************************************************************)
EXTENDS Naturals, Sequences, FiniteSets, SequencesExt

CONSTANTS
    Clients,        \* processes of the session
    Programs,       \* the sets a process makes, in order: sequences of
                    \* <<key, value>>
    NameKey, NumberKey, \* "last_job_name", "last_job_build_number"
    Kills           \* TRUE: a process may be killed, or fail to open the file

Sets == UNION {Range(prg) : prg \in Programs}

ASSUME StoreAssumption ==
    /\ \A prg \in Programs : prg \in Seq((Nat \ {0}) \X Nat) /\ prg # <<>>
    /\ {NameKey, NumberKey} \subseteq Nat \ {0} /\ NameKey # NumberKey
    /\ Kills \in BOOLEAN

VARIABLES
    file,           \* the bytes of the file; a missing file reads as an empty one
    prog,           \* prog[p]: what client p has to set
    at,             \* at[p]: the position in prog[p]
    pc,             \* pc[p]: where client p is in set_value
    loaded,         \* loaded[p]: the map it read
    stored,         \* history: the pairs whose set completed
    latest,         \* history: latest[k]: the value set_value last wrote for k
    raced,          \* history: two sets overlapped, or one was cut in half
    overlaid,       \* history: a rewrite was shorter than what it was written over
    mixed           \* history: two clients' programs overlapped

clientVars == <<prog, at, pc, loaded>>
histVars == <<stored, latest, raced, overlaid, mixed>>
vars == <<file, clientVars, histVars>>

Keys == {s[1] : s \in Sets}

-----------------------------------------------------------------------------
(* The file                                                                *)

Text(n) == [i \in 1..n |-> "x"]
Pair(k, v) == Text(k) \o <<"=">> \o Text(v)

Newlines(f) == {i \in DOMAIN f : f[i] = "nl"}

Lines(f) == {SubSeq(f, Max({0} \cup {i \in Newlines(f) : i < j}) + 1, j - 1) : j \in Newlines(f)}

\* What read_istream_kv_str makes of a line: nothing of an empty one, an error
\* of one that begins with "=", a pair of one with a key.  What it makes of one
\* without "=" nothing here shows; it may refuse it.  No line has two.
Equals(l) == {i \in DOMAIN l : l[i] = "="}
Malformed(f) == \E l \in Lines(f) : 1 \in Equals(l)
Refusable(f) == Malformed(f) \/ \E l \in Lines(f) : l # <<>> /\ Equals(l) = {}
Pairs(f) == UNION {{<<i - 1, Len(l) - i>> : i \in Equals(l)} : l \in Lines(f)}

\* The maps a reader may end with; which of two lines with the same key wins
\* is the library's choice.
Maps(f) ==
    LET ps == Pairs(f)
        ks == {kv[1] : kv \in ps}
    IN  {m \in [ks -> {kv[2] : kv \in ps}] : \A k \in ks : <<k, m[k]>> \in ps}

\* get_value: a key that is not there reads as the empty text.
Results(f, k) == {IF k \in DOMAIN m THEN m[k] ELSE 0 : m \in Maps(f)}

\* The keys of a map, in the map's order.
InOrder(ks) ==
    [i \in 1 .. Cardinality(ks) |-> CHOOSE k \in ks : Cardinality({j \in ks : j < k}) = i - 1]

\* The keys of a rewritten file: the old ones, and a new one after them.
Order(m, k) == InOrder(DOMAIN m) \o IF k \in DOMAIN m THEN <<>> ELSE <<k>>

\* Variants: only the new pair is written; every key gets the new value.
RewriteOnly(m, k, v) == Pair(k, v) \o <<"nl">>

RewriteAll(m, k, v) ==
    FlattenSeq([i \in DOMAIN Order(m, k) |-> Pair(Order(m, k)[i], v) \o <<"nl">>])

\* The rewritten file, a line for each key.
Rewrite(m, k, v) ==
    LET value(x) == IF x = k THEN v ELSE m[x]
        line(x) == Pair(x, value(x)) \o <<"nl">>
    IN  FlattenSeq([i \in DOMAIN Order(m, k) |-> line(Order(m, k)[i])])

Overlay(f, g) == g \o SubSeq(f, Len(g) + 1, Len(f))

\* What a startjob that did not open the session sets when it ends: its job's
\* name and its build's number.
LastJob(job) == << <<NameKey, job>>, <<NumberKey, job>> >>

-----------------------------------------------------------------------------
Bytes == {"x", "=", "nl"}

TypeOK ==
    /\ file \in Seq(Bytes)
    /\ file = <<>> \/ Last(file) = "nl"
    /\ prog \in [Clients -> Programs]
    /\ \A p \in Clients : at[p] \in 1..(Len(prog[p]) + 1)
    /\ pc \in [Clients -> {"ready", "loaded", "truncated", "failed"}]
    /\ \A p \in Clients : DOMAIN loaded[p] \subseteq Nat \ {0} /\ Range(loaded[p]) \subseteq Nat
    /\ stored \subseteq Sets
    /\ latest \in [Keys -> Nat]
    /\ {raced, overlaid, mixed} \subseteq BOOLEAN

Init ==
    /\ file = <<>>
    /\ prog \in [Clients -> Programs]
    /\ at = [p \in Clients |-> 1]
    /\ pc = [p \in Clients |-> "ready"]
    /\ loaded = [p \in Clients |-> <<>>]
    /\ stored = {}
    /\ latest = [k \in Keys |-> 0]
    /\ raced = FALSE /\ overlaid = FALSE /\ mixed = FALSE

Moves(p, from, to) == pc[p] = from /\ pc' = [pc EXCEPT ![p] = to]

Ended(p) == at[p] > Len(prog[p])
InSet(p) == pc[p] \in {"loaded", "truncated"}
Begun(p) == ~Ended(p) /\ (at[p] > 1 \/ InSet(p))

\* Variant: the error of the read is not looked at.
LoadAnything(p) ==
    /\ Moves(p, "ready", "loaded")
    /\ ~Ended(p)
    /\ \E m \in Maps(file) : loaded' = [loaded EXCEPT ![p] = m]
    /\ raced' = (raced \/ \E q \in Clients \ {p} : InSet(q))
    /\ mixed' = (mixed \/ \E q \in Clients \ {p} : Begun(q))
    /\ UNCHANGED <<file, prog, at, stored, latest, overlaid>>

Load(p) ==
    /\ Moves(p, "ready", "loaded")
    /\ ~Ended(p)
    /\ ~Malformed(file)
    /\ \E m \in Maps(file) : loaded' = [loaded EXCEPT ![p] = m]
    /\ raced' = (raced \/ \E q \in Clients \ {p} : InSet(q))
    /\ mixed' = (mixed \/ \E q \in Clients \ {p} : Begun(q))
    /\ UNCHANGED <<file, prog, at, stored, latest, overlaid>>

\* The set fails and the process ends with an error.
LoadRefused(p) ==
    /\ Moves(p, "ready", "failed")
    /\ ~Ended(p)
    /\ Refusable(file)
    /\ UNCHANGED <<file, prog, at, loaded, histVars>>

Truncate(p) ==
    /\ Moves(p, "loaded", "truncated")
    /\ file' = <<>>
    /\ UNCHANGED <<prog, at, loaded, histVars>>

\* The stream is flushed when it is closed.
Store(p) ==
    /\ Moves(p, "truncated", "ready")
    /\ LET k == prog[p][at[p]][1]
           v == prog[p][at[p]][2]
           new == Rewrite(loaded[p], k, v)
       IN  /\ file' = Overlay(file, new)
           /\ stored' = stored \cup {<<k, v>>}
           /\ latest' = [latest EXCEPT ![k] = v]
           /\ overlaid' = (overlaid \/ Len(file) > Len(new))
    /\ at' = [at EXCEPT ![p] = @ + 1]
    /\ UNCHANGED <<prog, loaded, raced, mixed>>

Kill(p) ==
    /\ Kills
    /\ ~Ended(p) /\ pc[p] # "failed"
    /\ pc' = [pc EXCEPT ![p] = "failed"]
    /\ raced' = (raced \/ pc[p] = "truncated")
    /\ UNCHANGED <<file, prog, at, loaded, stored, latest, overlaid, mixed>>

AllEnded == \A p \in Clients : Ended(p) \/ pc[p] = "failed"

Done == AllEnded /\ UNCHANGED vars

Next ==
    \/ \E p \in Clients : Load(p) \/ LoadRefused(p) \/ Truncate(p) \/ Store(p) \/ Kill(p)
    \/ Done

Spec == Init /\ [][Next]_vars

-----------------------------------------------------------------------------
(* Properties                                                              *)

\* As long as sets do not overlap and none is cut in half, the file says of
\* every key what was last set for it, whatever was set before and in
\* whatever order: reading, changing and rewriting the map loses nothing
\* (set_value's loop and its found flag).
Durable ==
    ~raced /\ (\A p \in Clients : pc[p] # "truncated") =>
        /\ ~Refusable(file)
        /\ \A k \in Keys : Results(file, k) = {latest[k]}

\* Sets that overlap may lose values, but a reader never sees a pair nobody
\* set, nor a file it cannot read, at any moment; unless a rewrite was shorter
\* than what another process had written since it emptied the file
\* (set_value's trunc, get_value).
NothingInvented ==
    ~overlaid => ~Refusable(file) /\ Pairs(file) \subseteq stored

Poisoned == Malformed(file) /\ \A p \in Clients : ~InSet(p)

\* Once the file does not parse and no set is under way, it is so for ever:
\* each later set fails before it empties the file (set_value's read).
PoisonStays == [][Poisoned => Poisoned']_vars

\* A startjob that ends inside the session sets two values, its job's name and
\* its build's number.  Unless two of them overlapped, or one was cut short,
\* the two belong to the same job (startjob's main).
SamePair ==
    ~mixed /\ (\A p \in Clients : ~Begun(p)) =>
        Results(file, NameKey) = Results(file, NumberKey)
=============================================================================
