----------------------------- MODULE MCCronTable -----------------------------
(* Instances of CronTable for TLC. *)
EXTENDS CronTable, TLC

CONSTANTS p1, p2, d1, d2

OneClient == {p1}
TwoClients == {p1, p2}
OneDaemon == {d1}
TwoDaemons == {d1, d2}

\* An expression of two fields, and one that is too short.
Good == <<"e", "sp", "e">>
Short == <<"e">>
GoodExprs == {Good}

\* Job names: short, long, with a space, and beginning with one, which ends the
\* table as an empty name does.
J == <<"j">>
LongJ == <<"j", "j", "j">>
SpacedJ == <<"j", "sp", "j">>
SpaceJ == <<"sp", "j">>

Cmd(o, j, x) == [op |-> o, job |-> j, expr |-> x]

SomeCommands == {Cmd("add", J, Good), Cmd("add", LongJ, Good), Cmd("add", SpacedJ, Good),
                 Cmd("add", SpaceJ, Good),
                 Cmd("add", J, Short),
                 Cmd("del", J, Good), Cmd("list", J, Good)}
SpacedOrPlain == {Cmd("add", J, Good), Cmd("add", SpacedJ, Good)}

SomeTables == {{}, {[job |-> J, expr |-> Good]},
               {[job |-> J, expr |-> Good], [job |-> LongJ, expr |-> Good]}}
EmptyTable == {{}}

Symmetry == Permutations(TwoClients) \cup Permutations(TwoDaemons)
=============================================================================
