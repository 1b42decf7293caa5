----------------------------- MODULE MCPrograms -----------------------------
(* Instances of Programs for TLC. *)
EXTENDS Programs

CONSTANTS root, child

Both == {root, child}

How(prog, h, n) == [program |-> prog, how |-> h, words |-> n]

\* Every program by the script, one detached and one outside of it, with as many
\* arguments as it wants and with fewer.
AllStarts ==
    {How(prog, "attached", 2) :
        prog \in {"startjob", "setvalue", "getvalue", "getparam", "cis_cron_daemon"}}
    \cup {How(prog, "attached", 3) : prog \in {"setparam", "maintenance"}}
    \cup {How("cis_cron", "attached", n) : n \in {2, 3, 4}}
    \cup {How("setvalue", h, 3) : h \in {"alone", "detached"}}
=============================================================================
