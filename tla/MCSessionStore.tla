--------------------------- MODULE MCSessionStore ---------------------------
(* Instances of SessionStore for TLC. *)
EXTENDS SessionStore

CONSTANTS c1, c2, c3

ThreeClients == {c1, c2, c3}

\* The key of a script's own value lies between those of startjob's pair.
OwnKey == 2

\* setvalue sets one value; startjob sets its name, then its number.
SetValue == {<< <<OwnKey, v>> >> : v \in {0, 2}}
StartJob == {LastJob(v) : v \in {1, 2}}
Mixed == SetValue \cup StartJob
=============================================================================
