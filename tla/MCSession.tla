----------------------------- MODULE MCSession -----------------------------
(* Small values for Session: two terminals, on the first of which pipelines  *)
(* of two and three are typed, with and without redirections: one in whose   *)
(* middle a command reads a file instead of the pipe, so that the first may  *)
(* be left alone, and one with a last command that is not found, which then  *)
(* reads lines from the pipe.  On the second terminal users only log in and  *)
(* out.  With five PROCs forks fail in every program.                        *)
EXTENDS Session

Plain == [found |-> TRUE, form |-> "plain"]
In == [found |-> TRUE, form |-> "in"]
Out == [found |-> TRUE, form |-> "out"]
Typo == [found |-> FALSE, form |-> "plain"]

MCLines == <<{<<In, Typo>>, <<Plain, In, Out>>}, {}>>
MCData == {<<Plain>>}
=============================================================================
