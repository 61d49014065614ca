----------------------------- MODULE MCForkExec -----------------------------
(* Small values for ForkExec: the segments of 4-fork-exec, one more to hop    *)
(* to, command lines of odd and of even length and one for a missing file.    *)
(* The module extends the proofs so that their assumptions are evaluated.     *)
EXTENDS ForkExecProofs

MCProcBase == 100
MCUserEvents == {MCProcBase + 1}
MCUserPids == {2}
MCUserPris == {1}
MCExitValues == {3}
MCPrograms == {"u1", "u2"}
MCCommandLines == {[file |-> "u2", len |-> 2], [file |-> "u2", len |-> 5],
                   [file |-> "nosuch", len |-> 6]}
MCHopSegments == {6 * SEGSIZE}
=============================================================================
