----------------------------- MODULE MCMidterm -----------------------------
(* Small values for Midterm: the segments of 5-midterm, one pipe of one byte, *)
(* and a typed event that is the one readers sleep on.  Every program is u1,  *)
(* as MCForkExec has exec; the exit value is that of a broken pipe.  It       *)
(* extends the proofs so that their assumptions are evaluated too.            *)
EXTENDS MidtermProofs

MCProcBase == 100
MCPipeBase == 1000
MCUserEvents == {MCPipeBase}
MCExitValues == {13}
MCPrograms == {"u1"}
MCCommandLines == {[file |-> "nosuch", len |-> 6]}
MCBytes == {1}
=============================================================================
