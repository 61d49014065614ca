----------------------------- MODULE MCPipeEnds -----------------------------
(* Small values for PipeKernel: two pipes that compete for descriptors and    *)
(* processes that are forked, die and are forked again.  Nothing is written,  *)
(* so that every reader sleeps until it is woken for another reason.          *)
EXTENDS PipeKernel

MCProcBase == 100
MCNone == {}
MCExitValues == {3}
MCPipeBase == 1000
=============================================================================
