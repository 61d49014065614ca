----------------------------- MODULE MCPipeData -----------------------------
(* Small values for PipeKernel: P1 and a child that may be forked again, one  *)
(* pipe of two slots, two bytes to tell apart, and calls that ask for up to   *)
(* three bytes.  Only a broken pipe makes a process exit.                     *)
EXTENDS PipeKernel

MCProcBase == 100
MCNone == {}
MCBytes == {1, 2}
MCPipeBase == 1000
=============================================================================
