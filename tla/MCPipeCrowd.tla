---------------------------- MODULE MCPipeCrowd ----------------------------
(* Small values for PipeKernel: three processes on one pipe of one slot, so   *)
(* that two readers or two writers sleep while the third one acts.  Nobody    *)
(* exits of its own accord; a broken pipe still kills.                        *)
EXTENDS PipeKernel

MCProcBase == 100
MCNone == {}
MCPipeBase == 1000
=============================================================================
