---------------------------- MODULE MCProcKernel ----------------------------
(* Small values for ProcKernel: P0, P1 and three more processes, because a    *)
(* grandparent that is not P1, a parent and its dead child are needed before  *)
(* an exit hands P1 a dead child while P1 waits for another.  Typed events    *)
(* are left to MCForkExec.  The module extends the proofs so that their       *)
(* assumption is evaluated here.                                              *)
EXTENDS ProcKernelProofs

MCProcBase == 100
MCUserPids == {0, 2, NPROC}
MCUserPris == {0, 2}
MCExitValues == {3}
=============================================================================
