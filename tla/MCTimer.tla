------------------------------- MODULE MCTimer -------------------------------
(* Small values for TimerKernel.  Nothing is typed at this kernel's processes *)
(* but the time of kitimer: timers may be equal, go between two others, or   *)
(* be due when they are asked for; 65535 is -1.                              *)
EXTENDS TimerKernel

MCNone == {}
MCProcBase == 100
MCTqBase == 200
MCExitValues == {0}
MCTimes == {-1, 0, 1, 2, 3}
=============================================================================
