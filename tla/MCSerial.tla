------------------------------ MODULE MCSerial ------------------------------
(* Small values for SerialKernel: P1 and two more that may read lines from a  *)
(* buffer of two characters; two different ones, and one that ends a line.    *)
EXTENDS SerialKernel

CONSTANTS a, b, cr

MCNone == {}
MCProcBase == 100
MCExitValues == {0}
MCChars == {a, b, cr}
MCLineEnds == {cr}
=============================================================================
