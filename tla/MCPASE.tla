------------------------------- MODULE MCPASE -------------------------------
(***************************************************************************)
(* PASE with model values for the parties and the passcodes.               *)
(***************************************************************************)
EXTENDS PASE

CONSTANTS c1, c2, device, good, bad
=============================================================================
