------------------------ MODULE MCControllerProcess -------------------------
(***************************************************************************)
(* One controller program and the device, with model values.               *)
(***************************************************************************)
EXTENDS ControllerProcess

CONSTANTS c1, c2, device, good, bad
=============================================================================
