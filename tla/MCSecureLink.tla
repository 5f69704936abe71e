---------------------------- MODULE MCSecureLink ----------------------------
(***************************************************************************)
(* A controller and a device that use the same session identifier, so that *)
(* a frame can also come back to its sender.                               *)
(***************************************************************************)
EXTENDS SecureLink

CONSTANTS controller, device

MCRole == [m \in Manager |-> IF m = controller THEN "Initiator" ELSE "Responder"]

MCLocalID == [m \in Manager |-> 1]
=============================================================================
