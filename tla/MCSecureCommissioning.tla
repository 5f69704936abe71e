----------------------- MODULE MCSecureCommissioning ------------------------
(***************************************************************************)
(* SecureCommissioning with model values for the parties and passcodes.    *)
(* The controllers run the same program and know the same passcode, so     *)
(* they can be exchanged; all that is checked is safety.                   *)
(***************************************************************************)
EXTENDS SecureCommissioning, TLC

CONSTANTS c1, c2, device, good, bad

ControllersAlike == Permutations(Commissioners)
=============================================================================
