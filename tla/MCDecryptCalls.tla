--------------------------- MODULE MCDecryptCalls ---------------------------
(***************************************************************************)
(* Two goroutines on one session, a window of three counters and counters  *)
(* up to almost three windows: jumps below, of exactly and beyond          *)
(* WindowSize all occur, and so do late counters at every distance.        *)
(***************************************************************************)
EXTENDS DecryptCalls
=============================================================================
