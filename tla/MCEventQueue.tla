---------------------------- MODULE MCEventQueue ----------------------------
(* EventQueue for TLC; EventQueue.cfg gives the constants. *)
EXTENDS EventQueue
=============================================================================
