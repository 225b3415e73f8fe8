-------------------------- MODULE MCAudioPlayback --------------------------
(* AudioPlayback for TLC; the .cfg files give the constants.               *)
EXTENDS AudioPlayback
=============================================================================
