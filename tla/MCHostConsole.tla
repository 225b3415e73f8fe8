--------------------------- MODULE MCHostConsole ---------------------------
(* HostConsole for TLC.                                                    *)
EXTENDS HostConsole
=============================================================================
