------------------------- MODULE MCPcAudioStreamer -------------------------
(* PcAudioStreamer for TLC; the .cfg files give the constants.             *)
EXTENDS PcAudioStreamer
=============================================================================
