------------------------- MODULE MCHostTransactions -------------------------
(* HostTransactions for TLC; HostTransactions.cfg gives the constants.     *)
EXTENDS HostTransactions

CONSTANTS info, status

(* GET_INFO is sent again, AUDIO_STATUS is not.                            *)
RetriesOf == info :> 1 @@ status :> 0
=============================================================================
