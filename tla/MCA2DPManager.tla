---------------------------- MODULE MCA2DPManager ----------------------------
(***************************************************************************)
(* Instances of A2DPManager for TLC; the .cfg files give the constants.    *)
(*                                                                         *)
(* The temporal runs leave out the commands that touch nothing but the     *)
(* tone, the audio stream, the cache and Classic: no temporal property     *)
(* reads any of these, and no other action depends on them, except that    *)
(* the cache chooses between the two automatic connects; it starts empty   *)
(* or filled, and a session fills it.                                      *)
(***************************************************************************)
EXTENDS A2DPManager

SessionCommands ==
  \/ ConnectByAddress \/ ConnectByName
  \/ ConnectAutoCached \/ ConnectAutoByName \/ Disconnect

SessionNext == SessionCommands \/ Update \/ Library \/ Clock

SessionSpec == Init /\ [][SessionNext]_vars /\ Fairness
=============================================================================
