------------------------ MODULE MCDongleApplication ------------------------
(* DongleApplication for TLC; the .cfg files give the constants.           *)
EXTENDS DongleApplication
=============================================================================
