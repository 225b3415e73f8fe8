--------------------------- MODULE MCNetworkTests ---------------------------
(* NetworkTests for TLC; it has no constants.                              *)
EXTENDS NetworkTests
=============================================================================
