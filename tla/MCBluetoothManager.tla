------------------------ MODULE MCBluetoothManager -------------------------
(* BluetoothManager for TLC; the .cfg file gives the constants.            *)
EXTENDS BluetoothManager
=============================================================================
