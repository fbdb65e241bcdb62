---------------------------- MODULE MCUsbStream ----------------------------
(***************************************************************************)
(* An instance of UsbStream: two transfers of up to two bytes and a ring   *)
(* of four, so that a store and a read may wrap around in the middle.      *)
(***************************************************************************)
EXTENDS UsbStream

Pair == {"t1", "t2"}
=============================================================================
