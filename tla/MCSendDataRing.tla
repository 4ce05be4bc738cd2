---------------------------- MODULE MCSendDataRing ----------------------------
(* A TLC instance of SendDataRing.                                           *)
EXTENDS SendDataRing
===============================================================================
