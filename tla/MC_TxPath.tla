------------------------------- MODULE MC_TxPath -------------------------------
(***************************************************************************)
(* Two UDP clients, so that one's request can take the other's place, two  *)
(* chunks in the TCP queue, every kind of frame in every pass: the queue   *)
(* can be waiting while an echo, a HELLO, a DHCP message and an answer     *)
(* compete for the transmitter.  The run on intact frames needs one client *)
(* and no TCP.                                                             *)
(***************************************************************************)
EXTENDS TxPath
===============================================================================
