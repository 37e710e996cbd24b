------------------------------ MODULE MC_TcpEcho ------------------------------
(***************************************************************************)
(* Two slots, a buffer of two or three bytes and chunks smaller than it:   *)
(* a queue takes several flushes and several segments share it.            *)
(*                                                                         *)
(* MC_TcpEcho: one sender, another peer that competes for slots, one frame *)
(* lost, one retry per connection, two connections per peer, so that slots *)
(* are freed and reused and a repeated SYN meets a changed table.          *)
(* MC_TcpEcho_live: one peer that sends ahead of the echo, no loss.        *)
(* MC_TcpEcho_shared: two such peers.                                      *)
(***************************************************************************)
EXTENDS TcpEcho
===============================================================================
