----------------------------- MODULE MC_TxBridge -----------------------------
(***************************************************************************)
(* A ring of five words with room for four, frames of up to three words, a *)
(* gap of two cycles: frames are shorter than, as long as and longer than  *)
(* what is left of the ring, pointers wrap inside a frame, and the ring is *)
(* filled by frames of one word each up to the threshold.                  *)
(***************************************************************************)
EXTENDS TxBridge
===============================================================================
