------------------------------ MODULE MC_RxPath -------------------------------
(***************************************************************************)
(* A preamble of three bytes, addresses of one, words of two, a staging    *)
(* buffer of one word.  Frames with and without tags, payloads that end    *)
(* inside and at the end of a word and go beyond the staging buffer, one   *)
(* that holds a preamble and one for somebody else.                        *)
(***************************************************************************)
EXTENDS RxPath

Frame(dst, tags, payload) == [dst |-> dst, tags |-> tags, payload |-> payload]

Mixed == {Frame("us", 0, <<"x", "x">>), Frame("us", 2, <<"x">>),
          Frame("us", 0, <<"55", "55", "D5">>), Frame("them", 1, <<"x">>)}

Jumbo == {Frame("us", 0, <<"x", "x", "x">>), Frame("us", 0, <<"x", "x", "x", "x", "x", "x", "x">>)}
===============================================================================
