------------------------------- MODULE MCCodec -------------------------------
(* Model checking of Codec: every message type and every multipart type,    *)
(* OXM fields of lengths around the multiples of eight, one action of each  *)
(* way of converting its value.  Messages are cut on both sides of the      *)
(* lengths that the decoders ask for, and at every length around a match.   *)
EXTENDS Codec

MCActions ==
    {[kind |-> "OUTPUT", oxm |-> 0, ipv4 |-> FALSE], [kind |-> "GROUP", oxm |-> 0, ipv4 |-> FALSE]}
    \cup [kind : {"SET_FIELD"}, oxm : {1, 4, 6}, ipv4 : {FALSE}]
MCCutLens == {0, 7, 8, 9, 12, 15, 16, 23, 24, 39, 40} \cup 31..34 \cup 47..56
=============================================================================
