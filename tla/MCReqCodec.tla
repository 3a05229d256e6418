----------------------------- MODULE MCReqCodec -----------------------------
(***************************************************************************)
(* ReqCodec for TLC: every request over these values.                       *)
(***************************************************************************)
EXTENDS ReqCodec

\* Int is -4..3: 0 is refused, 1 is itself, 6 is -2.
SomeIds == {0, 1, 6}

\* Empty, the shortest, and long enough for three to overflow the buffer.
SomeLengths == {0, 1, 2}
=============================================================================
