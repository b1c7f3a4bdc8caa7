----------------------------- MODULE MCRxBuffer -----------------------------
(* A small receive buffer: sizes around the header, the slack and the      *)
(* buffer size all occur.                                                  *)
EXTENDS RxBuffer

SizesAround == {Hdr - 1, Hdr, Hdr + 1, BufSize - 1, BufSize, BufSize + 1}
=============================================================================
