--------------------------- MODULE MCShimListener ---------------------------
(* Small instances of ShimListener.                                         *)
EXTENDS ShimListener

CONSTANTS c1, c2

TwoConns == {c1, c2}
=============================================================================
