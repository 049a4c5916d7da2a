--------------------------- MODULE MCXmodemFrames ---------------------------
(* Two-valued block numbers, the fewest that can tell a new packet from a  *)
(* repeated one, over a file in which a block occurs twice.                *)
EXTENDS XmodemFrames

SmallFile == <<"a", "b", "a", "c", "c", "b", "b", "a", "a", "c", "a", "b">>
=============================================================================
