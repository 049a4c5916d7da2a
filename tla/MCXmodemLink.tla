---------------------------- MODULE MCXmodemLink ----------------------------
(* Small transfers.  The data contain the values of SOH and EOT, so that a *)
(* receiver which has lost its place can mistake data for control          *)
(* characters.                                                             *)
EXTENDS XmodemLink

ThreeBlocks == <<<<1, 4>>, <<4, 0>>, <<1, 1>>>>
NineBlocks == <<<<1>>, <<4>>, <<0>>, <<2>>, <<7>>, <<1>>, <<5>>, <<4>>, <<1>>>>

NoneWaiting == <<>>
Noise == <<1, 4>>
=============================================================================
