------------------------------ MODULE MCFboot -------------------------------
(* Chips of both speeds, of both sources of the host's clock and another   *)
(* family's; a memory of eight words of three bits, every other of which   *)
(* is tested                                                               *)
EXTENDS Fboot

SomeChips == {CHIP_7185, CHIP_7175, CHIP_7173, CHIP_7185HP, 8}
RomDivisors == {255}
BothStraps == {{}, {7, 10}}

\* 2 Gbit chips by 8, too large together; 1 Gbit chips by 16 on a wide bus
\* and on a narrow one.
Searched ==
  << [cS |-> 3, cW |-> 1, bW |-> 1], [cS |-> 2, cW |-> 2, bW |-> 1],
     [cS |-> 2, cW |-> 2, bW |-> 0] >>

AfterReset == {{}, {"WP", "DC"}, {"IE", "IM", "TI", "SW", "WATCH"}}
Identity == <<0, 0, 0, 1, 9, 5, 0, 0>>
Configurations ==
  [b \in {"uncached", "write-back"} |-> <<8, 0, 4, 8, 0, 4, 8, 3>>]
Configs0to3 ==
  << Configurations["uncached"], <<8, 0, 0, 0, 1, 1, 8, 0>>,
     <<8, 0, 0, 0, 0, 0, 0, 0>>, <<0, 0, 0, 0, 2, 4, 2, 0>> >>

\* No cache for instructions; four ways of 64 lines for data.
Geometry == [IL |-> 0, IS |-> 0, IA |-> 0, DL |-> 4, DS |-> 0, DA |-> 3]

SomeFaults ==
  {[kind |-> "none"], [kind |-> "cell", k |-> 4], [kind |-> "lane", lane |-> 3]}
=============================================================================
