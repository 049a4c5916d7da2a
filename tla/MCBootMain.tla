----------------------------- MODULE MCBootMain -----------------------------
(* Chips whose processor runs from the gateway PLL; divisors of one byte   *)
EXTENDS BootMain

GatewayChips == (0 .. 8) \ {CHIP_7175, CHIP_7185HP}
AllChips == 0 .. 8
RomDivisors == {1, 7, 20, 81, 255}
=============================================================================
