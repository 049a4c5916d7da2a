------------------------------- MODULE Board --------------------------------
(***************************************************************************)
(* What a loader finds when it is entered and never changes: the chip it   *)
(* runs on, the cause of the last reset, and which of the two loaders it   *)
(* was built as.                                                           *)
(***************************************************************************)
EXTENDS Naturals

CONSTANTS
  Chips,        \* chip types that occur; 8 is another family's
  ResetCauses,  \* "power", "soft"
  SerialBoots   \* values of "UARTBOOT_CODE is defined" in the builds

CHIP_7185 == 0
CHIP_7175 == 1
CHIP_7183 == 2
CHIP_7173 == 3
CHIP_7185SE == 4
CHIP_7185HP == 6

ASSUME BoardAssumption ==
  /\ Chips \subseteq 0 .. 8
  /\ ResetCauses \subseteq {"power", "soft"}
  /\ SerialBoots \subseteq BOOLEAN

VARIABLES
  chip,    \* strapped chip type
  cause,   \* cause of the last reset
  serial   \* is this the serial loader, or the NAND one?

boardVars == <<chip, cause, serial>>

BoardInit ==
  /\ chip \in Chips
  /\ cause \in ResetCauses
  /\ serial \in SerialBoots
=============================================================================
