------------------------------- MODULE Xmodem -------------------------------
(***************************************************************************)
(* The serial receiver of the boot loader: xmodem_load() of                *)
(* loader/xmodem.c together with the polled read it is built on,           *)
(* c_get_char_timout() of boot/soc_landshark/uart_ram.c.                   *)
(*                                                                         *)
(* The loader has one thread and no interrupts, so the only points at      *)
(* which the outside world can act are the reads: a step of this module is *)
(* one read and everything the code does with its result up to the next    *)
(* read.  (SendNak is therefore no value of `state': the code leaves it    *)
(* without reading.)  The other end of the line is left open; XmodemLink   *)
(* closes it.                                                              *)
(***************************************************************************)
EXTENDS Integers, Sequences

CONSTANTS
  ByteMod,     \* number of values of an unsigned char (256)
  DataLen,     \* data bytes of a packet (128)
  SOH, EOT,    \* characters the receiver looks for
  ACK, NAK,    \* characters it answers with
  None,        \* "no character was written in this step"
  gSysClock,   \* ticks of the CP0 counter in a second; 0 when never set
  MaxBlocks    \* bound on the blocks stored, the code has none

ASSUME ByteAssumption ==
  /\ ByteMod \in Nat \ {0, 1}
  /\ DataLen \in Nat \ {0}
  /\ {SOH, EOT} \subseteq 0 .. ByteMod - 1
  /\ SOH # EOT
  /\ ACK # NAK /\ None \notin {ACK, NAK}

ASSUME ClockAssumption == gSysClock \in Nat

ASSUME BoundAssumption == MaxBlocks \in Nat

Char == 0 .. ByteMod - 1
RX_BUF_SIZE == DataLen + 2
GETCHAR_TIMED_OUT == -1

one_second == gSysClock
ten_seconds == 10 * one_second

VARIABLES
  state,             \* where the next read is made
  rx_buf,            \* characters of the packet so far; its length is `i'
  crc,               \* running sum of the data bytes
  expected_blk_num,  \* number the next new packet must carry
  pmem,              \* blocks copied to memory; mem_index is DataLen * Len
  put                \* character written to the UART in the last step

vars == <<state, rx_buf, crc, expected_blk_num, pmem, put>>

TypeOK ==
  /\ state \in {"ClearPending", "WaitForNewPacket", "ReceivePacket",
                "Purge", "Returned"}
  /\ rx_buf \in Seq(Char)
  /\ Len(rx_buf) <= RX_BUF_SIZE
  /\ crc \in Char
  /\ expected_blk_num \in Char
  /\ pmem \in Seq(Seq(Char))
  /\ put \in {ACK, NAK, None}

Init ==
  /\ state = "ClearPending"
  /\ rx_buf = <<>>
  /\ crc = 0
  /\ expected_blk_num = 1
  /\ pmem = <<>>
  /\ put = None

-----------------------------------------------------------------------------
(* What the line offers a read: a character, or none before the deadline.  *)
Offer == Char \cup {GETCHAR_TIMED_OUT}

(* The counter is compared with the deadline before the status register is *)
(* looked at: a read with no time to wait returns nothing.                 *)
c_get_char_timout(delayClk, offer) ==
  IF delayClk = 0 THEN GETCHAR_TIMED_OUT ELSE offer

(* The deadline of the read that is made in the current state.             *)
Deadline ==
  CASE state = "ClearPending"     -> 0
    [] state = "WaitForNewPacket" -> ten_seconds
    [] OTHER                      -> one_second

c_put_char(c) == put' = c

Goto(s) ==
  /\ state' = s
  /\ rx_buf' = <<>>
  /\ crc' = 0

-----------------------------------------------------------------------------
(* "Clear any pending input characters", before the state machine starts.  *)
ClearPending(ch) ==
  /\ state = "ClearPending"
  /\ Goto(IF ch = GETCHAR_TIMED_OUT THEN "Purge" ELSE "ClearPending")
  /\ c_put_char(None)
  /\ UNCHANGED <<expected_blk_num, pmem>>

(* WaitForNewPacket: silence is NAKed, SOH opens a packet, EOT ends the    *)
(* download, anything else is purged.                                      *)
WaitForNewPacket(ch) ==
  /\ state = "WaitForNewPacket"
  /\ \/ /\ ch = GETCHAR_TIMED_OUT
        /\ Goto("WaitForNewPacket")
        /\ c_put_char(NAK)
     \/ /\ ch = SOH
        /\ Goto("ReceivePacket")
        /\ c_put_char(None)
     \/ /\ ch = EOT
        /\ Goto("Returned")
        /\ c_put_char(ACK)
     \/ /\ ch \notin {GETCHAR_TIMED_OUT, SOH, EOT}
        /\ Goto("Purge")
        /\ c_put_char(None)
  /\ UNCHANGED <<expected_blk_num, pmem>>

(* ReceivePacket, the first RX_BUF_SIZE characters.                        *)
ReceiveChar(ch) ==
  /\ state = "ReceivePacket"
  /\ ch # GETCHAR_TIMED_OUT
  /\ Len(rx_buf) < RX_BUF_SIZE
  /\ rx_buf' = Append(rx_buf, ch)
  /\ crc' = IF Len(rx_buf) > 1 THEN (crc + ch) % ByteMod ELSE crc
  /\ c_put_char(None)
  /\ UNCHANGED <<state, expected_blk_num, pmem>>

(* ReceivePacket, the last character: it must be the checksum, and the     *)
(* second header byte the bitwise inverse of the first.                    *)
blk_num == rx_buf[1]

(* Slips: one of the two checks of a packet is left out.                   *)
PacketValidNoInverse(ch) == ch = crc
PacketValidNoSum(ch) == rx_buf[2] = ByteMod - 1 - blk_num

PacketValid(ch) ==
  /\ ch = crc
  /\ rx_buf[2] = ByteMod - 1 - blk_num

PacketEnd ==
  /\ state = "ReceivePacket"
  /\ Len(rx_buf) = RX_BUF_SIZE

(* Slips: any valid packet is new; every other packet, or the one before   *)
(* the last, is a repetition.                                              *)
IsExpectedAny == TRUE
IsPreviousAny == TRUE
IsPreviousOffByOne == blk_num = (expected_blk_num - 2) % ByteMod

IsExpected == blk_num = expected_blk_num
IsPrevious == blk_num = (expected_blk_num - 1) % ByteMod

(* Slip: the number is not wrapped.                                        *)
StoreBlockNoWrap(ch) ==
  /\ PacketEnd
  /\ PacketValid(ch)
  /\ IsExpected
  /\ Len(pmem) < MaxBlocks
  /\ pmem' = Append(pmem, SubSeq(rx_buf, 3, RX_BUF_SIZE))
  /\ expected_blk_num' = blk_num + 1
  /\ c_put_char(ACK)
  /\ Goto("WaitForNewPacket")

(* A valid packet with the expected number is copied and acknowledged.     *)
StoreBlock(ch) ==
  /\ PacketEnd
  /\ PacketValid(ch)
  /\ IsExpected
  /\ Len(pmem) < MaxBlocks
  /\ pmem' = Append(pmem, SubSeq(rx_buf, 3, RX_BUF_SIZE))
  /\ expected_blk_num' = (blk_num + 1) % ByteMod
  /\ c_put_char(ACK)
  /\ Goto("WaitForNewPacket")

(* The sender missed our ACK: acknowledge the last packet again.           *)
AckAgain(ch) ==
  /\ PacketEnd
  /\ PacketValid(ch)
  /\ ~ IsExpected
  /\ IsPrevious
  /\ c_put_char(ACK)
  /\ Goto("WaitForNewPacket")
  /\ UNCHANGED <<expected_blk_num, pmem>>

(* Slip: the characters have been copied before the checksum is known.     *)
RejectPacketCopied(ch) ==
  /\ PacketEnd
  /\ ~ (PacketValid(ch) /\ (IsExpected \/ IsPrevious))
  /\ pmem' = Append(pmem, SubSeq(rx_buf, 3, RX_BUF_SIZE))
  /\ c_put_char(None)
  /\ Goto("Purge")
  /\ UNCHANGED expected_blk_num

(* Checksum, header or sequence error.  A read that times out inside the   *)
(* packet ends here as well: SendNak is overwritten by the failing check.  *)
RejectPacket(ch) ==
  /\ state = "ReceivePacket"
  /\ \/ ch = GETCHAR_TIMED_OUT
     \/ /\ PacketEnd
        /\ ~ (PacketValid(ch) /\ (IsExpected \/ IsPrevious))
  /\ c_put_char(None)
  /\ Goto("Purge")
  /\ UNCHANGED <<expected_blk_num, pmem>>

(* Slip: the NAK is sent without waiting for the pause.                    *)
PurgeNoWait(ch) ==
  /\ state = "Purge"
  /\ c_put_char(NAK)
  /\ Goto("WaitForNewPacket")
  /\ UNCHANGED <<expected_blk_num, pmem>>

(* Purge: read until the line is silent for a second, then NAK.            *)
Purge(ch) ==
  /\ state = "Purge"
  /\ \/ /\ ch = GETCHAR_TIMED_OUT
        /\ c_put_char(NAK)
        /\ Goto("WaitForNewPacket")
     \/ /\ ch # GETCHAR_TIMED_OUT
        /\ c_put_char(None)
        /\ Goto("Purge")
  /\ UNCHANGED <<expected_blk_num, pmem>>

(* One read, given what the line offers, and all that follows from it.     *)
Read(offer) ==
  LET ch == c_get_char_timout(Deadline, offer)
  IN  \/ ClearPending(ch)
      \/ WaitForNewPacket(ch)
      \/ ReceiveChar(ch)
      \/ StoreBlock(ch)
      \/ AckAgain(ch)
      \/ RejectPacket(ch)
      \/ Purge(ch)

Next == \E offer \in Offer : Read(offer)

Spec == Init /\ [][Next]_vars

-----------------------------------------------------------------------------
(***************************************************************************)
(* Properties of the receiver, whatever arrives on the line.               *)
(***************************************************************************)

(* The sequence counter and the write position never part company: through *)
(* duplicates, purges, rejected packets and the wrap of the 8-bit number,  *)
(* expected_blk_num is the number of blocks in memory plus one.  A slip    *)
(* would shift or drop every later block of the image.                     *)
NumberMatchesMemory == expected_blk_num = (Len(pmem) + 1) % ByteMod

(* An ACK that answers a packet names the block that is last in memory     *)
(* after the step: xmodem_load() never acknowledges a block it has not     *)
(* copied, neither when storing nor when the packet is a repetition.       *)
AckNamesLastBlock ==
  [][put' = ACK /\ state = "ReceivePacket"
       => blk_num = Len(pmem') % ByteMod]_vars

(* Memory is only ever extended, by one block, and only with an ACK: no    *)
(* read, timeout or rejected packet rewrites what has been acknowledged.   *)
MemoryOnlyGrows ==
  [][pmem' # pmem =>
       /\ put' = ACK
       /\ Len(pmem') = Len(pmem) + 1
       /\ SubSeq(pmem', 1, Len(pmem)) = pmem]_vars
=============================================================================
