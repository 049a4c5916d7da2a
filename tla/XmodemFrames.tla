---------------------------- MODULE XmodemFrames ----------------------------
(***************************************************************************)
(* The serial download seen packet by packet: xmodem_load() and its sender *)
(* with a line that delivers a transmission, garbles it or loses it.       *)
(*                                                                         *)
(* It sits between XmodemLink, where every character and every read is a   *)
(* step, and BlockTransfer, where there is no line at all.  A step here is *)
(* one packet, one silence or one answer; "garbled" is whatever the        *)
(* receiver purges.  The number of damages is not bounded.                 *)
(***************************************************************************)
EXTENDS Integers, Sequences

CONSTANTS
  ByteMod,   \* number of values of the block number on the line (256)
  Block,     \* what a packet can carry
  NoData,    \* the data of a frame that carries none
  File       \* the blocks the sender has to send

ASSUME FramesAssumption ==
  /\ ByteMod \in Nat \ {0, 1}
  /\ File \in Seq(Block)

VARIABLES
  pmem,              \* blocks copied to memory
  expected_blk_num,  \* number the next new packet must carry
  returned,          \* xmodem_load() has returned
  frame,             \* what is on its way to the receiver, or being purged
  answer,            \* what is on its way to the sender
  sending            \* index being sent: 0 before the first NAK,
                     \* Len(File) + 1 for EOT, + 2 when that is acknowledged

vars == <<pmem, expected_blk_num, returned, frame, answer, sending>>

Num == 0 .. ByteMod - 1

FrameOf(kind, num, data) == [kind |-> kind, num |-> num, data |-> data]

Packet(k) == FrameOf("packet", k % ByteMod, File[k])
Eot       == FrameOf("eot", 0, NoData)
Garbled   == FrameOf("garbled", 0, NoData)
NoFrame   == FrameOf("none", 0, NoData)

Frame == [kind : {"packet", "eot", "garbled", "none"},
          num  : Num,
          data : Block \cup {NoData}]

TypeOK ==
  /\ pmem \in Seq(Block)
  /\ expected_blk_num \in Num
  /\ returned \in BOOLEAN
  /\ frame \in Frame
  /\ frame.kind = "packet" => frame.data \in Block
  /\ answer \in {"none", "ACK", "NAK"}
  /\ sending \in 0 .. Len(File) + 2

(* The receiver starts by purging the line.                                *)
Init ==
  /\ pmem = <<>>
  /\ expected_blk_num = 1
  /\ returned = FALSE
  /\ frame = Garbled
  /\ answer = "none"
  /\ sending = 0

-----------------------------------------------------------------------------
(* The receiver.  Its answer may be lost.                                  *)
Respond(a) == answer' \in {a, "none"}

(* Slip: a repeated packet is taken for a new one.                         *)
IsExpectedOrPrevious ==
  frame.num \in {expected_blk_num, (expected_blk_num - 1) % ByteMod}

IsExpected == frame.num = expected_blk_num
IsPrevious == frame.num = (expected_blk_num - 1) % ByteMod

Accept ==
  /\ ~ returned
  /\ frame.kind = "packet"
  /\ IsExpected
  /\ pmem' = Append(pmem, frame.data)
  /\ expected_blk_num' = (frame.num + 1) % ByteMod
  /\ frame' = NoFrame
  /\ Respond("ACK")
  /\ UNCHANGED <<returned, sending>>

AckAgain ==
  /\ ~ returned
  /\ frame.kind = "packet"
  /\ ~ IsExpected
  /\ IsPrevious
  /\ frame' = NoFrame
  /\ Respond("ACK")
  /\ UNCHANGED <<pmem, expected_blk_num, returned, sending>>

(* Slip: a purged packet is acknowledged.                                  *)
RejectAcks ==
  /\ ~ returned
  /\ frame.kind \in {"packet", "garbled"}
  /\ frame.kind = "packet" => ~ IsExpected /\ ~ IsPrevious
  /\ frame' = NoFrame
  /\ Respond("ACK")
  /\ UNCHANGED <<pmem, expected_blk_num, returned, sending>>

(* Purge what is damaged or out of sequence, then NAK.                     *)
Reject ==
  /\ ~ returned
  /\ frame.kind \in {"packet", "garbled"}
  /\ frame.kind = "packet" => ~ IsExpected /\ ~ IsPrevious
  /\ frame' = NoFrame
  /\ Respond("NAK")
  /\ UNCHANGED <<pmem, expected_blk_num, returned, sending>>

(* Ten seconds of silence while a packet is awaited.                       *)
Silence ==
  /\ ~ returned
  /\ frame.kind = "none"
  /\ answer = "none"
  /\ Respond("NAK")
  /\ UNCHANGED <<pmem, expected_blk_num, returned, frame, sending>>

End ==
  /\ ~ returned
  /\ frame.kind = "eot"
  /\ returned' = TRUE
  /\ frame' = NoFrame
  /\ Respond("ACK")
  /\ UNCHANGED <<pmem, expected_blk_num, sending>>

-----------------------------------------------------------------------------
(* The sender.  What it transmits may be garbled or lost.                  *)
Transmit(k) ==
  frame' \in {IF k <= Len(File) THEN Packet(k) ELSE Eot, Garbled, NoFrame}

SendAgain ==
  /\ answer = "NAK"
  /\ sending <= Len(File) + 1
  /\ sending' = IF sending = 0 THEN 1 ELSE sending
  /\ Transmit(sending')
  /\ answer' = "none"
  /\ UNCHANGED <<pmem, expected_blk_num, returned>>

SendNext ==
  /\ answer = "ACK"
  /\ sending \in 1 .. Len(File)
  /\ sending' = sending + 1
  /\ Transmit(sending')
  /\ answer' = "none"
  /\ UNCHANGED <<pmem, expected_blk_num, returned>>

SenderEnds ==
  /\ answer = "ACK"
  /\ sending = Len(File) + 1
  /\ sending' = Len(File) + 2
  /\ answer' = "none"
  /\ UNCHANGED <<pmem, expected_blk_num, returned, frame>>

Next ==
  \/ Accept \/ AckAgain \/ Reject \/ Silence \/ End
  \/ SendAgain \/ SendNext \/ SenderEnds

Spec == Init /\ [][Next]_vars

-----------------------------------------------------------------------------
(* Memory holds the first blocks of the file, each once and in order,      *)
(* whatever the line loses or garbles and however often the same packet or *)
(* the same answer is repeated.                                            *)
MemoryIsPrefix ==
  /\ Len(pmem) <= Len(File)
  /\ \A i \in 1 .. Len(pmem) : pmem[i] = File[i]

(* xmodem_load() returns, and the caller jumps into the image, only with   *)
(* the whole file in memory.                                               *)
CompleteOnReturn == returned => pmem = File

(* The sender never moves past a block the receiver has not copied, nor    *)
(* past EOT before the receiver has returned.                              *)
AckedIsStored ==
  /\ \A k \in DOMAIN File : k < sending => k <= Len(pmem)
  /\ sending = Len(File) + 2 => returned

(* The packet-level transfer keeps the promise of BlockTransfer.           *)
Transfer == INSTANCE BlockTransfer WITH memory <- pmem, done <- returned
TransferSpec == Transfer!Spec

(***************************************************************************)
(* Why those hold.  The block in flight is the one after the last stored   *)
(* block, or that block again when its ACK was lost; consecutive block     *)
(* numbers differ modulo ByteMod, so the receiver can tell the two cases   *)
(* apart; an ACK in flight is for the block being sent; and once the       *)
(* receiver has returned, nothing is on its way to it.                     *)
(***************************************************************************)
NumberMatchesMemory == expected_blk_num = (Len(pmem) + 1) % ByteMod

SenderAbreast ==
  \/ sending <= Len(File) /\ sending \in {Len(pmem), Len(pmem) + 1}
  \/ sending >= Len(File) + 1 /\ Len(pmem) = Len(File)

FrameIsCurrent ==
  /\ frame.kind = "packet" => /\ sending \in 1 .. Len(File)
                              /\ frame = Packet(sending)
  /\ frame.kind = "eot" => sending = Len(File) + 1

AckIsForCurrent ==
  answer = "ACK" => \/ sending \in 1 .. Len(File) /\ sending = Len(pmem)
                    \/ sending = Len(File) + 1 /\ returned

ReturnedAtEnd ==
  /\ returned => /\ sending >= Len(File) + 1
                 /\ frame.kind = "none"
                 /\ answer # "NAK"
  /\ sending = Len(File) + 2 => returned

IInv ==
  /\ TypeOK
  /\ MemoryIsPrefix
  /\ NumberMatchesMemory
  /\ SenderAbreast
  /\ FrameIsCurrent
  /\ AckIsForCurrent
  /\ ReturnedAtEnd
=============================================================================
