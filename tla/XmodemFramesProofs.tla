------------------------- MODULE XmodemFramesProofs -------------------------
(***************************************************************************)
(* The packet-level download is correct for every file, every range of     *)
(* block numbers with at least two values and any number of losses.        *)
(***************************************************************************)
EXTENDS XmodemFrames, BlockNumbers

-----------------------------------------------------------------------------
(* What the frames are made of.                                            *)
LEMMA FrameKinds ==
  /\ Eot \in Frame /\ Eot.kind = "eot"
  /\ Garbled \in Frame /\ Garbled.kind = "garbled"
  /\ NoFrame \in Frame /\ NoFrame.kind = "none"
  BY FramesAssumption DEF Eot, Garbled, NoFrame, FrameOf, Frame, Num

LEMMA PacketKind ==
  ASSUME NEW k \in 1 .. Len(File)
  PROVE  /\ Packet(k) \in Frame
         /\ Packet(k).kind = "packet"
         /\ Packet(k).num = k % ByteMod
         /\ Packet(k).data = File[k]
         /\ File[k] \in Block
<1>1. k \in Int /\ File[k] \in Block
  BY FramesAssumption
<1>2. k % ByteMod \in Num
  BY <1>1, NumInRange, FramesAssumption DEF Num
<1>3. QED
  BY <1>1, <1>2 DEF Packet, FrameOf, Frame

(* Whatever the sender transmits for index k, what is then in flight is a  *)
(* frame, and it is the one of index k if it is intact.                    *)
LEMMA TransmitFrame ==
  ASSUME NEW k \in 1 .. Len(File) + 1,
         Transmit(k)
  PROVE  /\ frame' \in Frame
         /\ frame'.kind = "packet" => /\ k \in 1 .. Len(File)
                                      /\ frame' = Packet(k)
                                      /\ frame'.data \in Block
         /\ frame'.kind = "eot" => k = Len(File) + 1
<1>1. Len(File) \in Nat
  BY FramesAssumption
<1>2. CASE frame' \in {Garbled, NoFrame}
  BY <1>2, FrameKinds
<1>3. CASE k <= Len(File) /\ frame' = Packet(k)
  <2>1. k \in 1 .. Len(File)
    BY <1>1, <1>3
  <2>2. QED
    BY <1>3, <2>1, PacketKind
<1>4. CASE k = Len(File) + 1 /\ frame' = Eot
  BY <1>4, FrameKinds
<1>5. QED
  BY <1>1, <1>2, <1>3, <1>4 DEF Transmit

-----------------------------------------------------------------------------
(* The receiver can tell the two packets that can be in flight apart.      *)

LEMMA NewPacketRecognised ==
  ASSUME IInv, frame.kind = "packet"
  PROVE  /\ IsExpected <=> sending = Len(pmem) + 1
         /\ IsPrevious <=> sending = Len(pmem)
         /\ sending \in {Len(pmem), Len(pmem) + 1}
<1> DEFINE r == Len(pmem)
<1>1. r \in Nat /\ r \in Int /\ r + 1 \in Int
  BY DEF IInv, TypeOK
<1>2. sending \in {r, r + 1} /\ sending \in 1 .. Len(File)
  BY FramesAssumption DEF IInv, SenderAbreast, FrameIsCurrent
<1>3. frame.num = sending % ByteMod
  BY <1>2, PacketKind DEF IInv, FrameIsCurrent
<1>4. expected_blk_num = (r + 1) % ByteMod
  BY DEF IInv, NumberMatchesMemory
<1>5. (expected_blk_num - 1) % ByteMod = r % ByteMod
  BY <1>1, <1>4, PreviousNum, FramesAssumption
<1>6. (r + 1) % ByteMod # r % ByteMod
  BY <1>1, ConsecutiveDiffer, FramesAssumption
<1>7. QED
  BY <1>2, <1>3, <1>4, <1>5, <1>6 DEF IsExpected, IsPrevious

-----------------------------------------------------------------------------
LEMMA InitInv == Init => IInv
<1> SUFFICES ASSUME Init PROVE IInv
  OBVIOUS
<1> USE DEF Init
<1>1. Len(pmem) = 0 /\ Len(File) \in Nat
  BY FramesAssumption
<1>2. 1 \in Num /\ expected_blk_num = (0 + 1) % ByteMod
  <2>1. 1 \in Num /\ 1 = ByteMod * 0 + 1
    BY FramesAssumption DEF Num
  <2>2. (ByteMod * 0 + 1) % ByteMod = 1
    BY <2>1, Remainder, FramesAssumption DEF Num
  <2>3. QED
    BY <2>1, <2>2
<1>3. TypeOK
  <2>1. pmem \in Seq(Block)
    OBVIOUS
  <2>2. expected_blk_num \in Num /\ sending \in 0 .. Len(File) + 2
    BY <1>1, <1>2
  <2>3. frame \in Frame /\ frame.kind # "packet"
    BY FrameKinds
  <2>4. QED
    BY <2>1, <2>2, <2>3 DEF TypeOK
<1>4. MemoryIsPrefix /\ NumberMatchesMemory /\ SenderAbreast
  BY <1>1, <1>2 DEF MemoryIsPrefix, NumberMatchesMemory, SenderAbreast
<1>5. FrameIsCurrent /\ AckIsForCurrent /\ ReturnedAtEnd
  BY <1>1, FrameKinds DEF FrameIsCurrent, AckIsForCurrent, ReturnedAtEnd
<1>6. QED
  BY <1>3, <1>4, <1>5 DEF IInv

-----------------------------------------------------------------------------
LEMMA StepInv == IInv /\ [Next]_vars => IInv'
<1> SUFFICES ASSUME IInv, [Next]_vars PROVE IInv'
  OBVIOUS
<1> USE DEF Respond
<1>0. /\ Len(File) \in Nat /\ Len(pmem) \in Nat /\ pmem \in Seq(Block)
      /\ File \in Seq(Block) /\ sending \in Nat
  BY FramesAssumption DEF IInv, TypeOK
<1>1. CASE Accept
  <2>1. sending = Len(pmem) + 1 /\ sending \in 1 .. Len(File)
    BY <1>0, <1>1, NewPacketRecognised DEF Accept, IInv, FrameIsCurrent
  <2>2. frame.data = File[sending] /\ frame.data \in Block
    BY <1>1, <2>1, PacketKind DEF Accept, IInv, FrameIsCurrent
  <2>3. /\ pmem' = Append(pmem, File[sending])
        /\ pmem' \in Seq(Block)
        /\ Len(pmem') = Len(pmem) + 1
        /\ \A i \in 1 .. Len(pmem) : pmem'[i] = pmem[i]
        /\ pmem'[Len(pmem) + 1] = File[sending]
    BY <1>0, <1>1, <2>2 DEF Accept
  <2>4. expected_blk_num' = (Len(pmem') + 1) % ByteMod
    <3>1. expected_blk_num' = (((Len(pmem) + 1) % ByteMod) + 1) % ByteMod
      BY <1>1 DEF Accept, IsExpected, IInv, NumberMatchesMemory
    <3>2. Len(pmem) + 1 \in Int
      BY <1>0
    <3>3. QED
      BY <2>3, <3>1, <3>2, NextNum, FramesAssumption
  <2>5. TypeOK'
    <3>1. expected_blk_num' \in Num
      BY <1>0, <2>3, <2>4, NumInRange, FramesAssumption DEF Num
    <3>2. frame' \in Frame /\ frame'.kind # "packet"
      BY <1>1, FrameKinds DEF Accept
    <3>3. QED
      BY <1>1, <2>3, <3>1, <3>2 DEF Accept, IInv, TypeOK
  <2>6. MemoryIsPrefix'
    BY <1>0, <2>1, <2>3 DEF IInv, MemoryIsPrefix
  <2>7. SenderAbreast' /\ FrameIsCurrent'
    BY <1>0, <1>1, <2>1, <2>3, FrameKinds
      DEF Accept, SenderAbreast, FrameIsCurrent
  <2>8. AckIsForCurrent' /\ ReturnedAtEnd'
    BY <1>0, <1>1, <2>1, <2>3
      DEF Accept, IInv, AckIsForCurrent, ReturnedAtEnd
  <2>9. QED
    BY <2>4, <2>5, <2>6, <2>7, <2>8 DEF IInv, NumberMatchesMemory
<1>2. CASE AckAgain
  <2>1. sending = Len(pmem) /\ sending \in 1 .. Len(File)
    BY <1>0, <1>2, NewPacketRecognised DEF AckAgain, IInv, FrameIsCurrent
  <2>2. frame' \in Frame /\ frame'.kind = "none"
    BY <1>2, FrameKinds DEF AckAgain
  <2>3. TypeOK' /\ MemoryIsPrefix' /\ NumberMatchesMemory'
    BY <1>2, <2>2
      DEF AckAgain, IInv, TypeOK, MemoryIsPrefix, NumberMatchesMemory
  <2>4. SenderAbreast' /\ FrameIsCurrent' /\ AckIsForCurrent' /\ ReturnedAtEnd'
    BY <1>2, <2>1, <2>2 DEF AckAgain, IInv, SenderAbreast, FrameIsCurrent,
                            AckIsForCurrent, ReturnedAtEnd
  <2>5. QED
    BY <2>3, <2>4 DEF IInv
<1>3. CASE Reject
  <2>1. frame' \in Frame /\ frame'.kind = "none"
    BY <1>3, FrameKinds DEF Reject
  <2>2. TypeOK' /\ MemoryIsPrefix' /\ NumberMatchesMemory'
    BY <1>3, <2>1
      DEF Reject, IInv, TypeOK, MemoryIsPrefix, NumberMatchesMemory
  <2>3. SenderAbreast' /\ FrameIsCurrent' /\ AckIsForCurrent' /\ ReturnedAtEnd'
    BY <1>3, <2>1 DEF Reject, IInv, SenderAbreast, FrameIsCurrent,
                      AckIsForCurrent, ReturnedAtEnd
  <2>4. QED
    BY <2>2, <2>3 DEF IInv
<1>4. CASE Silence
  <2>1. TypeOK' /\ MemoryIsPrefix' /\ NumberMatchesMemory'
    BY <1>4 DEF Silence, IInv, TypeOK, MemoryIsPrefix, NumberMatchesMemory
  <2>2. SenderAbreast' /\ FrameIsCurrent' /\ AckIsForCurrent' /\ ReturnedAtEnd'
    BY <1>4 DEF Silence, IInv, SenderAbreast, FrameIsCurrent, Packet,
                AckIsForCurrent, ReturnedAtEnd
  <2>3. QED
    BY <2>1, <2>2 DEF IInv
<1>5. CASE End
  <2>1. sending = Len(File) + 1
    BY <1>5 DEF End, IInv, FrameIsCurrent
  <2>2. frame' \in Frame /\ frame'.kind = "none"
    BY <1>5, FrameKinds DEF End
  <2>3. TypeOK' /\ MemoryIsPrefix' /\ NumberMatchesMemory'
    BY <1>5, <2>2 DEF End, IInv, TypeOK, MemoryIsPrefix, NumberMatchesMemory
  <2>4. SenderAbreast' /\ FrameIsCurrent' /\ AckIsForCurrent' /\ ReturnedAtEnd'
    BY <1>0, <1>5, <2>1, <2>2 DEF End, IInv, SenderAbreast, FrameIsCurrent,
                                  AckIsForCurrent, ReturnedAtEnd
  <2>5. QED
    BY <2>3, <2>4 DEF IInv
<1>6. CASE SendAgain
  <2>1. sending' \in 1 .. Len(File) + 1
    BY <1>0, <1>6 DEF SendAgain
  <2>2. /\ frame' \in Frame
        /\ frame'.kind = "packet" => /\ sending' \in 1 .. Len(File)
                                     /\ frame' = Packet(sending')
                                     /\ frame'.data \in Block
        /\ frame'.kind = "eot" => sending' = Len(File) + 1
    BY <1>6, <2>1, TransmitFrame DEF SendAgain
  <2>3. TypeOK' /\ MemoryIsPrefix' /\ NumberMatchesMemory'
    BY <1>0, <1>6, <2>1, <2>2
      DEF SendAgain, IInv, TypeOK, MemoryIsPrefix, NumberMatchesMemory
  <2>4. SenderAbreast'
    BY <1>0, <1>6 DEF SendAgain, IInv, SenderAbreast
  <2>5. FrameIsCurrent' /\ AckIsForCurrent' /\ ReturnedAtEnd'
    BY <1>0, <1>6, <2>2 DEF SendAgain, IInv, FrameIsCurrent, Packet,
                            AckIsForCurrent, ReturnedAtEnd
  <2>6. QED
    BY <2>3, <2>4, <2>5 DEF IInv
<1>7. CASE SendNext
  <2>1. sending' \in 1 .. Len(File) + 1 /\ sending = Len(pmem)
    BY <1>0, <1>7 DEF SendNext, IInv, AckIsForCurrent
  <2>2. /\ frame' \in Frame
        /\ frame'.kind = "packet" => /\ sending' \in 1 .. Len(File)
                                     /\ frame' = Packet(sending')
                                     /\ frame'.data \in Block
        /\ frame'.kind = "eot" => sending' = Len(File) + 1
    BY <1>7, <2>1, TransmitFrame DEF SendNext
  <2>3. TypeOK' /\ MemoryIsPrefix' /\ NumberMatchesMemory'
    BY <1>0, <1>7, <2>1, <2>2
      DEF SendNext, IInv, TypeOK, MemoryIsPrefix, NumberMatchesMemory
  <2>4. SenderAbreast'
    BY <1>0, <1>7, <2>1 DEF SendNext, IInv, SenderAbreast
  <2>5. FrameIsCurrent' /\ AckIsForCurrent' /\ ReturnedAtEnd'
    BY <1>0, <1>7, <2>2 DEF SendNext, IInv, FrameIsCurrent, Packet,
                            AckIsForCurrent, ReturnedAtEnd
  <2>6. QED
    BY <2>3, <2>4, <2>5 DEF IInv
<1>8. CASE SenderEnds
  <2>1. returned /\ Len(pmem) = Len(File) /\ frame.kind = "none"
    BY <1>0, <1>8
      DEF SenderEnds, IInv, AckIsForCurrent, SenderAbreast, ReturnedAtEnd
  <2>2. TypeOK' /\ MemoryIsPrefix' /\ NumberMatchesMemory'
    BY <1>0, <1>8
      DEF SenderEnds, IInv, TypeOK, MemoryIsPrefix, NumberMatchesMemory
  <2>3. SenderAbreast' /\ FrameIsCurrent' /\ AckIsForCurrent' /\ ReturnedAtEnd'
    BY <1>0, <1>8, <2>1 DEF SenderEnds, SenderAbreast, FrameIsCurrent,
                            AckIsForCurrent, ReturnedAtEnd
  <2>4. QED
    BY <2>2, <2>3 DEF IInv
<1>9. CASE UNCHANGED vars
  BY <1>9 DEF vars, IInv, TypeOK, MemoryIsPrefix, NumberMatchesMemory,
              SenderAbreast, FrameIsCurrent, Packet, AckIsForCurrent,
              ReturnedAtEnd
<1>10. QED
  BY <1>1, <1>2, <1>3, <1>4, <1>5, <1>6, <1>7, <1>8, <1>9 DEF Next

(* The inductive invariant holds throughout.                               *)
THEOREM Invariance == Spec => []IInv
<1>1. QED
  BY InitInv, StepInv, PTL DEF Spec

-----------------------------------------------------------------------------
(* The image in memory is always a prefix of the file being sent.          *)
THEOREM PrefixTheorem == Spec => []MemoryIsPrefix
<1>1. IInv => MemoryIsPrefix
  BY DEF IInv
<1>2. QED
  BY <1>1, Invariance, PTL

LEMMA FullMemory ==
  ASSUME IInv, Len(pmem) = Len(File)
  PROVE  pmem = File
<1>1. pmem \in Seq(Block) /\ File \in Seq(Block)
  BY FramesAssumption DEF IInv, TypeOK
<1>2. \A i \in 1 .. Len(File) : pmem[i] = File[i]
  BY DEF IInv, MemoryIsPrefix
<1>3. QED
  BY <1>1, <1>2

(* xmodem_load() returns only with the whole file in memory, provided EOT  *)
(* is never mistaken for part of a packet, as it is not at this level.     *)
THEOREM CompleteTheorem == Spec => []CompleteOnReturn
<1>1. IInv => CompleteOnReturn
  <2> SUFFICES ASSUME IInv, returned PROVE pmem = File
    BY DEF CompleteOnReturn
  <2>1. Len(File) \in Nat /\ sending >= Len(File) + 1 /\ sending \in Nat
    BY FramesAssumption DEF IInv, ReturnedAtEnd, TypeOK
  <2>2. Len(pmem) = Len(File)
    BY <2>1 DEF IInv, SenderAbreast
  <2>3. QED
    BY <2>2, FullMemory
<1>2. QED
  BY <1>1, Invariance, PTL

(* What the sender counts as delivered is in memory.                       *)
THEOREM AckTheorem == Spec => []AckedIsStored
<1>1. IInv => AckedIsStored
  <2> SUFFICES ASSUME IInv PROVE AckedIsStored
    OBVIOUS
  <2>1. Len(File) \in Nat /\ Len(pmem) \in Nat /\ sending \in Nat
    BY FramesAssumption DEF IInv, TypeOK
  <2>2. ASSUME NEW k \in DOMAIN File, k < sending
        PROVE  k <= Len(pmem)
    <3>1. k \in 1 .. Len(File)
      BY FramesAssumption
    <3>2. QED
      BY <2>1, <2>2, <3>1 DEF IInv, SenderAbreast
  <2>3. QED
    BY <2>2 DEF AckedIsStored, IInv, ReturnedAtEnd
<1>2. QED
  BY <1>1, Invariance, PTL

-----------------------------------------------------------------------------
(* The packet-level download implements BlockTransfer: an Accept step is a *)
(* Deliver step, End is Finish, and every other step is invisible.         *)
THEOREM Refinement == Spec => TransferSpec
<1>1. Init => Transfer!Init
  BY DEF Init, Transfer!Init
<1>2. IInv /\ [Next]_vars => [Transfer!Next]_(Transfer!vars)
  <2> SUFFICES ASSUME IInv, [Next]_vars
               PROVE  [Transfer!Next]_(Transfer!vars)
    OBVIOUS
  <2> USE DEF Transfer!vars
  <2>0. Len(File) \in Nat /\ Len(pmem) \in Nat /\ sending \in Nat
    BY FramesAssumption DEF IInv, TypeOK
  <2>1. CASE Accept
    <3>1. sending = Len(pmem) + 1 /\ sending \in 1 .. Len(File)
      BY <2>0, <2>1, NewPacketRecognised DEF Accept, IInv, FrameIsCurrent
    <3>2. frame.data = File[Len(pmem) + 1]
      BY <2>1, <3>1, PacketKind DEF Accept, IInv, FrameIsCurrent
    <3>3. Transfer!Deliver
      BY <2>0, <2>1, <3>1, <3>2 DEF Accept, Transfer!Deliver
    <3>4. QED
      BY <3>3 DEF Transfer!Next
  <2>2. CASE End
    <3>1. sending = Len(File) + 1
      BY <2>2 DEF End, IInv, FrameIsCurrent
    <3>2. Len(pmem) = Len(File)
      BY <2>0, <3>1 DEF IInv, SenderAbreast
    <3>3. pmem = File
      BY <3>2, FullMemory
    <3>4. Transfer!Finish
      BY <2>2, <3>3 DEF End, Transfer!Finish
    <3>5. QED
      BY <3>4 DEF Transfer!Next
  <2>3. CASE ~ Accept /\ ~ End
    <3>1. UNCHANGED <<pmem, returned>>
      BY <2>3 DEF Next, AckAgain, Reject, Silence, SendAgain, SendNext, SenderEnds, vars
    <3>2. QED
      BY <3>1
  <2>4. QED
    BY <2>1, <2>2, <2>3
<1>3. QED
  BY <1>1, <1>2, Invariance, PTL DEF Spec, TransferSpec, Transfer!Spec
=============================================================================
