---------------------------- MODULE XmodemProofs ----------------------------
(***************************************************************************)
(* The receiver keeps its sequence counter and its memory in step whatever *)
(* arrives on the line, for every size of byte and packet.  At the end of  *)
(* the line of XmodemLink memory is a prefix of the file, and the transfer *)
(* character by character implements that of XmodemFrames.                 *)
(***************************************************************************)
EXTENDS XmodemLink, BlockNumbers

(* A read yields a character or nothing.                                   *)
LEMMA ReadResult ==
  ASSUME NEW offer \in Offer, NEW d
  PROVE  c_get_char_timout(d, offer) \in Offer
  BY DEF Offer, c_get_char_timout

(* A step of the receiver is one of its branches, on one read result.      *)
LEMMA StepCases ==
  ASSUME Next
  PROVE  \E ch \in Offer :
           \/ ClearPending(ch) \/ WaitForNewPacket(ch) \/ ReceiveChar(ch)
           \/ StoreBlock(ch) \/ AckAgain(ch) \/ RejectPacket(ch)
           \/ Purge(ch)
<1>1. PICK offer \in Offer : Read(offer)
  BY DEF Next
<1>2. c_get_char_timout(Deadline, offer) \in Offer
  BY ReadResult
<1>3. QED
  BY <1>1, <1>2 DEF Read

(* At the end of a packet its number has been read.                        *)
LEMMA PacketNumber ==
  ASSUME TypeOK, PacketEnd
  PROVE  blk_num \in Char
  BY ByteAssumption DEF TypeOK, PacketEnd, RX_BUF_SIZE, blk_num

(* A packet that is stored extends memory by its data.                     *)
LEMMA StoredBlock ==
  ASSUME TypeOK, NEW ch, StoreBlock(ch)
  PROVE  /\ pmem' \in Seq(Seq(Char))
         /\ Len(pmem') = Len(pmem) + 1
         /\ SubSeq(pmem', 1, Len(pmem)) = pmem
<1> DEFINE block == SubSeq(rx_buf, 3, RX_BUF_SIZE)
<1>1. rx_buf \in Seq(Char) /\ Len(rx_buf) = RX_BUF_SIZE
      /\ RX_BUF_SIZE \in Nat
  BY ByteAssumption DEF TypeOK, StoreBlock, PacketEnd, RX_BUF_SIZE
<1>2. block \in Seq(Char)
  BY <1>1
<1>3. pmem \in Seq(Seq(Char)) /\ pmem' = Append(pmem, block)
  BY DEF TypeOK, StoreBlock
<1> HIDE DEF block
<1>4. QED
  BY <1>2, <1>3

-----------------------------------------------------------------------------
(* Every step keeps the types.                                             *)
LEMMA TypeStep == TypeOK /\ [Next]_vars => TypeOK'
<1> SUFFICES ASSUME TypeOK, [Next]_vars PROVE TypeOK'
  OBVIOUS
<1>0. 0 \in Char /\ ACK # NAK /\ RX_BUF_SIZE \in Nat
  BY ByteAssumption DEF Char, RX_BUF_SIZE
<1>1. CASE UNCHANGED vars
  BY <1>1 DEF vars, TypeOK
<1>2. CASE Next
  <2>1. PICK ch \in Offer :
          \/ ClearPending(ch) \/ WaitForNewPacket(ch) \/ ReceiveChar(ch)
          \/ StoreBlock(ch) \/ AckAgain(ch) \/ RejectPacket(ch)
          \/ Purge(ch)
    BY <1>2, StepCases
  <2>2. CASE ClearPending(ch)
    BY <1>0, <2>2 DEF ClearPending, Goto, c_put_char, TypeOK
  <2>3. CASE WaitForNewPacket(ch)
    <3>1. state' \in {"WaitForNewPacket", "ReceivePacket", "Purge",
                      "Returned"} /\ put' \in {ACK, NAK, None}
      BY <2>3 DEF WaitForNewPacket, Goto, c_put_char
    <3>2. rx_buf' = <<>> /\ crc' = 0
          /\ UNCHANGED <<expected_blk_num, pmem>>
      BY <2>3 DEF WaitForNewPacket, Goto
    <3>3. QED
      BY <1>0, <3>1, <3>2 DEF TypeOK
  <2>4. CASE ReceiveChar(ch)
    <3>1. ch \in Char
      BY <2>4 DEF ReceiveChar, Offer
    <3>2. crc' \in Char
      <4>1. (crc + ch) % ByteMod \in 0 .. ByteMod - 1
        BY <3>1, ByteAssumption, NumInRange DEF TypeOK, Char
      <4>2. QED
        BY <2>4, <4>1 DEF ReceiveChar, TypeOK, Char
    <3>3. rx_buf' \in Seq(Char) /\ Len(rx_buf') <= RX_BUF_SIZE
      BY <1>0, <2>4, <3>1 DEF ReceiveChar, TypeOK
    <3>4. QED
      BY <2>4, <3>2, <3>3 DEF ReceiveChar, c_put_char, TypeOK
  <2>5. CASE StoreBlock(ch)
    <3>1. expected_blk_num' \in Char
      <4>1. blk_num \in Int
        BY <2>5, PacketNumber DEF StoreBlock, Char
      <4>2. (blk_num + 1) % ByteMod \in 0 .. ByteMod - 1
        BY <4>1, ByteAssumption, NumInRange
      <4>3. QED
        BY <2>5, <4>2 DEF StoreBlock, Char
    <3>2. pmem' \in Seq(Seq(Char))
      BY <2>5, StoredBlock
    <3>3. QED
      BY <1>0, <2>5, <3>1, <3>2
        DEF StoreBlock, Goto, c_put_char, TypeOK
  <2>6. CASE AckAgain(ch)
    BY <1>0, <2>6 DEF AckAgain, Goto, c_put_char, TypeOK
  <2>7. CASE RejectPacket(ch)
    BY <1>0, <2>7 DEF RejectPacket, Goto, c_put_char, TypeOK
  <2>8. CASE Purge(ch)
    <3>1. state' \in {"WaitForNewPacket", "ReceivePacket", "Purge",
                      "Returned"} /\ put' \in {ACK, NAK, None}
      BY <2>8 DEF Purge, Goto, c_put_char
    <3>2. rx_buf' = <<>> /\ crc' = 0
          /\ UNCHANGED <<expected_blk_num, pmem>>
      BY <2>8 DEF Purge, Goto
    <3>3. QED
      BY <1>0, <3>1, <3>2 DEF TypeOK
  <2>9. QED
    BY <2>1, <2>2, <2>3, <2>4, <2>5, <2>6, <2>7, <2>8
<1>3. QED
  BY <1>1, <1>2

(* Every variable keeps its type.                                          *)
THEOREM Typing == Spec => []TypeOK
<1>1. Init => TypeOK
  BY ByteAssumption DEF Init, TypeOK, Char, RX_BUF_SIZE
<1>2. QED
  BY <1>1, TypeStep, PTL DEF Spec

-----------------------------------------------------------------------------
(* Every step keeps the sequence counter and memory together.              *)
LEMMA NumberStep ==
  TypeOK /\ NumberMatchesMemory /\ [Next]_vars => NumberMatchesMemory'
<1> SUFFICES ASSUME TypeOK, NumberMatchesMemory, [Next]_vars
             PROVE  NumberMatchesMemory'
  OBVIOUS
<1>1. CASE UNCHANGED <<expected_blk_num, pmem>>
  BY <1>1 DEF NumberMatchesMemory
<1>2. ASSUME NEW ch \in Offer, StoreBlock(ch)
      PROVE  NumberMatchesMemory'
  <2>1. Len(pmem') = Len(pmem) + 1 /\ Len(pmem) \in Nat
    BY <1>2, StoredBlock DEF TypeOK
  <2>2. expected_blk_num' = (((Len(pmem) + 1) % ByteMod) + 1) % ByteMod
    BY <1>2 DEF StoreBlock, IsExpected, NumberMatchesMemory
  <2>3. Len(pmem) + 1 \in Int
    BY <2>1
  <2>4. QED
    BY <2>1, <2>2, <2>3, NextNum, ByteAssumption DEF NumberMatchesMemory
<1>3. CASE UNCHANGED vars
  BY <1>1, <1>3 DEF vars
<1>4. CASE Next
  BY <1>1, <1>2, <1>4, StepCases
    DEF ClearPending, WaitForNewPacket, ReceiveChar, AckAgain,
        RejectPacket, Purge
<1>5. QED
  BY <1>3, <1>4

LEMMA NumberInit == Init => NumberMatchesMemory
<1>1. 1 \in 0 .. ByteMod - 1 /\ ByteMod * 0 + 1 = 0 + 1
  BY ByteAssumption
<1>2. (ByteMod * 0 + 1) % ByteMod = 1
  BY <1>1, ByteAssumption, Remainder
<1>3. QED
  BY <1>1, <1>2 DEF Init, NumberMatchesMemory

(* expected_blk_num is always the number of blocks in memory plus one: no  *)
(* sequence of packets, repetitions, damages and timeouts, however long,   *)
(* and no wrap of the number, sets the two apart.                          *)
THEOREM NumberTheorem == Spec => []NumberMatchesMemory
  BY NumberInit, NumberStep, Typing, PTL DEF Spec

-----------------------------------------------------------------------------
(* An ACK to a packet names the last block in memory, whether the packet   *)
(* was stored or recognised as a repetition.                               *)
THEOREM AckNamesTheorem == Spec => AckNamesLastBlock
<1> DEFINE A == put' = ACK /\ state = "ReceivePacket"
                  => blk_num = Len(pmem') % ByteMod
<1>1. TypeOK /\ NumberMatchesMemory /\ [Next]_vars => [A]_vars
  <2> SUFFICES ASSUME TypeOK, NumberMatchesMemory, Next,
                      put' = ACK, state = "ReceivePacket"
               PROVE  blk_num = Len(pmem') % ByteMod
    OBVIOUS
  <2>1. Len(pmem) \in Nat /\ ACK # NAK /\ ACK # None
    BY ByteAssumption DEF TypeOK
  <2>2. PICK ch \in Offer : StoreBlock(ch) \/ AckAgain(ch)
    BY <2>1, StepCases
      DEF ClearPending, WaitForNewPacket, ReceiveChar, RejectPacket, Purge,
          Goto, c_put_char
  <2>3. CASE StoreBlock(ch)
    BY <2>3, StoredBlock DEF StoreBlock, IsExpected, NumberMatchesMemory
  <2>4. CASE AckAgain(ch)
    <3>1. blk_num = (((Len(pmem) + 1) % ByteMod) - 1) % ByteMod
      BY <2>4 DEF AckAgain, IsPrevious, NumberMatchesMemory
    <3>2. blk_num = Len(pmem) % ByteMod
      <4>1. Len(pmem) \in Int
        BY <2>1
      <4>2. QED
        BY <3>1, <4>1, PreviousNum, ByteAssumption
    <3>3. QED
      BY <2>4, <3>2 DEF AckAgain
  <2>5. QED
    BY <2>2, <2>3, <2>4
<1>2. QED
  BY <1>1, Typing, NumberTheorem, PTL DEF Spec, AckNamesLastBlock

(* Memory only grows, by one block, and never without an ACK.              *)
THEOREM GrowTheorem == Spec => MemoryOnlyGrows
<1> DEFINE A == pmem' # pmem =>
                  /\ put' = ACK
                  /\ Len(pmem') = Len(pmem) + 1
                  /\ SubSeq(pmem', 1, Len(pmem)) = pmem
<1>1. TypeOK /\ [Next]_vars => [A]_vars
  <2> SUFFICES ASSUME TypeOK, Next, pmem' # pmem
               PROVE  /\ put' = ACK
                      /\ Len(pmem') = Len(pmem) + 1
                      /\ SubSeq(pmem', 1, Len(pmem)) = pmem
    OBVIOUS
  <2>1. PICK ch \in Offer : StoreBlock(ch)
    BY StepCases DEF ClearPending, WaitForNewPacket, ReceiveChar, AckAgain,
                     RejectPacket, Purge
  <2>2. QED
    BY <2>1, StoredBlock DEF StoreBlock, c_put_char
<1>2. QED
  BY <1>1, Typing, PTL DEF Spec, MemoryOnlyGrows

-----------------------------------------------------------------------------
(* The sum at the end of a packet.                                         *)
Sums(f, block, m) ==
  f = [n \in 0 .. m |->
         IF n = 0 THEN 0 ELSE (f[n - 1] + block[n]) % ByteMod]

LEMMA SumsExist ==
  ASSUME NEW block
  PROVE  \A m \in Nat : \E f : Sums(f, block, m)
<1> DEFINE Bad == {m \in Nat : ~ \E f : Sums(f, block, m)}
<1>1. SUFFICES ASSUME Bad # {} PROVE FALSE
  OBVIOUS
<1>2. Bad \subseteq Nat
  OBVIOUS
<1>3. PICK m \in Bad : \A k \in Bad : m <= k
  BY <1>1, <1>2, LeastNumber
<1>4. m \in Nat /\ ~ \E f : Sums(f, block, m)
  BY <1>3
<1>5. CASE m = 0
  <2>1. Sums([n \in 0 .. 0 |-> 0], block, 0)
    BY DEF Sums
  <2>2. QED
    BY <1>4, <1>5, <2>1
<1>6. CASE m # 0
  <2>1. m - 1 \in Nat /\ m - 1 \notin Bad
    BY <1>3, <1>4, <1>6
  <2>2. PICK f : Sums(f, block, m - 1)
    BY <2>1
  <2> DEFINE g == [n \in 0 .. m |->
                     IF n = m THEN (f[m - 1] + block[m]) % ByteMod
                              ELSE f[n]]
  <2>3. ASSUME NEW n \in 0 .. m
        PROVE  g[n] = IF n = 0 THEN 0 ELSE (g[n - 1] + block[n]) % ByteMod
    <3>1. CASE n = m
      BY <1>4, <1>6, <3>1
    <3>2. CASE n # m /\ n # 0
      <4>1. n \in 0 .. m - 1 /\ n - 1 \in 0 .. m /\ n - 1 # m
        BY <1>4, <3>2
      <4>2. g[n] = f[n] /\ g[n - 1] = f[n - 1]
        BY <3>2, <4>1
      <4>3. f[n] = (f[n - 1] + block[n]) % ByteMod
        BY <2>2, <3>2, <4>1 DEF Sums
      <4> HIDE DEF g
      <4>4. QED
        BY <3>2, <4>2, <4>3
    <3>3. CASE n # m /\ n = 0
      <4>1. n \in 0 .. m - 1 /\ g[n] = f[n]
        BY <1>4, <1>6, <3>3
      <4>2. f[0] = 0
        BY <2>2, <3>3, <4>1 DEF Sums
      <4> HIDE DEF g
      <4>3. QED
        BY <3>3, <4>1, <4>2
    <3>4. QED
      BY <3>1, <3>2, <3>3
  <2>4. g = [n \in 0 .. m |-> g[n]]
    OBVIOUS
  <2> HIDE DEF g
  <2>5. Sums(g, block, m)
    BY <2>3, <2>4 DEF Sums
  <2>6. QED
    BY <1>4, <2>5
<1>7. QED
  BY <1>5, <1>6

(* The running sum of a block, step by step.                               *)
LEMMA SumEquation ==
  ASSUME NEW block, Len(block) \in Nat
  PROVE  /\ SumOf(block)[0] = 0
         /\ \A n \in 1 .. Len(block) :
              SumOf(block)[n] = (SumOf(block)[n - 1] + block[n]) % ByteMod
<1> DEFINE f == SumOf(block)
<1>1. \E g : Sums(g, block, Len(block))
  BY SumsExist
<1>2. Sums(f, block, Len(block))
  BY <1>1 DEF Sums, SumOf
<1> HIDE DEF f
<1>3. f[0] = 0
  BY <1>2 DEF Sums
<1>4. ASSUME NEW n \in 1 .. Len(block)
      PROVE  f[n] = (f[n - 1] + block[n]) % ByteMod
  BY <1>2 DEF Sums
<1>5. QED
  BY <1>3, <1>4 DEF f

LEMMA SumInRange ==
  ASSUME NEW block \in Seq(Char), NEW n \in 0 .. Len(block)
  PROVE  SumOf(block)[n] \in Char
<1> DEFINE Bad == {m \in 0 .. Len(block) : SumOf(block)[m] \notin Char}
<1>1. SUFFICES ASSUME Bad # {} PROVE FALSE
  OBVIOUS
<1>2. Bad \subseteq Nat
  OBVIOUS
<1>3. PICK m \in Bad : \A k \in Bad : m <= k
  BY <1>1, <1>2, LeastNumber
<1>4. 0 \in Char
  BY ByteAssumption DEF Char
<1>5. m # 0
  BY <1>3, <1>4, SumEquation
<1>6. m \in 1 .. Len(block) /\ m - 1 \in 0 .. Len(block) /\ m - 1 \notin Bad
  BY <1>3, <1>5
<1>7. SumOf(block)[m - 1] \in Int /\ block[m] \in Int
  <2>1. SumOf(block)[m - 1] \in Char /\ block[m] \in Char
    BY <1>6
  <2>2. QED
    BY <2>1 DEF Char
<1>8. SumOf(block)[m] = (SumOf(block)[m - 1] + block[m]) % ByteMod
  BY <1>6, SumEquation
<1>9. (SumOf(block)[m - 1] + block[m]) % ByteMod \in 0 .. ByteMod - 1
  <2>1. SumOf(block)[m - 1] + block[m] \in Int
    BY <1>7
  <2>2. QED
    BY <2>1, ByteAssumption, NumInRange
<1>10. QED
  BY <1>3, <1>8, <1>9 DEF Char

(* The sum fits the byte that carries it.                                  *)
LEMMA CheckSumInRange ==
  ASSUME NEW block \in Seq(Char)
  PROVE  CheckSum(block) \in Char
  BY SumInRange DEF CheckSum

(* The sums of two blocks agree as far as the blocks do.                   *)
LEMMA SumOfPrefix ==
  ASSUME NEW a \in Seq(Char), NEW b \in Seq(Char),
         NEW l \in Nat, l <= Len(a), l <= Len(b),
         \A i \in 1 .. l : a[i] = b[i]
  PROVE  \A n \in 0 .. l : SumOf(a)[n] = SumOf(b)[n]
<1> DEFINE Bad == {m \in 0 .. l : SumOf(a)[m] # SumOf(b)[m]}
<1>1. SUFFICES ASSUME Bad # {} PROVE FALSE
  OBVIOUS
<1>2. Bad \subseteq Nat
  OBVIOUS
<1>3. PICK m \in Bad : \A k \in Bad : m <= k
  BY <1>1, <1>2, LeastNumber
<1>4. m # 0
  BY <1>3, SumEquation
<1>5. m \in 1 .. l /\ m - 1 \in 0 .. l /\ m - 1 \notin Bad
  BY <1>3, <1>4
<1>6. m \in 1 .. Len(a) /\ m \in 1 .. Len(b)
  BY <1>5
<1>7. SumOf(a)[m - 1] = SumOf(b)[m - 1] /\ a[m] = b[m]
  BY <1>5
<1>8. SumOf(a)[m] = (SumOf(a)[m - 1] + a[m]) % ByteMod
  BY <1>6, SumEquation
<1>9. SumOf(b)[m] = (SumOf(b)[m - 1] + b[m]) % ByteMod
  BY <1>6, SumEquation
<1>10. QED
  BY <1>3, <1>7, <1>8, <1>9

(* The receiver's running sum: one more character.                         *)
LEMMA SumOfAppend ==
  ASSUME NEW block \in Seq(Char), NEW c \in Char
  PROVE  CheckSum(Append(block, c)) = (CheckSum(block) + c) % ByteMod
<1> DEFINE longer == Append(block, c)
<1>1. /\ longer \in Seq(Char) /\ Len(longer) = Len(block) + 1
      /\ longer[Len(block) + 1] = c
      /\ \A i \in 1 .. Len(block) : longer[i] = block[i]
      /\ Len(block) \in Nat
  OBVIOUS
<1> HIDE DEF longer
<1>2. SumOf(longer)[Len(block)] = SumOf(block)[Len(block)]
  BY <1>1, SumOfPrefix
<1>3. SumOf(longer)[Len(block) + 1]
        = (SumOf(longer)[Len(block)] + c) % ByteMod
  <2>1. Len(block) + 1 \in 1 .. Len(longer) /\ (Len(block) + 1) - 1 = Len(block)
    BY <1>1
  <2>2. QED
    BY <1>1, <2>1, SumEquation
<1>4. QED
  BY <1>1, <1>2, <1>3 DEF CheckSum, longer

LEMMA SumOfEmpty ==
  CheckSum(<<>>) = 0
  BY SumEquation DEF CheckSum

(* One changed character changes the sum.                                  *)
LEMMA SumDetects ==
  ASSUME NEW a \in Seq(Char), NEW b \in Seq(Char), Len(a) = Len(b),
         NEW i \in 1 .. Len(a), a[i] # b[i],
         \A j \in 1 .. Len(a) : j # i => a[j] = b[j]
  PROVE  CheckSum(a) # CheckSum(b)
<1> DEFINE Bad == {m \in i .. Len(a) : SumOf(a)[m] = SumOf(b)[m]}
<1>1. SUFFICES ASSUME Bad # {} PROVE FALSE
  BY DEF CheckSum
<1>2. Bad \subseteq Nat
  OBVIOUS
<1>3. PICK m \in Bad : \A k \in Bad : m <= k
  BY <1>1, <1>2, LeastNumber
<1>4. /\ m \in 1 .. Len(a) /\ m \in 1 .. Len(b) /\ m \in i .. Len(a)
      /\ m - 1 \in 0 .. Len(a) /\ m - 1 \in 0 .. Len(b)
  BY <1>3
<1>5. /\ SumOf(a)[m] = (SumOf(a)[m - 1] + a[m]) % ByteMod
      /\ SumOf(b)[m] = (SumOf(b)[m - 1] + b[m]) % ByteMod
  BY <1>4, SumEquation
<1>6. /\ SumOf(a)[m - 1] \in 0 .. ByteMod - 1
      /\ SumOf(b)[m - 1] \in 0 .. ByteMod - 1
      /\ a[m] \in 0 .. ByteMod - 1 /\ b[m] \in 0 .. ByteMod - 1
  <2>1. SumOf(a)[m - 1] \in Char /\ SumOf(b)[m - 1] \in Char
    BY <1>4, SumInRange
  <2>2. a[m] \in Char /\ b[m] \in Char
    BY <1>4
  <2>3. QED
    BY <2>1, <2>2 DEF Char
<1>7. CASE m = i
  <2>1. SumOf(a)[m - 1] = SumOf(b)[m - 1]
    <3>1. i - 1 \in Nat /\ i - 1 <= Len(a) /\ i - 1 <= Len(b)
          /\ \A j \in 1 .. i - 1 : a[j] = b[j]
      OBVIOUS
    <3>2. \A n \in 0 .. i - 1 : SumOf(a)[n] = SumOf(b)[n]
      BY <3>1, SumOfPrefix
    <3>3. QED
      BY <1>7, <3>2
  <2>2. (a[m] + SumOf(a)[m - 1]) % ByteMod # (b[m] + SumOf(a)[m - 1]) % ByteMod
    <3>1. SumOf(a)[m - 1] \in Int /\ a[m] # b[m]
      BY <1>6, <1>7
    <3>2. QED
      BY <1>6, <3>1, SumsDiffer, ByteAssumption
  <2>3. /\ a[m] + SumOf(a)[m - 1] = SumOf(a)[m - 1] + a[m]
        /\ b[m] + SumOf(a)[m - 1] = SumOf(a)[m - 1] + b[m]
    BY <1>6
  <2>4. QED
    BY <1>3, <1>5, <2>1, <2>2, <2>3
<1>8. CASE m # i
  <2>1. m - 1 \in i .. Len(a) /\ m - 1 \notin Bad /\ a[m] = b[m]
    BY <1>3, <1>4, <1>8
  <2>2. SumOf(a)[m - 1] # SumOf(b)[m - 1] /\ b[m] \in Int
    BY <1>6, <2>1
  <2>3. (SumOf(a)[m - 1] + b[m]) % ByteMod # (SumOf(b)[m - 1] + b[m]) % ByteMod
    BY <1>6, <2>2, SumsDiffer, ByteAssumption
  <2>4. QED
    BY <1>3, <1>5, <2>1, <2>3
<1>9. QED
  BY <1>7, <1>8

-----------------------------------------------------------------------------
(* What is transmitted for the blocks of the file, and what one damage     *)
(* leaves of it.                                                           *)
LEMMA Constants ==
  /\ ByteMod \in Nat /\ ByteMod > 1 /\ DataLen \in Nat /\ DataLen > 0
  /\ SOH \in Char /\ EOT \in Char /\ SOH # EOT
  /\ Len(File) \in Nat
  /\ GETCHAR_TIMED_OUT \notin Char
  BY ByteAssumption, LinkAssumption DEF Char, GETCHAR_TIMED_OUT

LEMMA Joined ==
  ASSUME NEW T, NEW a \in Seq(T), NEW b \in Seq(T)
  PROVE  /\ a \o b \in Seq(T) /\ Len(a \o b) = Len(a) + Len(b)
         /\ \A i \in 1 .. Len(a) : (a \o b)[i] = a[i]
         /\ \A i \in 1 .. Len(b) : (a \o b)[i + Len(a)] = b[i]
  OBVIOUS

LEMMA AppendOnly ==
  ASSUME NEW T, NEW b \in Seq(T), NEW ch \in T, NEW a \in Seq(T),
         Len(a) = Len(b) + 1, a[Len(b) + 1] = ch,
         \A i \in 1 .. Len(b) : a[i] = b[i]
  PROVE  a = Append(b, ch)
<1> DEFINE c == Append(b, ch)
<1>1. /\ c \in Seq(T) /\ Len(c) = Len(b) + 1 /\ Len(b) \in Nat
      /\ c[Len(b) + 1] = ch /\ \A i \in 1 .. Len(b) : c[i] = b[i]
  OBVIOUS
<1> HIDE DEF c
<1>2. \A i \in 1 .. Len(c) : i \in 1 .. Len(b) \/ i = Len(b) + 1
  BY <1>1
<1>3. \A i \in 1 .. Len(c) : a[i] = c[i]
  BY <1>1, <1>2
<1>4. a = c
  BY <1>1, <1>3
<1>5. QED
  BY <1>4 DEF c

LEMMA FrameShape ==
  ASSUME NEW k \in 1 .. Len(File)
  PROVE  /\ File[k] \in Seq(Char) /\ Len(File[k]) = DataLen
         /\ BlkNum(k) \in Char /\ ByteMod - 1 - BlkNum(k) \in Char
         /\ Frame(k) \in Seq(Char)
         /\ Len(Frame(k)) = DataLen + 4
         /\ Frame(k)[1] = SOH
         /\ Frame(k)[2] = BlkNum(k)
         /\ Frame(k)[3] = ByteMod - 1 - BlkNum(k)
         /\ \A i \in 1 .. DataLen : Frame(k)[i + 3] = File[k][i]
         /\ Frame(k)[DataLen + 4] = CheckSum(File[k])
<1>1. File[k] \in Seq(Char) /\ Len(File[k]) = DataLen
  BY LinkAssumption
<1>2. BlkNum(k) \in 0 .. ByteMod - 1
  BY ByteAssumption, NumInRange DEF BlkNum
<1>3. BlkNum(k) \in Char /\ ByteMod - 1 - BlkNum(k) \in Char
  BY <1>2, Constants DEF Char
<1>4. CheckSum(File[k]) \in Char
  BY <1>1, CheckSumInRange
<1> DEFINE head == <<SOH, BlkNum(k), ByteMod - 1 - BlkNum(k)>>
           last == <<CheckSum(File[k])>>
<1>5. head \in Seq(Char) /\ Len(head) = 3
  BY <1>3, Constants
<1>6. last \in Seq(Char) /\ Len(last) = 1
  BY <1>4
<1>7. Frame(k) = head \o File[k] \o last
  BY DEF Frame
<1>8. /\ head[1] = SOH /\ head[2] = BlkNum(k)
      /\ head[3] = ByteMod - 1 - BlkNum(k) /\ last[1] = CheckSum(File[k])
  OBVIOUS
<1> HIDE DEF head, last
<1>9. /\ Frame(k) \in Seq(Char) /\ Len(Frame(k)) = DataLen + 4
      /\ Frame(k)[1] = head[1] /\ Frame(k)[2] = head[2]
      /\ Frame(k)[3] = head[3] /\ Frame(k)[DataLen + 4] = last[1]
      /\ \A i \in 1 .. DataLen : Frame(k)[i + 3] = File[k][i]
  <2> DEFINE block == File[k]
             sent == head \o block
  <2>1. block \in Seq(Char) /\ Len(block) = DataLen
    BY <1>1
  <2> HIDE DEF block
  <2>2. /\ sent \in Seq(Char) /\ Len(sent) = DataLen + 3
        /\ \A i \in 1 .. 3 : sent[i] = head[i]
        /\ \A i \in 1 .. DataLen : sent[i + 3] = block[i]
    <3>1. /\ sent \in Seq(Char) /\ Len(sent) = Len(head) + Len(block)
          /\ \A i \in 1 .. Len(head) : sent[i] = head[i]
          /\ \A i \in 1 .. Len(block) : sent[i + Len(head)] = block[i]
      <4>1. sent = head \o block
        OBVIOUS
      <4> HIDE DEF sent
      <4>2. head \in Seq(Char) /\ block \in Seq(Char)
        BY <1>5, <2>1
      <4>3. QED
        BY <4>1, <4>2, Joined
    <3> HIDE DEF sent
    <3>2. QED
      BY <1>5, <2>1, <3>1, Constants
  <2>3. Frame(k) = sent \o last
    BY <1>7 DEF block
  <2> HIDE DEF sent
  <2>4. /\ Frame(k) \in Seq(Char) /\ Len(Frame(k)) = DataLen + 4
        /\ \A i \in 1 .. DataLen + 3 : Frame(k)[i] = sent[i]
        /\ Frame(k)[DataLen + 4] = last[1]
    <3>1. /\ Frame(k) \in Seq(Char) /\ Len(Frame(k)) = Len(sent) + Len(last)
          /\ \A i \in 1 .. Len(sent) : Frame(k)[i] = sent[i]
          /\ \A i \in 1 .. Len(last) : Frame(k)[i + Len(sent)] = last[i]
      <4> DEFINE frame == Frame(k)
      <4>1. frame = sent \o last
        BY <2>3
      <4>2. sent \in Seq(Char) /\ last \in Seq(Char)
        BY <1>6, <2>2
      <4> HIDE DEF frame
      <4>3. /\ frame \in Seq(Char) /\ Len(frame) = Len(sent) + Len(last)
            /\ \A i \in 1 .. Len(sent) : frame[i] = sent[i]
            /\ \A i \in 1 .. Len(last) : frame[i + Len(sent)] = last[i]
        BY <4>1, <4>2, Joined
      <4>4. QED
        BY <4>3 DEF frame
    <3>2. 1 \in 1 .. Len(last) /\ 1 + (DataLen + 3) = DataLen + 4
      BY <1>6, Constants
    <3>3. Frame(k)[DataLen + 4] = last[1]
      BY <2>2, <3>1, <3>2
    <3>4. QED
      BY <1>6, <2>2, <3>1, <3>3, Constants
  <2>5. \A i \in 1 .. DataLen : i + 3 \in 1 .. DataLen + 3
    BY Constants
  <2>6. /\ 1 \in 1 .. DataLen + 3 /\ 2 \in 1 .. DataLen + 3
        /\ 3 \in 1 .. DataLen + 3
    BY Constants
  <2>7. QED
    BY <2>2, <2>4, <2>5, <2>6 DEF block
<1>10. QED
  BY <1>1, <1>3, <1>8, <1>9

LEMMA EotShape ==
  ASSUME NEW k \in Nat, k > Len(File)
  PROVE  Frame(k) = <<EOT>> /\ Frame(k) \in Seq(Char) /\ Len(Frame(k)) = 1
  BY Constants DEF Frame

LEMMA FrameIsChars ==
  ASSUME NEW k \in Nat \ {0}
  PROVE  Frame(k) \in Seq(Char) /\ Frame(k) # <<>>
<1>1. CASE k <= Len(File)
  <2>1. k \in 1 .. Len(File)
    BY <1>1, Constants
  <2>2. Frame(k) \in Seq(Char) /\ Len(Frame(k)) = DataLen + 4
    BY <2>1, FrameShape
  <2>3. QED
    BY <2>2, Constants
<1>2. CASE ~ k <= Len(File)
  <2>1. k > Len(File)
    BY <1>2, Constants
  <2>2. QED
    BY <2>1, EotShape
<1>3. QED
  BY <1>1, <1>2

(* A damaged transmission is one character short, or differs in one.       *)
LEMMA DamageCases ==
  ASSUME NEW f \in Seq(Char), NEW d \in Damaged(f)
  PROVE  /\ d \in Seq(Char)
         /\ \/ Len(d) = Len(f) - 1
            \/ /\ Len(d) = Len(f)
               /\ \E i \in 1 .. Len(f) :
                    /\ d[i] # f[i] /\ d[i] \in Char
                    /\ Place(f, i) \in ChangeAt
                    /\ \A j \in 1 .. Len(f) : j # i => d[j] = f[j]
<1>1. CASE \E i \in DOMAIN f : d = RemoveAt(f, i)
  <2>1. PICK i \in DOMAIN f : d = RemoveAt(f, i)
    BY <1>1
  <2>2. i \in 1 .. Len(f)
    OBVIOUS
  <2>3. /\ SubSeq(f, 1, i - 1) \in Seq(Char)
        /\ Len(SubSeq(f, 1, i - 1)) = i - 1
        /\ SubSeq(f, i + 1, Len(f)) \in Seq(Char)
        /\ Len(SubSeq(f, i + 1, Len(f))) = Len(f) - i
    BY <2>2
  <2>4. d \in Seq(Char) /\ Len(d) = (i - 1) + (Len(f) - i)
    BY <2>1, <2>3 DEF RemoveAt
  <2>5. QED
    BY <2>2, <2>4
<1>2. CASE \E i \in {j \in DOMAIN f : Place(f, j) \in ChangeAt} :
             \E c \in Char \ {f[i]} : d = [f EXCEPT ![i] = c]
  <2>1. PICK i \in DOMAIN f, c \in Char :
          /\ c # f[i] /\ Place(f, i) \in ChangeAt
          /\ d = [f EXCEPT ![i] = c]
    BY <1>2
  <2>2. i \in 1 .. Len(f) /\ Len(f) \in Nat
    OBVIOUS
  <2>3. d \in Seq(Char) /\ Len(d) = Len(f)
    BY <2>1
  <2>4. d[i] = c /\ \A j \in 1 .. Len(f) : j # i => d[j] = f[j]
    BY <2>1
  <2>5. QED
    BY <2>1, <2>2, <2>3, <2>4
<1>3. QED
  BY <1>1, <1>2 DEF Damaged

(* How a damaged transmission begins.                                      *)
LEMMA HeadOfDamage ==
  ASSUME NEW f \in Seq(Char), Len(f) > 1, NEW d \in Damaged(f)
  PROVE  \/ d[1] = f[1]
         \/ Place(f, 1) \in ChangeAt
         \/ Place(f, 1) \in LoseAt /\ d[1] = f[2]
<1>1. CASE \E i \in {j \in DOMAIN f : Place(f, j) \in LoseAt} :
             d = RemoveAt(f, i)
  <2>1. PICK i \in 1 .. Len(f) : Place(f, i) \in LoseAt /\ d = RemoveAt(f, i)
    BY <1>1
  <2> DEFINE a == SubSeq(f, 1, i - 1)
             b == SubSeq(f, i + 1, Len(f))
  <2>2. /\ a \in Seq(Char) /\ Len(a) = i - 1
        /\ \A j \in 1 .. i - 1 : a[j] = f[j]
    OBVIOUS
  <2>3. b \in Seq(Char) /\ Len(b) = Len(f) - i
    OBVIOUS
  <2>4. i = 1 => b[1] = f[2]
    OBVIOUS
  <2>5. d = a \o b
    BY <2>1 DEF RemoveAt
  <2> HIDE DEF a, b
  <2>6. /\ \A j \in 1 .. Len(a) : d[j] = a[j]
        /\ \A j \in 1 .. Len(b) : d[j + Len(a)] = b[j]
    <3>1. a \in Seq(Char) /\ b \in Seq(Char)
      BY <2>2, <2>3
    <3>2. QED
      BY <2>5, <3>1, Joined
  <2>7. CASE i = 1
    <3>1. 1 \in 1 .. Len(b) /\ 1 + Len(a) = 1
      BY <2>2, <2>3, <2>7
    <3>2. d[1] = b[1]
      BY <2>6, <3>1
    <3>3. QED
      BY <2>1, <2>4, <2>7, <3>2
  <2>8. CASE i # 1
    <3>1. 1 \in 1 .. Len(a) /\ 1 \in 1 .. i - 1
      BY <2>2, <2>8
    <3>2. QED
      BY <2>2, <2>6, <3>1
  <2>9. QED
    BY <2>7, <2>8
<1>2. CASE \E i \in {j \in DOMAIN f : Place(f, j) \in ChangeAt} :
             \E c \in Char \ {f[i]} : d = [f EXCEPT ![i] = c]
  BY <1>2
<1>3. QED
  BY <1>1, <1>2 DEF Damaged

LEMMA TailShape ==
  ASSUME NEW T, NEW s \in Seq(T), s # <<>>
  PROVE  /\ Head(s) = s[1] /\ Tail(s) \in Seq(T) /\ Len(Tail(s)) = Len(s) - 1
         /\ \A i \in 1 .. Len(s) - 1 : Tail(s)[i] = s[i + 1]
  OBVIOUS

LEMMA TailOfOne ==
  ASSUME NEW T, NEW s \in Seq(T), Len(s) = 1
  PROVE  Tail(s) = <<>>
<1> DEFINE t == Tail(s)
<1>1. t \in Seq(T) /\ Len(t) = 0
  BY TailShape
<1> HIDE DEF t
<1>2. t = <<>>
  BY <1>1
<1>3. QED
  BY <1>2 DEF t

LEMMA FromThird ==
  ASSUME NEW T, NEW s \in Seq(T), Len(s) > 1
  PROVE  /\ SubSeq(s, 3, Len(s)) \in Seq(T)
         /\ Len(SubSeq(s, 3, Len(s))) = Len(s) - 2
         /\ \A i \in 1 .. Len(s) - 2 : SubSeq(s, 3, Len(s))[i] = s[i + 2]
<1>1. CASE Len(s) = 2
  BY <1>1
<1>2. CASE Len(s) > 2
  BY <1>2
<1>3. Len(s) = 2 \/ Len(s) > 2
  <2>1. \A n \in Nat : n > 1 => n = 2 \/ n > 2
    OBVIOUS
  <2>2. Len(s) \in Nat
    OBVIOUS
  <2>3. QED
    BY <2>1, <2>2
<1>4. QED
  BY <1>1, <1>2, <1>3

LEMMA AtMostOne ==
  ASSUME NEW a, NEW s \in {<<>>, <<a>>}
  PROVE  Len(s) <= 1 /\ \A b : s = <<b>> => b = a
<1>1. CASE s = <<>>
  BY <1>1
<1>2. CASE s = <<a>>
  BY <1>2
<1>3. QED
  BY <1>1, <1>2

LEMMA MoveHead ==
  ASSUME NEW T, NEW r \in Seq(T), NEW s \in Seq(T), s # <<>>
  PROVE  Append(r, Head(s)) \o Tail(s) = r \o s
  OBVIOUS

LEMMA SameBlocks ==
  ASSUME NEW T, NEW r \in Seq(T), NEW s \in Seq(T), Len(r) = Len(s),
         \A i \in 1 .. Len(r) : r[i] = s[i]
  PROVE  r = s
  OBVIOUS

LEMMA Prefixed ==
  ASSUME NEW T, NEW c \in T, NEW r \in Seq(T), NEW s \in Seq(T)
  PROVE  /\ (<<c>> \o r) \o s # <<>>
         /\ Head((<<c>> \o r) \o s) = c
         /\ Tail((<<c>> \o r) \o s) = r \o s
  OBVIOUS

LEMMA Passed ==
  ASSUME NEW T, NEW c \in T, NEW r \in Seq(T), NEW s \in Seq(T), s # <<>>
  PROVE  (<<c>> \o Append(r, Head(s))) \o Tail(s) = (<<c>> \o r) \o s
  OBVIOUS

LEMMA DataShape ==
  ASSUME NEW s \in Seq(Char), Len(s) = DataLen + 3
  PROVE  /\ SubSeq(s, 3, DataLen + 2) \in Seq(Char)
         /\ Len(SubSeq(s, 3, DataLen + 2)) = DataLen
         /\ \A i \in 1 .. DataLen : SubSeq(s, 3, DataLen + 2)[i] = s[i + 2]
<1>1. /\ 3 \in 1 .. Len(s) + 1 /\ DataLen + 2 \in 1 .. Len(s)
      /\ DataLen \in Nat
  BY Constants
<1>2. \A i \in 3 .. DataLen + 2 : s[i] \in Char
  BY <1>1
<1>3. QED
  BY <1>1, <1>2

(* What the receiver reads of an intact packet.                            *)
LEMMA IntactTail ==
  ASSUME NEW k \in 1 .. Len(File)
  PROVE  /\ Tail(Frame(k)) \in Seq(Char)
         /\ Len(Tail(Frame(k))) = DataLen + 3
         /\ Tail(Frame(k))[1] = BlkNum(k)
         /\ Tail(Frame(k))[2] = ByteMod - 1 - BlkNum(k)
         /\ Tail(Frame(k))[DataLen + 3] = CheckSum(File[k])
         /\ SubSeq(Tail(Frame(k)), 3, DataLen + 2) = File[k]
<1> DEFINE f == Frame(k)
           t == Tail(f)
           data == SubSeq(t, 3, DataLen + 2)
<1>1. f \in Seq(Char) /\ Len(f) = DataLen + 4 /\ f # <<>>
  BY FrameShape, Constants
<1>2. /\ t \in Seq(Char) /\ Len(t) = Len(f) - 1
      /\ \A i \in 1 .. Len(f) - 1 : t[i] = f[i + 1]
  BY <1>1, TailShape
<1> HIDE DEF t
<1>3. Len(t) = DataLen + 3 /\ \A i \in 1 .. DataLen + 3 : t[i] = f[i + 1]
  BY <1>1, <1>2, Constants
<1>4. /\ t[1] = f[2] /\ t[2] = f[3] /\ t[DataLen + 3] = f[DataLen + 4]
      /\ \A i \in 1 .. DataLen : t[i + 2] = f[i + 3]
  <2>1. /\ 1 \in 1 .. DataLen + 3 /\ 2 \in 1 .. DataLen + 3
        /\ DataLen + 3 \in 1 .. DataLen + 3
        /\ (DataLen + 3) + 1 = DataLen + 4
    BY Constants
  <2>2. \A i \in 1 .. DataLen :
          i + 2 \in 1 .. DataLen + 3 /\ (i + 2) + 1 = i + 3
    BY Constants
  <2>3. QED
    BY <1>3, <2>1, <2>2
<1>5. /\ f[2] = BlkNum(k) /\ f[3] = ByteMod - 1 - BlkNum(k)
      /\ f[DataLen + 4] = CheckSum(File[k])
      /\ \A i \in 1 .. DataLen : f[i + 3] = File[k][i]
  BY FrameShape
<1> HIDE DEF f
<1>6. /\ data \in Seq(Char) /\ Len(data) = DataLen
      /\ \A i \in 1 .. DataLen : data[i] = t[i + 2]
  BY <1>2, <1>3, DataShape
<1>7. File[k] \in Seq(Char) /\ Len(File[k]) = DataLen
  BY FrameShape
<1> HIDE DEF data
<1>8. data = File[k]
  <2> DEFINE block == File[k]
  <2>1. block \in Seq(Char) /\ Len(block) = DataLen
        /\ \A i \in 1 .. DataLen : data[i] = block[i]
    BY <1>4, <1>5, <1>6, <1>7
  <2> HIDE DEF block
  <2>2. data = block
    BY <1>6, <2>1
  <2>3. QED
    BY <2>2 DEF block
<1>9. QED
  BY <1>2, <1>3, <1>4, <1>5, <1>8 DEF t, f, data

(* A packet that is short of a character, or has one changed, fails the    *)
(* checks of the receiver.                                                 *)
LEMMA DamageDetected ==
  ASSUME NEW k \in 1 .. Len(File), NEW d \in Damaged(Frame(k)),
         d # <<>>, Head(d) = SOH
  PROVE  /\ d \in Seq(Char) /\ Len(Tail(d)) <= DataLen + 3
         /\ ~ Consistent(Tail(d))
<1> DEFINE f == Frame(k)
           t == Tail(f)
           s == Tail(d)
<1>1. f \in Seq(Char) /\ Len(f) = DataLen + 4 /\ f # <<>> /\ f[1] = SOH
  BY FrameShape, Constants
<1>2. /\ d \in Seq(Char)
      /\ \/ Len(d) = Len(f) - 1
         \/ /\ Len(d) = Len(f)
            /\ \E i \in 1 .. Len(f) :
                 /\ d[i] # f[i] /\ d[i] \in Char
                 /\ \A j \in 1 .. Len(f) : j # i => d[j] = f[j]
  BY <1>1, DamageCases
<1>3. /\ s \in Seq(Char) /\ Len(s) = Len(d) - 1 /\ d[1] = SOH
      /\ \A i \in 1 .. Len(d) - 1 : s[i] = d[i + 1]
  BY <1>2, TailShape
<1>4. /\ t \in Seq(Char)
      /\ \A i \in 1 .. Len(f) - 1 : t[i] = f[i + 1]
  BY <1>1, TailShape
<1>5. /\ t[1] = BlkNum(k) /\ t[2] = ByteMod - 1 - BlkNum(k)
      /\ t[DataLen + 3] = CheckSum(File[k])
      /\ SubSeq(t, 3, DataLen + 2) = File[k]
      /\ Len(t) = DataLen + 3
  BY IntactTail
<1>6. BlkNum(k) \in Int
  BY FrameShape DEF Char
<1> HIDE DEF f, t, s
<1>7. Len(s) <= DataLen + 3
  BY <1>1, <1>2, <1>3, Constants
<1>8. ~ Consistent(s)
  <2>1. SUFFICES ASSUME Consistent(s) PROVE FALSE
    OBVIOUS
  <2>2. /\ Len(s) = DataLen + 3 /\ s[2] = ByteMod - 1 - s[1]
        /\ s[DataLen + 3] = CheckSum(SubSeq(s, 3, DataLen + 2))
    BY <2>1 DEF Consistent
  <2>3. PICK i \in 1 .. Len(f) :
               /\ d[i] # f[i] /\ d[i] \in Char
               /\ \A j \in 1 .. Len(f) : j # i => d[j] = f[j]
    <3>1. Len(d) # Len(f) - 1
      BY <1>1, <1>2, <1>3, <2>2, Constants
    <3>2. QED
      BY <1>2, <3>1
  <2>4. Len(d) = DataLen + 4
    BY <1>1, <1>2, <1>3, <2>2, Constants
  <2>5. i # 1
    BY <1>1, <1>3, <2>3
  <2> DEFINE n == i - 1
  <2>6. n \in 1 .. DataLen + 3
    BY <1>1, <2>5, Constants
  <2>7. s[n] # t[n] /\ \A j \in 1 .. DataLen + 3 : j # n => s[j] = t[j]
    <3>1. \A j \in 1 .. DataLen + 3 :
            /\ s[j] = d[j + 1] /\ t[j] = f[j + 1]
            /\ j + 1 \in 1 .. Len(f)
            /\ j # n => j + 1 # i
      BY <1>1, <1>3, <1>4, <2>4, Constants
    <3>2. n + 1 = i
      BY <2>6, Constants
    <3> HIDE DEF n
    <3>3. s[n] = d[i] /\ t[n] = f[i]
      BY <2>6, <3>1, <3>2
    <3>4. ASSUME NEW j \in 1 .. DataLen + 3, j # n
          PROVE  s[j] = t[j]
      <4>1. d[j + 1] = f[j + 1]
        BY <2>3, <3>1, <3>4
      <4>2. QED
        BY <3>1, <4>1
    <3>5. QED
      BY <2>3, <3>3, <3>4
  <2> HIDE DEF n
  <2>8. s[1] \in Int /\ t[1] \in Int /\ ByteMod \in Int
    <3>1. 1 \in 1 .. Len(s) /\ s[1] \in Char
      BY <1>3, <2>2, Constants
    <3>2. QED
      BY <1>5, <1>6, <3>1, Constants DEF Char
  <2>9. 1 \in 1 .. DataLen + 3 /\ 2 \in 1 .. DataLen + 3
        /\ DataLen + 3 \in 1 .. DataLen + 3
    BY Constants
  <2>10. CASE n = 1
    <3>1. s[2] = t[2] /\ s[1] # t[1]
      BY <2>7, <2>9, <2>10
    <3>2. QED
      BY <1>5, <2>2, <2>8, <3>1
  <2>11. CASE n = 2
    <3>1. s[1] = t[1] /\ s[2] # t[2]
      BY <2>7, <2>9, <2>11
    <3>2. QED
      BY <1>5, <2>2, <3>1
  <2> DEFINE a == SubSeq(s, 3, DataLen + 2)
             b == SubSeq(t, 3, DataLen + 2)
  <2>12. /\ a \in Seq(Char) /\ Len(a) = DataLen
         /\ \A j \in 1 .. DataLen : a[j] = s[j + 2]
    BY <1>3, <2>2, DataShape
  <2>13. /\ b \in Seq(Char) /\ Len(b) = DataLen
         /\ \A j \in 1 .. DataLen : b[j] = t[j + 2]
    BY <1>4, <1>5, DataShape
  <2>14. t[DataLen + 3] = CheckSum(b) /\ s[DataLen + 3] = CheckSum(a)
    BY <1>5, <2>2
  <2> HIDE DEF a, b
  <2>15. \A j \in 1 .. DataLen : j + 2 \in 1 .. DataLen + 3
    BY Constants
  <2>16. CASE n = DataLen + 3
    <3>1. \A j \in 1 .. DataLen : j + 2 # n
      BY <2>16, Constants
    <3>2. \A j \in 1 .. DataLen : a[j] = b[j]
      BY <2>7, <2>12, <2>13, <2>15, <3>1
    <3>3. a = b
      BY <2>12, <2>13, <3>2
    <3>4. QED
      BY <2>7, <2>14, <2>16, <3>3
  <2>17. CASE n \in 3 .. DataLen + 2
    <3> DEFINE m == n - 2
    <3>1. /\ m \in 1 .. DataLen /\ m + 2 = n /\ DataLen + 3 # n
          /\ \A j \in 1 .. DataLen : j # m => j + 2 # n
      BY <2>17, Constants
    <3> HIDE DEF m
    <3>2. a[m] # b[m] /\ \A j \in 1 .. DataLen : j # m => a[j] = b[j]
      BY <2>7, <2>12, <2>13, <2>15, <3>1
    <3>3. CheckSum(a) # CheckSum(b)
      <4>1. /\ Len(a) = Len(b) /\ m \in 1 .. Len(a)
            /\ \A j \in 1 .. Len(a) : j # m => a[j] = b[j]
        BY <2>12, <2>13, <3>1, <3>2
      <4>2. a \in Seq(Char) /\ b \in Seq(Char)
        BY <2>12, <2>13
      <4>3. QED
        BY <3>2, <4>1, <4>2, SumDetects
    <3>4. s[DataLen + 3] = t[DataLen + 3]
      BY <2>7, <2>9, <3>1
    <3>5. QED
      BY <2>14, <3>3, <3>4
  <2>18. n \in {1, 2, DataLen + 3} \cup 3 .. DataLen + 2
    BY <2>6, Constants
  <2>19. QED
    BY <2>10, <2>11, <2>16, <2>17, <2>18
<1>9. QED
  BY <1>2, <1>7, <1>8 DEF s

(* What the receiver reads of a transmission that begins with SOH passes   *)
(* its checks only when it is the packet that was sent.                    *)
LEMMA ReadOfTransmission ==
  ASSUME NEW k \in 1 .. Len(File) + 1,
         NEW f \in {Frame(k)} \cup Damaged(Frame(k)),
         f # <<>>, Head(f) = SOH
  PROVE  /\ f \in Seq(Char) /\ Len(Tail(f)) <= DataLen + 3
         /\ Consistent(Tail(f)) =>
              /\ k \in 1 .. Len(File)
              /\ Tail(f) = Tail(Frame(k))
<1>1. CASE k \in 1 .. Len(File)
  <2>1. CASE f = Frame(k)
    <3>1. Len(Tail(f)) = DataLen + 3 /\ f \in Seq(Char)
      BY <1>1, <2>1, IntactTail, FrameShape
    <3>2. QED
      BY <1>1, <2>1, <3>1, Constants
  <2>2. CASE f \in Damaged(Frame(k))
    BY <1>1, <2>2, DamageDetected
  <2>3. QED
    BY <2>1, <2>2
<1>2. CASE k = Len(File) + 1
  <2>1. k \in Nat /\ k > Len(File)
    BY <1>2, Constants
  <2>2. Frame(k) \in Seq(Char) /\ Len(Frame(k)) = 1
    BY <2>1, EotShape
  <2>3. f \in Seq(Char) /\ Len(f) \in {0, 1}
    BY <2>2, DamageCases
  <2> DEFINE t == Tail(f)
  <2>4. Len(t) = 0
    BY <2>3, TailShape
  <2> HIDE DEF t
  <2>5. ~ Consistent(t) /\ Len(t) <= DataLen + 3
    BY <2>4, Constants DEF Consistent
  <2>6. QED
    BY <2>3, <2>5 DEF t
<1>3. QED
  BY <1>1, <1>2, Constants

-----------------------------------------------------------------------------
(* The steps of the link.                                                  *)
LEMMA ReceiveStep ==
  ASSUME LinkTypeOK, Receive
  PROVE  /\ Offered \in Offer
         /\ Next
         /\ line' \in Seq(Char)
<1>1. line \in Seq(Char)
  BY DEF LinkTypeOK
<1>2. line # <<>> => Head(line) \in Char /\ Tail(line) \in Seq(Char)
  BY <1>1
<1>3. Offered \in Offer
  BY <1>2 DEF Offered, Offer
<1>4. Read(Offered)
  BY DEF Receive
<1>5. Consumes => line # <<>>
  BY DEF Consumes, Offered, c_get_char_timout
<1>6. line' = IF Consumes THEN Tail(line) ELSE line
  BY DEF Receive
<1>7. QED
  BY <1>1, <1>2, <1>3, <1>4, <1>5, <1>6 DEF Next

LEMMA AnswerStep ==
  ASSUME LinkTypeOK, NEW a \in {ACK, NAK, None}, Answer(a)
  PROVE  /\ answers' \in Seq({ACK, NAK}) /\ Len(answers') <= MaxAnswers
         /\ faults' \in 0 .. MaxFaults
         /\ a = None => answers' = answers
         /\ "change" \notin AnswerFaults =>
              answers' \in {answers, Append(answers, a)}
<1>1. /\ answers \in Seq({ACK, NAK}) /\ Len(answers) <= MaxAnswers
      /\ faults \in 0 .. MaxFaults /\ MaxAnswers \in Nat /\ MaxFaults \in Nat
      /\ ACK # None /\ NAK # None
  BY LinkAssumption, ByteAssumption DEF LinkTypeOK
<1>2. CASE a = None
  BY <1>1, <1>2 DEF Answer
<1>3. CASE a # None /\ answers' = Append(answers, a) /\ UNCHANGED faults
  <2>1. Len(answers) < MaxAnswers
    BY <1>3 DEF Answer
  <2>2. answers' \in Seq({ACK, NAK}) /\ Len(answers') = Len(answers) + 1
    BY <1>1, <1>3
  <2>3. QED
    BY <1>1, <1>3, <2>1, <2>2
<1>4. CASE a # None /\ faults < MaxFaults /\ faults' = faults + 1
           /\ \E d \in Delivered(a) : answers' = answers \o d
  <2>1. Len(answers) < MaxAnswers
    BY <1>4 DEF Answer
  <2>2. PICK d \in Delivered(a) : answers' = answers \o d
    BY <1>4
  <2>3. d = <<>> \/ ("change" \in AnswerFaults /\ d \in {<<ACK>>, <<NAK>>})
    BY <2>2 DEF Delivered
  <2>4. faults' \in 0 .. MaxFaults
    BY <1>1, <1>4
  <2>5. CASE d = <<>>
    <3>1. answers' = answers
      BY <1>1, <2>2, <2>5
    <3>2. QED
      BY <1>1, <1>4, <2>4, <3>1
  <2>6. CASE "change" \in AnswerFaults /\ d \in {<<ACK>>, <<NAK>>}
    <3>1. d \in Seq({ACK, NAK}) /\ Len(d) = 1
      <4>1. PICK b \in {ACK, NAK} : d = <<b>>
        BY <2>6
      <4>2. QED
        BY <4>1
    <3>2. answers' \in Seq({ACK, NAK}) /\ Len(answers') = Len(answers) + Len(d)
      BY <1>1, <2>2, <3>1, Joined
    <3>3. Len(answers') <= MaxAnswers
      BY <1>1, <2>1, <3>1, <3>2
    <3>4. QED
      BY <1>4, <2>4, <2>6, <3>2, <3>3
  <2>7. QED
    BY <2>3, <2>5, <2>6
<1>5. QED
  BY <1>2, <1>3, <1>4 DEF Answer

LEMMA TransmitStep ==
  ASSUME LinkTypeOK, NEW k \in Nat \ {0}, Transmit(k)
  PROVE  /\ line' \in Seq(Char) /\ faults' \in 0 .. MaxFaults
         /\ \E f \in {Frame(k)} \cup Damaged(Frame(k)) :
              f \in Seq(Char) /\ line' = line \o f
<1>1. line \in Seq(Char) /\ faults \in 0 .. MaxFaults /\ MaxFaults \in Nat
  BY LinkAssumption DEF LinkTypeOK
<1>2. Frame(k) \in Seq(Char)
  BY FrameIsChars
<1>3. faults' \in 0 .. MaxFaults
  BY <1>1 DEF Transmit
<1>4. PICK f \in {Frame(k)} \cup Damaged(Frame(k)) : line' = line \o f
  BY DEF Transmit
<1>5. f \in Seq(Char)
  BY <1>2, <1>4, DamageCases
<1>6. line' \in Seq(Char)
  BY <1>1, <1>4, <1>5
<1>7. QED
  BY <1>3, <1>4, <1>5, <1>6

(* The sender's index stays in range, and an answer is taken.              *)
LEMMA SenderStep ==
  ASSUME LinkTypeOK, Sender
  PROVE  /\ answers' \in Seq({ACK, NAK})
         /\ Len(answers') = Len(answers) - 1
         /\ sending' \in 0 .. Len(File) + 2
         /\ line' \in Seq(Char) /\ faults' \in 0 .. MaxFaults
         /\ UNCHANGED vars
<1>1. /\ answers \in Seq({ACK, NAK}) /\ line \in Seq(Char)
      /\ faults \in 0 .. MaxFaults /\ sending \in 0 .. Len(File) + 2
  BY DEF LinkTypeOK
<1>2. answers # <<>> /\ answers' = Tail(answers) /\ UNCHANGED vars
  BY DEF Sender, SenderNak, SenderAck, SenderEnd
<1>3. answers' \in Seq({ACK, NAK}) /\ Len(answers') = Len(answers) - 1
  BY <1>1, <1>2
<1>4. CASE SenderNak
  <2>1. sending' \in 0 .. Len(File) + 2 /\ sending' \in Nat \ {0}
    BY <1>1, <1>4, Constants DEF SenderNak
  <2>2. Transmit(sending')
    BY <1>4 DEF SenderNak
  <2>3. line' \in Seq(Char) /\ faults' \in 0 .. MaxFaults
    BY <2>1, <2>2, TransmitStep
  <2>4. QED
    BY <1>2, <1>3, <2>1, <2>3
<1>5. CASE SenderAck
  <2>1. sending' \in 0 .. Len(File) + 2 /\ sending' \in Nat \ {0}
    BY <1>1, <1>5, Constants DEF SenderAck
  <2>2. Transmit(sending')
    BY <1>5 DEF SenderAck
  <2>3. line' \in Seq(Char) /\ faults' \in 0 .. MaxFaults
    BY <2>1, <2>2, TransmitStep
  <2>4. QED
    BY <1>2, <1>3, <2>1, <2>3
<1>6. CASE SenderEnd
  <2>1. sending' \in 0 .. Len(File) + 2
    BY <1>6, Constants DEF SenderEnd
  <2>2. UNCHANGED <<line, faults>>
    BY <1>6 DEF SenderEnd
  <2>3. QED
    BY <1>1, <1>2, <1>3, <2>1, <2>2
<1>7. QED
  BY <1>4, <1>5, <1>6 DEF Sender

LEMMA LinkTypeInit == LinkInit => LinkTypeOK
<1> SUFFICES ASSUME LinkInit PROVE LinkTypeOK
  OBVIOUS
<1>1. TypeOK
  BY ByteAssumption DEF LinkInit, Init, TypeOK, Char, RX_BUF_SIZE
<1>2. QED
  BY <1>1, LinkAssumption, Constants DEF LinkInit, LinkTypeOK

LEMMA LinkTypeStep == LinkTypeOK /\ [LinkNext]_allVars => LinkTypeOK'
<1> SUFFICES ASSUME LinkTypeOK, [LinkNext]_allVars PROVE LinkTypeOK'
  OBVIOUS
<1>1. CASE UNCHANGED allVars
  BY <1>1 DEF allVars, vars, linkVars, LinkTypeOK, TypeOK
<1>2. CASE Receive
  <2>1. TypeOK'
    BY <1>2, ReceiveStep, TypeStep DEF LinkTypeOK
  <2>2. Answer(put') /\ put' \in {ACK, NAK, None}
    BY <1>2, <2>1 DEF Receive, TypeOK
  <2>3. /\ answers' \in Seq({ACK, NAK}) /\ Len(answers') <= MaxAnswers
        /\ faults' \in 0 .. MaxFaults
    BY <2>2, AnswerStep
  <2>4. line' \in Seq(Char) /\ sending' = sending
    BY <1>2, ReceiveStep DEF Receive
  <2>5. QED
    BY <2>1, <2>3, <2>4 DEF LinkTypeOK
<1>3. CASE Sender
  <2>1. TypeOK'
    BY <1>3, SenderStep, TypeStep DEF LinkTypeOK
  <2>2. Len(answers') <= MaxAnswers
    <3>1. /\ Len(answers) <= MaxAnswers /\ MaxAnswers \in Nat
          /\ Len(answers) \in Nat
      BY LinkAssumption DEF LinkTypeOK
    <3>2. QED
      BY <1>3, <3>1, SenderStep
  <2>3. QED
    BY <1>3, <2>1, <2>2, SenderStep DEF LinkTypeOK
<1>4. QED
  BY <1>1, <1>2, <1>3 DEF LinkNext

(* Every variable of the link keeps its type, and no more answers wait     *)
(* than the bound allows.                                                  *)
THEOREM LinkTyping == LinkSpec => []LinkTypeOK
  BY LinkTypeInit, LinkTypeStep, PTL DEF LinkSpec

(* The receiver at the end of the line is the receiver of Xmodem, which    *)
(* takes whatever a line can offer: what is proved of that one holds of    *)
(* this one.                                                               *)
THEOREM LinkIsReceiver == LinkSpec => Spec
<1>1. LinkInit => Init
  BY DEF LinkInit
<1>2. LinkTypeOK /\ [LinkNext]_allVars => [Next]_vars
  <2>1. LinkTypeOK /\ Receive => Next
    BY ReceiveStep
  <2>2. LinkTypeOK /\ Sender => UNCHANGED vars
    BY SenderStep
  <2>3. UNCHANGED allVars => UNCHANGED vars
    BY DEF allVars
  <2>4. QED
    BY <2>1, <2>2, <2>3 DEF LinkNext
<1>3. QED
  BY <1>1, <1>2, LinkTyping, PTL DEF LinkSpec, Spec

(* On a line with any damage, with a sender of any speed, the sequence     *)
(* counter and memory stay together.                                       *)
THEOREM LinkNumbers == LinkSpec => []NumberMatchesMemory
  BY LinkIsReceiver, NumberTheorem, PTL

(* There too an ACK to a packet names the last block in memory, and        *)
(* memory is only ever extended.                                           *)
THEOREM LinkAcks == LinkSpec => AckNamesLastBlock /\ MemoryOnlyGrows
  BY LinkIsReceiver, AckNamesTheorem, GrowTheorem, PTL

-----------------------------------------------------------------------------
(* A prompt sender: one transmission or one answer at a time.              *)

LEMMA PrefixPointwise ==
  ASSUME NEW T, NEW s \in Seq(T), NEW t \in Seq(T)
  PROVE  IsPrefix(s, t) <=>
           /\ Len(s) <= Len(t)
           /\ \A i \in 1 .. Len(s) : s[i] = t[i]
<1>1. SUFFICES ASSUME Len(s) <= Len(t)
               PROVE  SubSeq(s, 1, Len(s)) = SubSeq(t, 1, Len(s))
                        <=> \A i \in 1 .. Len(s) : s[i] = t[i]
  BY DEF IsPrefix
<1> DEFINE a == SubSeq(s, 1, Len(s))
           b == SubSeq(t, 1, Len(s))
<1>2. /\ a \in Seq(T) /\ Len(a) = Len(s)
      /\ \A i \in 1 .. Len(s) : a[i] = s[i]
  OBVIOUS
<1>3. /\ b \in Seq(T) /\ Len(b) = Len(s)
      /\ \A i \in 1 .. Len(s) : b[i] = t[i]
  BY <1>1
<1> HIDE DEF a, b
<1>4. a = b <=> \A i \in 1 .. Len(s) : a[i] = b[i]
  BY <1>2, <1>3
<1>5. QED
  BY <1>2, <1>3, <1>4 DEF a, b

(* Every block of the file is a block.                                     *)
LEMMA FileBlocks == File \in Seq(Seq(Char))
  BY LinkAssumption

(* A step of the receiver takes a character from the line, or the line and *)
(* the other direction are silent; only the first read does not wait.      *)
LEMMA ReadCases ==
  ASSUME Prompt, LinkTypeOK, Receive
  PROVE  \E ch \in Offer :
           /\ \/ ClearPending(ch) \/ WaitForNewPacket(ch) \/ ReceiveChar(ch)
              \/ StoreBlock(ch) \/ AckAgain(ch) \/ RejectPacket(ch)
              \/ Purge(ch)
           /\ \/ /\ ch = GETCHAR_TIMED_OUT
                 /\ line' = line
                 /\ state # "ClearPending" => line = <<>> /\ answers = <<>>
              \/ /\ ch \in Char
                 /\ line # <<>>
                 /\ ch = Head(line) /\ line' = Tail(line)
<1> DEFINE ch == c_get_char_timout(Deadline, Offered)
<1>1. ch \in Offer
  BY ReceiveStep, ReadResult
<1>2. \/ ClearPending(ch) \/ WaitForNewPacket(ch) \/ ReceiveChar(ch)
      \/ StoreBlock(ch) \/ AckAgain(ch) \/ RejectPacket(ch)
      \/ Purge(ch)
  BY DEF Receive, Read
<1>3. line' = IF ch # GETCHAR_TIMED_OUT THEN Tail(line) ELSE line
  BY DEF Receive, Consumes
<1>4. line \in Seq(Char)
  BY DEF LinkTypeOK
<1>5. line # <<>> => Head(line) \in Char
  BY <1>4
<1>6. CASE Deadline = 0
  <2>1. ch = GETCHAR_TIMED_OUT
    BY <1>6 DEF c_get_char_timout
  <2>2. state = "ClearPending"
    <3>1. gSysClock \in Nat /\ gSysClock # 0
      BY ClockAssumption DEF Prompt
    <3>2. one_second # 0 /\ ten_seconds # 0
      BY <3>1 DEF one_second, ten_seconds
    <3>3. QED
      BY <1>6, <3>2 DEF Deadline
  <2>3. QED
    BY <1>1, <1>2, <1>3, <2>1, <2>2
<1>7. CASE Deadline # 0
  <2>1. ch = Offered
    BY <1>7 DEF c_get_char_timout
  <2>2. CASE line = <<>>
    <3>1. ch = GETCHAR_TIMED_OUT
      BY <2>1, <2>2 DEF Offered
    <3>2. Deadline > 0
      BY <1>7, ClockAssumption DEF Deadline, one_second, ten_seconds
    <3>3. answers = <<>>
      BY <2>2, <3>2 DEF Receive, Prompt
    <3>4. QED
      BY <1>1, <1>2, <1>3, <2>2, <3>1, <3>3
  <2>3. CASE line # <<>>
    <3>1. ch = Head(line) /\ ch \in Char
      BY <1>5, <2>1, <2>3 DEF Offered
    <3>2. ch # GETCHAR_TIMED_OUT
      BY <3>1, Constants
    <3>3. QED
      BY <1>1, <1>2, <1>3, <2>3, <3>1, <3>2
  <2>4. QED
    BY <2>2, <2>3
<1>8. QED
  BY <1>6, <1>7

(* At the end of a packet the next character is the last on the line, and  *)
(* xmodem_load() finds the packet valid exactly if what followed SOH is    *)
(* consistent.                                                             *)
LEMMA PacketComplete ==
  ASSUME LinkInv, NEW ch \in Char, PacketEnd, line # <<>>, ch = Head(line)
  PROVE  /\ Consistent(rx_buf \o line) <=> PacketValid(ch)
         /\ (rx_buf \o line)[1] = blk_num
         /\ SubSeq(rx_buf \o line, 3, DataLen + 2)
              = SubSeq(rx_buf, 3, RX_BUF_SIZE)
         /\ Tail(line) = <<>>
<1>1. /\ state = "ReceivePacket" /\ Len(rx_buf) = DataLen + 2
      /\ rx_buf \in Seq(Char) /\ line \in Seq(Char)
  BY DEF PacketEnd, RX_BUF_SIZE, LinkInv, LinkTypeOK, TypeOK
<1>2. /\ Len(rx_buf \o line) <= DataLen + 3
      /\ crc = CheckSum(SubSeq(rx_buf, 3, Len(rx_buf)))
  BY <1>1 DEF LinkInv, PacketIsCurrent, SumIsCurrent
<1> DEFINE s == rx_buf \o line
<1>3. /\ s \in Seq(Char) /\ Len(s) = Len(rx_buf) + Len(line)
      /\ \A i \in 1 .. Len(rx_buf) : s[i] = rx_buf[i]
      /\ \A i \in 1 .. Len(line) : s[i + Len(rx_buf)] = line[i]
  <2>1. rx_buf \in Seq(Char) /\ line \in Seq(Char)
    BY <1>1
  <2>2. QED
    BY <2>1, Joined
<1>4. Len(s) <= DataLen + 3
  BY <1>2
<1> HIDE DEF s
<1>5. Len(line) = 1 /\ line[1] = ch /\ Tail(line) = <<>>
  <2>1. line \in Seq(Char) /\ line # <<>>
    BY <1>1
  <2>2. Len(line) \in Nat /\ Len(line) # 0 /\ line[1] = ch
    BY <2>1
  <2>3. Len(line) = 1
    <3>1. DataLen \in Nat /\ Len(rx_buf) = DataLen + 2
      BY <1>1, Constants
    <3>2. Len(rx_buf) + Len(line) <= DataLen + 3
      BY <1>3, <1>4
    <3> DEFINE l == Len(line)
    <3>3. l \in Nat /\ l # 0 /\ (DataLen + 2) + l <= DataLen + 3
      BY <2>2, <3>1, <3>2
    <3> HIDE DEF l
    <3>4. l = 1
      BY <3>1, <3>3
    <3>5. QED
      BY <3>4 DEF l
  <2>4. Tail(line) = <<>>
    BY <2>1, <2>3, TailOfOne
  <2>5. QED
    BY <2>2, <2>3, <2>4
<1>6. Len(s) = DataLen + 3 /\ s[DataLen + 3] = ch
      /\ \A i \in 1 .. DataLen + 2 : s[i] = rx_buf[i]
  <2>1. 1 \in 1 .. Len(line) /\ 1 + Len(rx_buf) = DataLen + 3
    BY <1>1, <1>5, Constants
  <2>2. QED
    BY <1>1, <1>3, <1>5, <2>1, Constants
<1> DEFINE a == SubSeq(s, 3, DataLen + 2)
           b == SubSeq(rx_buf, 3, DataLen + 2)
<1>7. /\ a \in Seq(Char) /\ Len(a) = DataLen
      /\ \A i \in 1 .. DataLen : a[i] = s[i + 2]
  BY <1>3, <1>6, DataShape
<1>8. /\ b \in Seq(Char) /\ Len(b) = DataLen
      /\ \A i \in 1 .. DataLen : b[i] = rx_buf[i + 2]
  <2>1. /\ 3 \in 1 .. Len(rx_buf) + 1 /\ DataLen + 2 \in 1 .. Len(rx_buf)
        /\ DataLen \in Nat
    BY <1>1, Constants
  <2>2. \A i \in 3 .. DataLen + 2 : rx_buf[i] \in Char
    BY <1>1, <2>1
  <2>3. QED
    BY <1>1, <2>1, <2>2
<1>9. a = b
  <2> HIDE DEF a, b
  <2>1. \A i \in 1 .. DataLen : i + 2 \in 1 .. DataLen + 2
    BY Constants
  <2>2. QED
    BY <1>6, <1>7, <1>8, <2>1
<1>10. s[1] = rx_buf[1] /\ s[2] = rx_buf[2]
  BY <1>6, Constants
<1>11. Consistent(s) <=> PacketValid(ch)
  BY <1>1, <1>2, <1>6, <1>9, <1>10 DEF Consistent, PacketValid, blk_num
<1>12. QED
  BY <1>5, <1>9, <1>10, <1>11 DEF blk_num, RX_BUF_SIZE, s

(* If it is valid the receiver holds the block being sent.                 *)
LEMMA PacketRead ==
  ASSUME LinkInv, NEW ch \in Char, PacketEnd, PacketValid(ch),
         line # <<>>, ch = Head(line)
  PROVE  /\ sending \in 1 .. Len(File)
         /\ blk_num = sending % ByteMod
         /\ SubSeq(rx_buf, 3, RX_BUF_SIZE) = File[sending]
         /\ Tail(line) = <<>>
<1>1. state = "ReceivePacket" /\ Consistent(rx_buf \o line)
  BY PacketComplete DEF PacketEnd
<1>2. sending \in 1 .. Len(File) /\ rx_buf \o line = Tail(Frame(sending))
  BY <1>1 DEF LinkInv, PacketIsCurrent
<1>3. /\ (rx_buf \o line)[1] = BlkNum(sending)
      /\ SubSeq(rx_buf \o line, 3, DataLen + 2) = File[sending]
  BY <1>2, IntactTail
<1>4. QED
  BY <1>2, <1>3, PacketComplete DEF BlkNum

(* The running sum after one more character of a packet.                   *)
LEMMA SumGrows ==
  ASSUME NEW r \in Seq(Char), NEW ch \in Char
  PROVE  CheckSum(SubSeq(Append(r, ch), 3, Len(Append(r, ch))))
           = IF Len(r) > 1
             THEN (CheckSum(SubSeq(r, 3, Len(r))) + ch) % ByteMod
             ELSE 0
<1> DEFINE t == Append(r, ch)
<1>1. /\ t \in Seq(Char) /\ Len(t) = Len(r) + 1 /\ Len(r) \in Nat
      /\ t[Len(r) + 1] = ch /\ \A i \in 1 .. Len(r) : t[i] = r[i]
  OBVIOUS
<1> HIDE DEF t
<1>2. CASE Len(r) > 1
  <2> DEFINE a == SubSeq(t, 3, Len(t))
             b == SubSeq(r, 3, Len(r))
  <2>1. /\ b \in Seq(Char) /\ Len(b) = Len(r) - 2
        /\ \A i \in 1 .. Len(r) - 2 : b[i] = r[i + 2]
    BY <1>2, FromThird
  <2>2. /\ a \in Seq(Char) /\ Len(a) = Len(r) - 1
        /\ \A i \in 1 .. Len(r) - 1 : a[i] = t[i + 2]
    BY <1>1, <1>2
  <2> HIDE DEF a, b
  <2>3. \A i \in 1 .. Len(r) - 2 : a[i] = b[i]
    <3>1. \A i \in 1 .. Len(r) - 2 :
            i \in 1 .. Len(r) - 1 /\ i + 2 \in 1 .. Len(r)
      BY <1>1, <1>2
    <3>2. QED
      BY <1>1, <2>1, <2>2, <3>1
  <2>4. a[Len(r) - 1] = ch
    <3>1. Len(r) - 1 \in 1 .. Len(r) - 1 /\ (Len(r) - 1) + 2 = Len(r) + 1
      BY <1>1, <1>2
    <3>2. QED
      BY <1>1, <2>2, <3>1
  <2>5. a = Append(b, ch)
    <3>1. Len(a) = Len(b) + 1 /\ Len(b) + 1 = Len(r) - 1
      BY <1>1, <1>2, <2>1, <2>2
    <3>2. \A i \in 1 .. Len(b) : a[i] = b[i]
      BY <2>1, <2>3
    <3>3. QED
      BY <2>1, <2>2, <2>4, <3>1, <3>2, AppendOnly
  <2>6. CheckSum(a) = (CheckSum(b) + ch) % ByteMod
    BY <2>1, <2>5, SumOfAppend
  <2>7. QED
    BY <1>2, <2>6 DEF a, b, t
<1>3. CASE ~ Len(r) > 1
  <2>1. SubSeq(t, 3, Len(t)) = <<>>
    BY <1>1, <1>3
  <2>2. QED
    BY <1>3, <2>1, SumOfEmpty DEF t
<1>4. QED
  BY <1>2, <1>3

LEMMA LinkInvInit == LinkInit => LinkInv
<1> SUFFICES ASSUME LinkInit PROVE LinkInv
  OBVIOUS
<1>1. LinkTypeOK
  BY LinkTypeInit
<1>2. /\ state = "ClearPending" /\ pmem = <<>> /\ expected_blk_num = 1
      /\ answers = <<>> /\ sending = 0
  BY DEF LinkInit, Init
<1>3. NumberMatchesMemory
  BY NumberInit DEF LinkInit
<1>4. MemoryIsPrefix
  <2>1. SubSeq(<<>>, 1, 0) = <<>> /\ SubSeq(File, 1, 0) = <<>>
    BY FileBlocks
  <2>2. IsPrefix(<<>>, File)
    BY <2>1, Constants DEF IsPrefix
  <2>3. QED
    BY <1>2, <2>2 DEF MemoryIsPrefix
<1>5. QED
  BY <1>1, <1>2, <1>3, <1>4
    DEF LinkInv, OneAtATime, SenderAbreast, LineIsCurrent, PacketIsCurrent,
        SumIsCurrent

(* The next block of the file extends the prefix.                          *)
LEMMA PrefixGrows ==
  ASSUME TypeOK, MemoryIsPrefix, Len(pmem) + 1 \in 1 .. Len(File)
  PROVE  IsPrefix(Append(pmem, File[Len(pmem) + 1]), File)
<1> DEFINE n == Len(pmem)
           longer == Append(pmem, File[n + 1])
<1>1. pmem \in Seq(Seq(Char)) /\ File \in Seq(Seq(Char)) /\ n \in Nat
  BY FileBlocks DEF TypeOK
<1>2. File[n + 1] \in Seq(Char)
  BY <1>1
<1>3. /\ longer \in Seq(Seq(Char)) /\ Len(longer) = n + 1
      /\ longer[n + 1] = File[n + 1]
      /\ \A i \in 1 .. n : longer[i] = pmem[i]
  BY <1>1, <1>2
<1>4. \A i \in 1 .. n : pmem[i] = File[i]
  BY <1>1, PrefixPointwise DEF MemoryIsPrefix
<1> HIDE DEF longer
<1>5. n + 1 <= Len(File)
  OBVIOUS
<1> HIDE DEF n
<1>6. \A i \in 1 .. Len(longer) : longer[i] = File[i]
  BY <1>1, <1>3, <1>4
<1>7. IsPrefix(longer, File)
  BY <1>1, <1>3, <1>5, <1>6, PrefixPointwise
<1>8. QED
  BY <1>7 DEF longer, n

(* The receiver's steps keep the link in order.                            *)
LEMMA ReceiveKeeps ==
  ASSUME Prompt, LinkInv, Receive
  PROVE  LinkInv'
<1>1. LinkTypeOK /\ LinkTypeOK'
  BY LinkTypeStep DEF LinkInv, LinkNext
<1>2. NumberMatchesMemory'
  BY <1>1, ReceiveStep, NumberStep DEF LinkInv, LinkTypeOK
<1>3. /\ answers \in Seq({ACK, NAK}) /\ ACK # NAK /\ ACK # None /\ NAK # None
      /\ line \in Seq(Char) /\ rx_buf \in Seq(Char)
      /\ pmem \in Seq(Seq(Char)) /\ Len(pmem) \in Nat
      /\ sending' = sending
  BY <1>1, ByteAssumption DEF LinkTypeOK, TypeOK, Receive
<1>4. /\ put' = None => answers' = answers
      /\ answers' \in {answers, Append(answers, put')}
  <2>1. put' \in {ACK, NAK, None} /\ Answer(put')
    BY <1>1 DEF LinkTypeOK, TypeOK, Receive
  <2>2. QED
    BY <1>1, <2>1, AnswerStep DEF Prompt
<1>5. PICK ch \in Offer :
        /\ \/ ClearPending(ch) \/ WaitForNewPacket(ch) \/ ReceiveChar(ch)
           \/ StoreBlock(ch) \/ AckAgain(ch) \/ RejectPacket(ch)
           \/ Purge(ch)
        /\ \/ /\ ch = GETCHAR_TIMED_OUT
              /\ line' = line
              /\ state # "ClearPending" => line = <<>> /\ answers = <<>>
           \/ /\ ch \in Char
              /\ line # <<>>
              /\ ch = Head(line) /\ line' = Tail(line)
  BY <1>1, ReadCases
<1>6. state \notin {"WaitForNewPacket", "Returned"} => answers = <<>>
  BY DEF LinkInv, OneAtATime
<1>7. GETCHAR_TIMED_OUT \notin Char /\ GETCHAR_TIMED_OUT \notin {SOH, EOT}
  BY Constants
<1>8. ASSUME state' \in {"ClearPending", "Purge"}, answers' = <<>>,
             UNCHANGED pmem
      PROVE  LinkInv'
  <2>1. MemoryIsPrefix'
    BY <1>8 DEF LinkInv, MemoryIsPrefix
  <2>2. OneAtATime' /\ LineIsCurrent' /\ PacketIsCurrent' /\ SumIsCurrent'
    BY <1>8 DEF OneAtATime, LineIsCurrent, PacketIsCurrent, SumIsCurrent
  <2>3. state # "Returned"
    BY <1>5 DEF ClearPending, WaitForNewPacket, ReceiveChar, StoreBlock,
                AckAgain, RejectPacket, Purge, PacketEnd
  <2>4. SenderAbreast'
    BY <1>3, <1>8, <2>3 DEF LinkInv, SenderAbreast
  <2>5. QED
    BY <1>1, <1>2, <2>1, <2>2, <2>4 DEF LinkInv
<1>9. ASSUME state # "Returned", state' = "WaitForNewPacket",
             line' = <<>>, answers = <<>>,
             MemoryIsPrefix',
             sending \in {Len(pmem'), Len(pmem') + 1},
             put' = ACK => sending = Len(pmem') /\ sending > 0
      PROVE  LinkInv'
  <2>1. answers' \in {<<>>, <<put'>>}
    BY <1>4, <1>9
  <2>2. Len(answers') <= 1 /\ (answers' = <<ACK>> => put' = ACK)
    BY <2>1, AtMostOne
  <2>3. OneAtATime' /\ LineIsCurrent' /\ PacketIsCurrent' /\ SumIsCurrent'
    BY <1>9, <2>2
      DEF OneAtATime, LineIsCurrent, PacketIsCurrent, SumIsCurrent
  <2>4. SenderAbreast'
    BY <1>3, <1>9, <2>2 DEF SenderAbreast
  <2>5. QED
    BY <1>1, <1>2, <1>9, <2>3, <2>4 DEF LinkInv
<1>10. CASE ClearPending(ch)
  BY <1>4, <1>6, <1>8, <1>10 DEF ClearPending, Goto, c_put_char
<1>11. CASE WaitForNewPacket(ch)
  <2>0. /\ state = "WaitForNewPacket" /\ UNCHANGED pmem /\ MemoryIsPrefix
        /\ sending \in {Len(pmem), Len(pmem) + 1}
    BY <1>11 DEF WaitForNewPacket, LinkInv, SenderAbreast
  <2>1. CASE ch = GETCHAR_TIMED_OUT /\ Goto("WaitForNewPacket")
             /\ c_put_char(NAK)
    <3>1. line = <<>> /\ answers = <<>> /\ line' = <<>>
      BY <1>5, <1>7, <2>0, <2>1
    <3>2. state' = "WaitForNewPacket" /\ put' = NAK
      BY <2>1 DEF Goto, c_put_char
    <3>3. MemoryIsPrefix' /\ sending \in {Len(pmem'), Len(pmem') + 1}
      BY <2>0 DEF MemoryIsPrefix
    <3>4. QED
      BY <1>3, <1>9, <2>0, <3>1, <3>2, <3>3
  <2>2. CASE ch = SOH /\ Goto("ReceivePacket") /\ c_put_char(None)
    <3>1. line # <<>> /\ Head(line) = SOH /\ line' = Tail(line)
      BY <1>5, <1>7, <2>2
    <3>2. answers = <<>>
      BY <2>0, <3>1 DEF LinkInv, OneAtATime
    <3>3. /\ state' = "ReceivePacket" /\ rx_buf' = <<>> /\ crc' = 0
          /\ answers' = <<>>
      BY <1>4, <2>2, <3>2 DEF Goto, c_put_char
    <3>4. /\ sending \in 1 .. Len(File) + 1
          /\ line \in {Frame(sending)} \cup Damaged(Frame(sending))
      BY <2>0, <3>1 DEF LinkInv, LineIsCurrent
    <3>5. /\ Len(Tail(line)) <= DataLen + 3
          /\ Consistent(Tail(line)) =>
               /\ sending \in 1 .. Len(File)
               /\ Tail(line) = Tail(Frame(sending))
      BY <3>1, <3>4, ReadOfTransmission
    <3>6. rx_buf' \o line' = Tail(line)
      <4> DEFINE t == Tail(line)
      <4>1. t \in Seq(Char)
        BY <1>3, <3>1, TailShape
      <4> HIDE DEF t
      <4>2. <<>> \o t = t
        BY <4>1
      <4>3. QED
        BY <3>1, <3>3, <4>2 DEF t
    <3>7. PacketIsCurrent'
      BY <1>3, <3>3, <3>4, <3>5, <3>6 DEF PacketIsCurrent
    <3>8. SumIsCurrent'
      <4>1. SubSeq(<<>>, 3, Len(<<>>)) = <<>>
        OBVIOUS
      <4>2. QED
        BY <3>3, <4>1, SumOfEmpty DEF SumIsCurrent
    <3>9. OneAtATime' /\ LineIsCurrent' /\ MemoryIsPrefix' /\ SenderAbreast'
      BY <1>3, <2>0, <3>3
        DEF OneAtATime, LineIsCurrent, MemoryIsPrefix, SenderAbreast
    <3>10. QED
      BY <1>1, <1>2, <3>7, <3>8, <3>9 DEF LinkInv
  <2>3. CASE ch = EOT /\ Goto("Returned") /\ c_put_char(ACK)
    <3>1. line # <<>> /\ state' = "Returned" /\ put' = ACK
      BY <1>5, <1>7, <2>3 DEF Goto, c_put_char
    <3>2. answers = <<>>
      BY <2>0, <3>1 DEF LinkInv, OneAtATime
    <3>3. answers' \in {<<>>, <<put'>>}
      BY <1>4, <3>2
    <3>4. Len(answers') <= 1
      BY <3>3, AtMostOne
    <3>5. QED
      BY <1>1, <1>2, <2>0, <3>1, <3>4
        DEF LinkInv, OneAtATime, LineIsCurrent, MemoryIsPrefix, SenderAbreast,
            PacketIsCurrent, SumIsCurrent
  <2>4. CASE ch \notin {GETCHAR_TIMED_OUT, SOH, EOT} /\ Goto("Purge")
             /\ c_put_char(None)
    <3>1. line # <<>> /\ state' = "Purge" /\ put' = None
      BY <1>5, <2>4 DEF Goto, c_put_char
    <3>2. answers = <<>>
      BY <2>0, <3>1 DEF LinkInv, OneAtATime
    <3>3. QED
      BY <1>4, <1>8, <2>0, <3>1, <3>2
  <2>5. QED
    BY <1>11, <2>1, <2>2, <2>3, <2>4 DEF WaitForNewPacket
<1>12. CASE ReceiveChar(ch)
  <2>1. /\ state = "ReceivePacket" /\ state' = state /\ put' = None
        /\ rx_buf' = Append(rx_buf, ch) /\ UNCHANGED pmem
        /\ crc' = IF Len(rx_buf) > 1 THEN (crc + ch) % ByteMod ELSE crc
    BY <1>12 DEF ReceiveChar, c_put_char
  <2>2. ch \in Char /\ line # <<>> /\ ch = Head(line) /\ line' = Tail(line)
    BY <1>5, <1>12 DEF ReceiveChar
  <2>3. rx_buf' \o line' = rx_buf \o line
    BY <1>3, <2>1, <2>2, MoveHead
  <2>4. answers = <<>> /\ answers' = <<>>
    BY <1>4, <1>6, <2>1
  <2>5. PacketIsCurrent'
    BY <1>3, <2>1, <2>3 DEF LinkInv, PacketIsCurrent
  <2>6. SumIsCurrent'
    <3>1. crc = CheckSum(SubSeq(rx_buf, 3, Len(rx_buf)))
      BY <2>1 DEF LinkInv, SumIsCurrent
    <3>2. Len(rx_buf) > 1 \/ crc = 0
      <4>1. Len(rx_buf) > 1 \/ SubSeq(rx_buf, 3, Len(rx_buf)) = <<>>
        BY <1>3
      <4>2. QED
        BY <3>1, <4>1, SumOfEmpty
    <3>3. crc' = CheckSum(SubSeq(Append(rx_buf, ch), 3, Len(Append(rx_buf, ch))))
      BY <1>3, <2>1, <2>2, <3>1, <3>2, SumGrows
    <3>4. QED
      BY <2>1, <3>3 DEF SumIsCurrent
  <2>7. OneAtATime' /\ LineIsCurrent' /\ MemoryIsPrefix' /\ SenderAbreast'
    BY <1>3, <2>1, <2>4
      DEF LinkInv, OneAtATime, LineIsCurrent, MemoryIsPrefix, SenderAbreast
  <2>8. QED
    BY <1>1, <1>2, <2>5, <2>6, <2>7 DEF LinkInv
<1>13. CASE StoreBlock(ch) \/ AckAgain(ch)
  <2>1. /\ PacketEnd /\ PacketValid(ch) /\ state = "ReceivePacket"
        /\ state' = "WaitForNewPacket" /\ put' = ACK
    BY <1>13 DEF StoreBlock, AckAgain, PacketEnd, Goto, c_put_char
  <2>2. ch \in Char /\ line # <<>> /\ ch = Head(line) /\ line' = Tail(line)
    <3>1. ch \in Char
      BY <1>1, <2>1 DEF PacketValid, LinkTypeOK, TypeOK
    <3>2. QED
      BY <1>5, <1>7, <3>1
  <2>3. /\ sending \in 1 .. Len(File)
        /\ blk_num = sending % ByteMod
        /\ SubSeq(rx_buf, 3, RX_BUF_SIZE) = File[sending]
        /\ line' = <<>>
    BY <2>1, <2>2, PacketRead
  <2>4. /\ answers = <<>> /\ MemoryIsPrefix
        /\ sending \in {Len(pmem), Len(pmem) + 1}
        /\ expected_blk_num = (Len(pmem) + 1) % ByteMod
    BY <1>6, <2>1 DEF LinkInv, SenderAbreast, NumberMatchesMemory
  <2>5. CASE StoreBlock(ch)
    <3>1. sending = Len(pmem) + 1
      <4>1. sending % ByteMod = (Len(pmem) + 1) % ByteMod
        BY <2>3, <2>4, <2>5 DEF StoreBlock, IsExpected
      <4>2. (Len(pmem) + 1) % ByteMod # Len(pmem) % ByteMod
        <5>1. Len(pmem) \in Int
          BY <1>3
        <5>2. QED
          BY <5>1, ConsecutiveDiffer, ByteAssumption
      <4>3. QED
        BY <2>4, <4>1, <4>2
    <3>2. pmem' = Append(pmem, File[Len(pmem) + 1])
      BY <2>3, <2>5, <3>1 DEF StoreBlock
    <3>3. MemoryIsPrefix'
      BY <1>1, <2>3, <2>4, <3>1, <3>2, PrefixGrows
        DEF MemoryIsPrefix, LinkTypeOK
    <3>4. Len(pmem') = Len(pmem) + 1
      BY <1>1, <2>5, StoredBlock DEF LinkTypeOK
    <3>5. QED
      BY <1>3, <1>9, <2>1, <2>3, <2>4, <3>1, <3>3, <3>4
  <2>6. CASE AckAgain(ch)
    <3>1. UNCHANGED pmem
      BY <2>6 DEF AckAgain
    <3>2. sending = Len(pmem)
      <4>1. sending % ByteMod = (((Len(pmem) + 1) % ByteMod) - 1) % ByteMod
            /\ sending % ByteMod # (Len(pmem) + 1) % ByteMod
        BY <2>3, <2>4, <2>6 DEF AckAgain, IsExpected, IsPrevious
      <4>2. QED
        BY <2>4, <4>1
    <3>3. MemoryIsPrefix' /\ sending > 0
      BY <2>3, <2>4, <3>1 DEF MemoryIsPrefix
    <3>4. QED
      BY <1>9, <2>1, <2>3, <2>4, <3>1, <3>2, <3>3
  <2>7. QED
    BY <1>13, <2>5, <2>6
<1>14. CASE RejectPacket(ch)
  BY <1>4, <1>6, <1>8, <1>14 DEF RejectPacket, Goto, c_put_char
<1>15. CASE Purge(ch)
  <2>0. /\ state = "Purge" /\ UNCHANGED pmem /\ MemoryIsPrefix
        /\ answers = <<>> /\ sending \in {Len(pmem), Len(pmem) + 1}
    BY <1>6, <1>15 DEF Purge, LinkInv, SenderAbreast
  <2>1. CASE ch = GETCHAR_TIMED_OUT /\ c_put_char(NAK)
             /\ Goto("WaitForNewPacket")
    <3>1. line' = <<>> /\ state' = "WaitForNewPacket" /\ put' = NAK
      BY <1>5, <1>7, <2>0, <2>1 DEF Goto, c_put_char
    <3>2. MemoryIsPrefix' /\ sending \in {Len(pmem'), Len(pmem') + 1}
      BY <2>0 DEF MemoryIsPrefix
    <3>3. QED
      BY <1>3, <1>9, <2>0, <3>1, <3>2
  <2>2. CASE ch # GETCHAR_TIMED_OUT /\ c_put_char(None) /\ Goto("Purge")
    BY <1>4, <1>8, <2>0, <2>2 DEF Goto, c_put_char
  <2>3. QED
    BY <1>15, <2>1, <2>2 DEF Purge
<1>16. QED
  BY <1>5, <1>10, <1>11, <1>12, <1>13, <1>14, <1>15

(* The sender's steps keep the link in order.                              *)
LEMMA SenderKeeps ==
  ASSUME LinkInv, Sender
  PROVE  LinkInv'
<1>1. LinkTypeOK /\ LinkTypeOK'
  BY LinkTypeStep DEF LinkInv, LinkNext
<1>2. /\ UNCHANGED vars
      /\ answers \in Seq({ACK, NAK}) /\ line \in Seq(Char)
      /\ answers # <<>> /\ answers' = Tail(answers)
      /\ pmem \in Seq(Seq(Char)) /\ Len(pmem) \in Nat
  BY <1>1, SenderStep
    DEF LinkTypeOK, TypeOK, Sender, SenderNak, SenderAck, SenderEnd
<1>3. NumberMatchesMemory' /\ MemoryIsPrefix'
  BY <1>2 DEF vars, LinkInv, NumberMatchesMemory, MemoryIsPrefix
<1>4. Len(answers) = 1 /\ answers' = <<>>
  <2> DEFINE n == Len(answers)
  <2>1. n <= 1 /\ n \in Nat /\ n # 0
    BY <1>2 DEF LinkInv, OneAtATime
  <2> HIDE DEF n
  <2>2. n = 1
    BY <2>1
  <2>3. QED
    BY <1>2, <2>2, TailOfOne DEF n
<1>5. Head(answers) = ACK => answers = <<ACK>>
  BY <1>2, <1>4
<1>6. /\ state' = state
      /\ \/ state = "WaitForNewPacket" /\ line = <<>>
         \/ state = "Returned"
  BY <1>2 DEF vars, LinkInv, OneAtATime
<1>7. OneAtATime' /\ PacketIsCurrent' /\ SumIsCurrent'
  <2>1. Len(<<>>) = 0
    OBVIOUS
  <2>2. QED
    BY <1>4, <1>6, <2>1 DEF OneAtATime, PacketIsCurrent, SumIsCurrent
<1>8. CASE state = "Returned"
  BY <1>1, <1>3, <1>6, <1>7, <1>8 DEF LinkInv, SenderAbreast, LineIsCurrent
<1>9. CASE state = "WaitForNewPacket"
  <2>1. /\ line = <<>> /\ sending \in {Len(pmem), Len(pmem) + 1}
        /\ answers = <<ACK>> => sending = Len(pmem) /\ sending > 0
    BY <1>6, <1>9 DEF LinkInv, SenderAbreast
  <2>2. Len(pmem) <= Len(File)
    BY DEF LinkInv, MemoryIsPrefix, IsPrefix
  <2>3. ASSUME sending' \in 1 .. Len(File) + 1, Transmit(sending'),
               sending' \in {Len(pmem), Len(pmem) + 1}
        PROVE  LinkInv'
    <3>1. \E f \in {Frame(sending')} \cup Damaged(Frame(sending')) :
            f \in Seq(Char) /\ line' = line \o f
      BY <1>1, <2>3, TransmitStep
    <3>2. line' \in {Frame(sending')} \cup Damaged(Frame(sending'))
      <4>1. \A f \in Seq(Char) : <<>> \o f = f
        OBVIOUS
      <4>2. QED
        BY <2>1, <3>1, <4>1
    <3>3. LineIsCurrent'
      BY <2>3, <3>2 DEF LineIsCurrent
    <3>4. SenderAbreast'
      <4>1. pmem' = pmem
        BY <1>2 DEF vars
      <4>2. <<>> # <<ACK>>
        OBVIOUS
      <4>3. QED
        BY <1>4, <2>3, <4>1, <4>2 DEF SenderAbreast
    <3>5. QED
      BY <1>1, <1>3, <1>7, <3>3, <3>4 DEF LinkInv
  <2>4. CASE SenderNak
    <3>1. sending' = (IF sending = 0 THEN 1 ELSE sending)
          /\ Transmit(sending')
      BY <2>4 DEF SenderNak
    <3>2. sending' \in {Len(pmem), Len(pmem) + 1} /\ sending' >= 1
      BY <1>2, <2>1, <3>1
    <3>3. sending' \in 1 .. Len(File) + 1
      BY <1>2, <2>2, <3>2, Constants
    <3>4. QED
      BY <2>3, <3>1, <3>2, <3>3
  <2>5. CASE SenderAck
    <3>1. sending = Len(pmem) /\ sending' = sending + 1 /\ Transmit(sending')
          /\ sending \in 1 .. Len(File)
      BY <1>5, <2>1, <2>5 DEF SenderAck
    <3>2. sending' \in 1 .. Len(File) + 1
      BY <3>1, Constants
    <3>3. QED
      BY <2>3, <3>1, <3>2
  <2>6. CASE SenderEnd
    <3>1. sending # Len(File) + 2
      BY <1>2, <2>1, <2>2, Constants
    <3>2. answers = <<ACK>> /\ (sending = 0 \/ sending = Len(File) + 1)
      BY <1>5, <2>6, <3>1 DEF SenderEnd
    <3>3. sending = Len(pmem) /\ sending > 0
      BY <2>1, <3>2
    <3>4. QED
      BY <1>2, <2>2, <3>2, <3>3, Constants
  <2>7. QED
    BY <2>4, <2>5, <2>6 DEF Sender
<1>10. QED
  BY <1>6, <1>8, <1>9

LEMMA LinkInvStep ==
  ASSUME Prompt
  PROVE  LinkInv /\ [LinkNext]_allVars => LinkInv'
<1>1. LinkInv /\ UNCHANGED allVars => LinkInv'
  BY DEF allVars, vars, linkVars, LinkInv, LinkTypeOK, TypeOK,
         NumberMatchesMemory, MemoryIsPrefix, OneAtATime, SenderAbreast,
         LineIsCurrent, PacketIsCurrent, SumIsCurrent
<1>2. QED
  BY <1>1, ReceiveKeeps, SenderKeeps DEF LinkNext

(* With a sender that answers in time, and answers that are lost but never *)
(* turned into each other, the image in memory is always a prefix of the   *)
(* file, character by character: for every file, every number of damages   *)
(* and every place of a packet a damage may hit, the control characters    *)
(* and the checksum included.                                              *)
THEOREM LinkPrefix ==
  ASSUME Prompt
  PROVE  LinkSpec => []MemoryIsPrefix
<1>1. LinkInv /\ [LinkNext]_allVars => LinkInv'
  BY LinkInvStep
<1>2. LinkInv => MemoryIsPrefix
  BY DEF LinkInv
<1>3. QED
  BY <1>1, <1>2, LinkInvInit, PTL DEF LinkSpec

(* With such a sender a NAK leaves the receiver only on a silent line, and *)
(* the line is still silent when the sender takes it up.                   *)
THEOREM PauseTheorem ==
  ASSUME Prompt
  PROVE  LinkSpec => NakInPause
<1> DEFINE A == put' = NAK => line = <<>>
<1>1. LinkInv /\ [LinkNext]_allVars => LinkInv'
  BY LinkInvStep
<1>2. LinkInv /\ [LinkNext]_allVars => [A]_allVars
  <2> SUFFICES ASSUME LinkInv, LinkNext, put' = NAK PROVE line = <<>>
    OBVIOUS
  <2>1. LinkTypeOK /\ ACK # NAK /\ NAK # None
    BY ByteAssumption DEF LinkInv
  <2>2. CASE Receive
    <3>1. PICK ch \in Offer :
            /\ \/ ClearPending(ch) \/ WaitForNewPacket(ch) \/ ReceiveChar(ch)
               \/ StoreBlock(ch) \/ AckAgain(ch) \/ RejectPacket(ch)
               \/ Purge(ch)
            /\ \/ /\ ch = GETCHAR_TIMED_OUT
                  /\ line' = line
                  /\ state # "ClearPending" => line = <<>> /\ answers = <<>>
               \/ /\ ch \in Char
                  /\ line # <<>>
                  /\ ch = Head(line) /\ line' = Tail(line)
      BY <2>1, <2>2, ReadCases
    <3>2. /\ ch = GETCHAR_TIMED_OUT
          /\ state \in {"WaitForNewPacket", "Purge"}
      BY <2>1, <3>1
        DEF ClearPending, WaitForNewPacket, ReceiveChar, StoreBlock, AckAgain,
            RejectPacket, Purge, c_put_char
    <3>3. QED
      BY <3>1, <3>2, Constants
  <2>3. CASE Sender
    <3>1. answers # <<>> /\ put = NAK
      BY <2>1, <2>3, SenderStep
        DEF vars, Sender, SenderNak, SenderAck, SenderEnd
    <3>2. QED
      BY <2>1, <3>1 DEF LinkInv, OneAtATime
  <2>4. QED
    BY <2>2, <2>3 DEF LinkNext
<1>3. QED
  BY <1>1, <1>2, LinkInvInit, PTL DEF LinkSpec, NakInPause

-----------------------------------------------------------------------------
(* The transfer seen packet by packet.                                     *)

Active == {"WaitForNewPacket", "ReceivePacket"}

LEMMA FrameReturned ==
  ASSUME NEW flight
  PROVE  FrameRead("Returned", flight) = Frames!NoFrame
  BY DEF FrameRead, Frames!NoFrame, Frames!FrameOf

LEMMA FramePurged ==
  ASSUME NEW st \in {"ClearPending", "Purge"}, NEW flight
  PROVE  FrameRead(st, flight) = Frames!Garbled
  BY DEF FrameRead, Frames!Garbled, Frames!FrameOf

LEMMA FrameNone ==
  ASSUME NEW st \in Active
  PROVE  FrameRead(st, <<>>) = Frames!NoFrame
  BY DEF Active, FrameRead, Frames!NoFrame, Frames!FrameOf

LEMMA FrameEot ==
  ASSUME NEW st \in Active
  PROVE  FrameRead(st, <<EOT>>) = Frames!Eot
<1>1. <<EOT>> # <<>>
  OBVIOUS
<1>2. QED
  BY <1>1 DEF Active, FrameRead, Frames!Eot, Frames!FrameOf

LEMMA FrameOther ==
  ASSUME NEW st \in Active, NEW flight, flight # <<>>, flight # <<EOT>>
  PROVE  FrameRead(st, flight) =
           IF Head(flight) = SOH /\ Consistent(Tail(flight))
           THEN Frames!FrameOf("packet", Tail(flight)[1],
                               SubSeq(Tail(flight), 3, DataLen + 2))
           ELSE Frames!Garbled
  BY DEF Active, FrameRead, Frames!Garbled, Frames!FrameOf

(* An intact packet passes the checks, and is read as what it carries.     *)
LEMMA PacketFrame ==
  ASSUME NEW st \in Active, NEW flight, flight # <<>>, Head(flight) = SOH,
         Consistent(Tail(flight)),
         NEW k \in 1 .. Len(File), Tail(flight) = Tail(Frame(k))
  PROVE  FrameRead(st, flight) = Frames!Packet(k)
<1>1. flight # <<EOT>>
  BY Constants
<1>2. /\ Tail(flight)[1] = k % ByteMod
      /\ SubSeq(Tail(flight), 3, DataLen + 2) = File[k]
  BY IntactTail DEF BlkNum
<1>3. QED
  BY <1>1, <1>2, FrameOther DEF Frames!Packet

(* A transmission is read as the packet or the EOT that was sent, as       *)
(* something to purge, or not at all.                                      *)
LEMMA TransmissionFrame ==
  ASSUME NEW k \in 1 .. Len(File) + 1,
         NEW f \in {Frame(k)} \cup Damaged(Frame(k)), NEW st \in Active
  PROVE  FrameRead(st, f) \in
           {IF k <= Len(File) THEN Frames!Packet(k) ELSE Frames!Eot,
            Frames!Garbled, Frames!NoFrame}
<1>1. CASE f = <<>>
  BY <1>1, FrameNone
<1>2. CASE f # <<>> /\ f = <<EOT>>
  <2>1. FrameRead(st, f) = Frames!Eot
    BY <1>2, FrameEot
  <2>2. ~ k <= Len(File)
    <3>1. SUFFICES ASSUME k \in 1 .. Len(File) PROVE FALSE
      BY Constants
    <3>2. Frame(k) \in Seq(Char) /\ Len(Frame(k)) = DataLen + 4
      BY <3>1, FrameShape
    <3>3. Len(f) = DataLen + 4 \/ Len(f) = (DataLen + 4) - 1
      BY <3>2, DamageCases
    <3>4. Len(f) = 1
      BY <1>2
    <3>5. QED
      BY <3>3, <3>4, Constants
  <2>3. QED
    BY <2>1, <2>2
<1>3. CASE f # <<>> /\ f # <<EOT>> /\ Head(f) = SOH /\ Consistent(Tail(f))
  <2>1. k \in 1 .. Len(File) /\ Tail(f) = Tail(Frame(k))
    BY <1>3, ReadOfTransmission
  <2>2. FrameRead(st, f) = Frames!Packet(k)
    BY <1>3, <2>1, PacketFrame
  <2>3. k <= Len(File)
    BY <2>1
  <2>4. QED
    BY <2>2, <2>3
<1>4. CASE /\ f # <<>> /\ f # <<EOT>>
           /\ ~ (Head(f) = SOH /\ Consistent(Tail(f)))
  BY <1>4, FrameOther
<1>5. QED
  BY <1>1, <1>2, <1>3, <1>4

(* What the receiver takes for EOT is the EOT.                             *)
LEMMA EotIsEnd ==
  ASSUME NoFalseEnd, NEW k \in 1 .. Len(File) + 1,
         NEW f \in {Frame(k)} \cup Damaged(Frame(k)), f # <<>>, Head(f) = EOT
  PROVE  k = Len(File) + 1 /\ f = <<EOT>>
<1> DEFINE g == Frame(k)
<1>1. CASE k \in 1 .. Len(File)
  <2>1. /\ g \in Seq(Char) /\ Len(g) = DataLen + 4 /\ g[1] = SOH
        /\ g[2] = BlkNum(k)
    BY <1>1, FrameShape
  <2>2. Place(g, 1) = "SOH" /\ Len(g) > 1
    BY <2>1, Constants DEF Place
  <2> HIDE DEF g
  <2>3. CASE f = g
    <3>1. Head(f) = g[1]
      BY <2>1, <2>3, TailShape
    <3>2. QED
      BY <2>1, <3>1, Constants
  <2>4. CASE f \in Damaged(g)
    <3>1. \/ f[1] = g[1]
          \/ Place(g, 1) \in ChangeAt
          \/ Place(g, 1) \in LoseAt /\ f[1] = g[2]
      BY <2>1, <2>2, <2>4, HeadOfDamage
    <3>2. Head(f) = f[1]
      BY <2>1, <2>4, DamageCases, TailShape
    <3>3. QED
      BY <1>1, <2>1, <2>2, <3>1, <3>2, Constants DEF NoFalseEnd
  <2>5. QED
    BY <2>3, <2>4 DEF g
<1>2. CASE k = Len(File) + 1
  <2>1. k \in Nat /\ k > Len(File)
    BY <1>2, Constants
  <2>2. Frame(k) = <<EOT>> /\ Frame(k) \in Seq(Char) /\ Len(Frame(k)) = 1
    BY <2>1, EotShape
  <2> HIDE DEF g
  <2>3. f \in Seq(Char) /\ Len(f) \in {0, 1}
    <3>1. Len(f) = 1 \/ Len(f) = 1 - 1
      BY <2>2, DamageCases
    <3>2. f \in Seq(Char)
      BY <2>2, DamageCases
    <3>3. QED
      BY <3>1, <3>2
  <2>4. f = <<EOT>>
    BY <2>3
  <2>5. QED
    BY <1>2, <2>4
<1>3. QED
  BY <1>1, <1>2, Constants

(* The receiver returns only at the end of the file.                       *)
LEMMA ReturnAtEnd ==
  ASSUME NoFalseEnd, LinkInv, state = "WaitForNewPacket",
         line # <<>>, Head(line) = EOT
  PROVE  sending = Len(File) + 1 /\ line = <<EOT>> /\ pmem = File
<1>1. /\ sending \in 1 .. Len(File) + 1
      /\ line \in {Frame(sending)} \cup Damaged(Frame(sending))
  BY DEF LinkInv, LineIsCurrent
<1>2. sending = Len(File) + 1 /\ line = <<EOT>>
  BY <1>1, EotIsEnd
<1>3. /\ pmem \in Seq(Seq(Char)) /\ Len(pmem) \in Nat
      /\ sending \in {Len(pmem), Len(pmem) + 1} /\ IsPrefix(pmem, File)
  BY DEF LinkInv, LinkTypeOK, TypeOK, SenderAbreast, MemoryIsPrefix
<1>4. Len(pmem) <= Len(File) /\ \A i \in 1 .. Len(pmem) : pmem[i] = File[i]
  BY <1>3, FileBlocks, PrefixPointwise
<1>5. Len(pmem) = Len(File)
  BY <1>2, <1>3, <1>4, Constants
<1>6. pmem = File
  BY <1>3, <1>4, <1>5, FileBlocks, SameBlocks
<1>7. QED
  BY <1>2, <1>6

LEMMA EndInvStep ==
  ASSUME Prompt, NoFalseEnd
  PROVE  EndInv /\ [LinkNext]_allVars => EndInv'
<1> SUFFICES ASSUME EndInv, [LinkNext]_allVars PROVE EndInv'
  OBVIOUS
<1>1. LinkInv /\ LinkInv' /\ LinkTypeOK
  BY LinkInvStep DEF EndInv, LinkInv
<1>2. CASE UNCHANGED allVars
  BY <1>1, <1>2 DEF allVars, vars, linkVars, EndInv, ReturnedAtEnd
<1>3. CASE Receive
  <2>1. SUFFICES ASSUME state' = "Returned" PROVE ReturnedAtEnd'
    BY <1>1 DEF EndInv, ReturnedAtEnd
  <2>2. PICK ch \in Offer :
          /\ \/ ClearPending(ch) \/ WaitForNewPacket(ch) \/ ReceiveChar(ch)
             \/ StoreBlock(ch) \/ AckAgain(ch) \/ RejectPacket(ch)
             \/ Purge(ch)
          /\ \/ /\ ch = GETCHAR_TIMED_OUT
                /\ line' = line
                /\ state # "ClearPending" => line = <<>> /\ answers = <<>>
             \/ /\ ch \in Char
                /\ line # <<>>
                /\ ch = Head(line) /\ line' = Tail(line)
    BY <1>1, <1>3, ReadCases
  <2>3. WaitForNewPacket(ch) /\ ch = EOT
    BY <2>1, <2>2
      DEF ClearPending, WaitForNewPacket, ReceiveChar, StoreBlock, AckAgain,
          RejectPacket, Purge, Goto
  <2>4. /\ state = "WaitForNewPacket" /\ line # <<>> /\ Head(line) = EOT
        /\ UNCHANGED pmem
    BY <2>2, <2>3, Constants DEF WaitForNewPacket
  <2>5. sending = Len(File) + 1 /\ pmem = File
    BY <1>1, <2>4, ReturnAtEnd
  <2>6. sending' = sending
    BY <1>3 DEF Receive
  <2>7. QED
    BY <2>4, <2>5, <2>6, Constants DEF ReturnedAtEnd
<1>4. CASE Sender
  <2>1. UNCHANGED vars /\ answers # <<>> /\ answers' = Tail(answers)
    BY <1>1, <1>4, SenderStep DEF Sender, SenderNak, SenderAck, SenderEnd
  <2>2. SUFFICES ASSUME state = "Returned" PROVE ReturnedAtEnd'
    BY <1>1, <2>1 DEF vars, EndInv, ReturnedAtEnd
  <2>3. pmem' = File /\ sending = Len(File) + 1
    BY <2>1, <2>2 DEF vars, EndInv, ReturnedAtEnd
  <2>4. answers' = <<>>
    <3>1. answers \in Seq({ACK, NAK}) /\ Len(answers) <= 1
      BY <1>1 DEF LinkTypeOK, LinkInv, OneAtATime
    <3> DEFINE n == Len(answers)
    <3>2. n \in Nat /\ n # 0 /\ n <= 1
      BY <2>1, <3>1
    <3> HIDE DEF n
    <3>3. n = 1
      BY <3>2
    <3>4. QED
      BY <2>1, <3>1, <3>3, TailOfOne DEF n
  <2>5. sending' \in {Len(File) + 1, Len(File) + 2}
    BY <1>4, <2>3, Constants
      DEF Sender, SenderNak, SenderAck, SenderEnd
  <2>6. QED
    BY <2>3, <2>4, <2>5 DEF ReturnedAtEnd
<1>5. QED
  BY <1>2, <1>3, <1>4 DEF LinkNext

LEMMA EndInvInit == LinkInit => EndInv
  BY LinkInvInit DEF LinkInit, Init, EndInv, ReturnedAtEnd

(* If moreover no damage makes a packet look like the end, xmodem_load()   *)
(* returns only with the whole file in memory.                             *)
CompleteOnReturn == state = "Returned" => pmem = File

THEOREM LinkComplete ==
  ASSUME Prompt, NoFalseEnd
  PROVE  LinkSpec => []CompleteOnReturn
<1>1. EndInv /\ [LinkNext]_allVars => EndInv'
  BY EndInvStep
<1>2. EndInv => CompleteOnReturn
  BY DEF EndInv, ReturnedAtEnd, CompleteOnReturn
<1>3. QED
  BY <1>1, <1>2, EndInvInit, PTL DEF LinkSpec

(* The receiver's steps, seen packet by packet.                            *)
LEMMA AnswerReadCases ==
  /\ AnswerRead(<<>>) = "none"
  /\ AnswerRead(<<ACK>>) = "ACK"
  /\ AnswerRead(<<NAK>>) = "NAK"
<1>1. <<ACK>> # <<>> /\ <<NAK>> # <<>> /\ <<NAK>> # <<ACK>>
  BY ByteAssumption
<1>2. QED
  BY <1>1 DEF AnswerRead

LEMMA ReceiveMaps ==
  ASSUME Prompt, NoFalseEnd, LinkInv, Receive
  PROVE  Frames!Next \/ UNCHANGED Frames!vars
<1>0. LinkTypeOK /\ sending' = sending /\ ACK # NAK /\ ACK # None /\ NAK # None
  BY ByteAssumption DEF LinkInv, Receive
<1>1. ASSUME UNCHANGED <<pmem, expected_blk_num, answers>>,
             state # "Returned", state' # "Returned",
             FrameInFlight' = FrameInFlight
      PROVE  UNCHANGED Frames!vars
  <2>1. AnswerInFlight' = AnswerInFlight
    BY <1>1 DEF AnswerInFlight
  <2>2. (state = "Returned")' = (state = "Returned")
    BY <1>1
  <2>3. QED
    BY <1>0, <1>1, <2>1, <2>2 DEF Frames!vars
<1>2. /\ put' = None => answers' = answers
      /\ answers' \in {answers, Append(answers, put')}
  <2>1. put' \in {ACK, NAK, None} /\ Answer(put')
    BY <1>0, ReceiveStep, TypeStep DEF LinkTypeOK, TypeOK, Receive
  <2>2. QED
    BY <1>0, <2>1, AnswerStep DEF Prompt
<1>3. ASSUME answers = <<>>, put' \in {ACK, NAK}
      PROVE  AnswerInFlight' \in {IF put' = ACK THEN "ACK" ELSE "NAK", "none"}
  <2>1. answers' \in {<<>>, <<put'>>}
    BY <1>2, <1>3
  <2>2. QED
    BY <1>0, <1>3, <2>1, AnswerReadCases DEF AnswerInFlight
<1>4. PICK ch \in Offer :
        /\ \/ ClearPending(ch) \/ WaitForNewPacket(ch) \/ ReceiveChar(ch)
           \/ StoreBlock(ch) \/ AckAgain(ch) \/ RejectPacket(ch)
           \/ Purge(ch)
        /\ \/ /\ ch = GETCHAR_TIMED_OUT
              /\ line' = line
              /\ state # "ClearPending" => line = <<>> /\ answers = <<>>
           \/ /\ ch \in Char
              /\ line # <<>>
              /\ ch = Head(line) /\ line' = Tail(line)
  BY <1>0, ReadCases
<1>5. /\ answers \in Seq({ACK, NAK}) /\ line \in Seq(Char)
      /\ rx_buf \in Seq(Char) /\ pmem \in Seq(Seq(Char)) /\ Len(pmem) \in Nat
  BY <1>0 DEF LinkTypeOK, TypeOK
<1>6. state \in {"ClearPending", "ReceivePacket", "Purge"} => answers = <<>>
  BY DEF LinkInv, OneAtATime
<1>7. ASSUME state = "ReceivePacket"
      PROVE  FrameInFlight
               = IF Consistent(rx_buf \o line)
                 THEN Frames!FrameOf("packet", (rx_buf \o line)[1],
                                     SubSeq(rx_buf \o line, 3, DataLen + 2))
                 ELSE Frames!Garbled
  <2> DEFINE s == rx_buf \o line
  <2>1. s \in Seq(Char) /\ InFlight = (<<SOH>> \o rx_buf) \o line
    BY <1>5, <1>7 DEF InFlight
  <2>2. /\ InFlight # <<>> /\ Head(InFlight) = SOH /\ Tail(InFlight) = s
    BY <1>5, <2>1, Constants, Prefixed
  <2>3. InFlight # <<EOT>>
    BY <2>2, Constants
  <2> HIDE DEF s
  <2>4. QED
    BY <1>7, <2>2, <2>3, FrameOther DEF FrameInFlight, Active, s
<1>8. ASSUME state' \in Active, line' = <<>>, state' = "WaitForNewPacket"
      PROVE  FrameInFlight' = Frames!NoFrame
  BY <1>8, FrameNone DEF FrameInFlight, InFlight
<1>9. state' \in {"ClearPending", "Purge"} => FrameInFlight' = Frames!Garbled
  BY FramePurged DEF FrameInFlight
<1>10. state \in {"ClearPending", "Purge"} => FrameInFlight = Frames!Garbled
  BY FramePurged DEF FrameInFlight
<1>11. CASE ClearPending(ch)
  <2>1. /\ state = "ClearPending" /\ state' \in {"ClearPending", "Purge"}
        /\ put' = None /\ UNCHANGED <<pmem, expected_blk_num>>
    BY <1>11 DEF ClearPending, Goto, c_put_char
  <2>2. QED
    BY <1>1, <1>2, <1>9, <1>10, <2>1
<1>12. CASE WaitForNewPacket(ch)
  <2>0. state = "WaitForNewPacket" /\ UNCHANGED <<pmem, expected_blk_num>>
        /\ InFlight = line
    BY <1>12 DEF WaitForNewPacket, InFlight
  <2>1. CASE ch = GETCHAR_TIMED_OUT /\ Goto("WaitForNewPacket")
             /\ c_put_char(NAK)
    <3>1. /\ line = <<>> /\ answers = <<>> /\ line' = <<>>
          /\ state' = "WaitForNewPacket" /\ put' = NAK
      BY <1>4, <2>0, <2>1, Constants DEF Goto, c_put_char
    <3>2. FrameInFlight = Frames!NoFrame /\ FrameInFlight' = Frames!NoFrame
      BY <1>8, <2>0, <3>1, FrameNone DEF FrameInFlight, Active
    <3>3. AnswerInFlight = "none" /\ AnswerInFlight' \in {"NAK", "none"}
      BY <1>0, <1>3, <3>1, AnswerReadCases DEF AnswerInFlight
    <3>4. Frames!NoFrame.kind = "none"
      BY DEF Frames!NoFrame, Frames!FrameOf
    <3>5. Frames!Silence
      BY <1>0, <2>0, <3>1, <3>2, <3>3, <3>4 DEF Frames!Silence, Frames!Respond
    <3>6. QED
      BY <3>5 DEF Frames!Next
  <2>2. CASE ch = SOH /\ Goto("ReceivePacket") /\ c_put_char(None)
    <3>1. /\ line # <<>> /\ Head(line) = SOH /\ line' = Tail(line)
          /\ state' = "ReceivePacket" /\ put' = None /\ rx_buf' = <<>>
      BY <1>4, <2>2, Constants DEF Goto, c_put_char
    <3>2. InFlight' = line
      <4>1. InFlight' = (<<SOH>> \o <<>>) \o Tail(line)
        BY <3>1 DEF InFlight
      <4>2. QED
        BY <1>5, <3>1, <4>1, Constants
    <3>3. line # <<EOT>>
      BY <3>1, Constants
    <3>4. FrameInFlight' = FrameInFlight
      BY <2>0, <3>1, <3>2, <3>3, FrameOther DEF FrameInFlight, Active
    <3>5. QED
      BY <1>1, <1>2, <2>0, <3>1, <3>4
  <2>3. CASE ch = EOT /\ Goto("Returned") /\ c_put_char(ACK)
    <3>1. /\ line # <<>> /\ Head(line) = EOT
          /\ state' = "Returned" /\ put' = ACK
      BY <1>4, <2>3, Constants DEF Goto, c_put_char
    <3>2. line = <<EOT>>
      BY <2>0, <3>1, ReturnAtEnd
    <3>3. answers = <<>>
      BY <2>0, <3>1 DEF LinkInv, OneAtATime
    <3>4. FrameInFlight = Frames!Eot /\ FrameInFlight' = Frames!NoFrame
      BY <2>0, <3>1, <3>2, FrameEot, FrameReturned DEF FrameInFlight, Active
    <3>5. AnswerInFlight' \in {"ACK", "none"}
      BY <1>3, <3>1, <3>3
    <3>6. Frames!Eot.kind = "eot"
      BY DEF Frames!Eot, Frames!FrameOf
    <3>7. Frames!End
      BY <1>0, <2>0, <3>1, <3>4, <3>5, <3>6 DEF Frames!End, Frames!Respond
    <3>8. QED
      BY <3>7 DEF Frames!Next
  <2>4. CASE ch \notin {GETCHAR_TIMED_OUT, SOH, EOT} /\ Goto("Purge")
             /\ c_put_char(None)
    <3>1. /\ line # <<>> /\ Head(line) \notin {SOH, EOT}
          /\ state' = "Purge" /\ put' = None
      BY <1>4, <2>4 DEF Goto, c_put_char
    <3>2. line # <<EOT>>
      BY <3>1
    <3>3. FrameInFlight = Frames!Garbled
      BY <2>0, <3>1, <3>2, FrameOther DEF FrameInFlight, Active
    <3>4. QED
      BY <1>1, <1>2, <1>9, <2>0, <3>1, <3>3
  <2>5. QED
    BY <1>12, <2>1, <2>2, <2>3, <2>4 DEF WaitForNewPacket
<1>13. CASE ReceiveChar(ch)
  <2>1. /\ state = "ReceivePacket" /\ state' = state /\ put' = None
        /\ rx_buf' = Append(rx_buf, ch) /\ UNCHANGED <<pmem, expected_blk_num>>
    BY <1>13 DEF ReceiveChar, c_put_char
  <2>2. ch \in Char /\ line # <<>> /\ ch = Head(line) /\ line' = Tail(line)
    BY <1>4, <1>13 DEF ReceiveChar
  <2>3. InFlight' = InFlight
    <3>1. InFlight = (<<SOH>> \o rx_buf) \o line
      BY <2>1 DEF InFlight
    <3>2. InFlight' = (<<SOH>> \o Append(rx_buf, Head(line))) \o Tail(line)
      BY <2>1, <2>2 DEF InFlight
    <3>3. (<<SOH>> \o Append(rx_buf, Head(line))) \o Tail(line)
            = (<<SOH>> \o rx_buf) \o line
      <4>1. /\ SOH \in Char /\ rx_buf \in Seq(Char)
            /\ line \in Seq(Char) /\ line # <<>>
        BY <1>5, <2>2, Constants
      <4>2. QED
        BY <4>1, Passed
    <3>4. QED
      BY <3>1, <3>2, <3>3
  <2>4. FrameInFlight' = FrameInFlight
    BY <2>1, <2>3 DEF FrameInFlight
  <2>5. QED
    BY <1>1, <1>2, <2>1, <2>4
<1>14. ASSUME PacketEnd, ch \in Char, line # <<>>, ch = Head(line),
              PacketValid(ch)
       PROVE  /\ FrameInFlight = Frames!Packet(sending)
              /\ sending \in 1 .. Len(File)
              /\ blk_num = sending % ByteMod
              /\ SubSeq(rx_buf, 3, RX_BUF_SIZE) = File[sending]
              /\ Tail(line) = <<>>
              /\ answers = <<>>
  <2>1. /\ sending \in 1 .. Len(File) /\ blk_num = sending % ByteMod
        /\ SubSeq(rx_buf, 3, RX_BUF_SIZE) = File[sending]
        /\ Tail(line) = <<>> /\ Consistent(rx_buf \o line)
    BY <1>14, PacketRead, PacketComplete
  <2>2. state = "ReceivePacket"
    BY <1>14 DEF PacketEnd
  <2>3. rx_buf \o line = Tail(Frame(sending))
    BY <2>1, <2>2 DEF LinkInv, PacketIsCurrent
  <2>4. /\ (rx_buf \o line)[1] = sending % ByteMod
        /\ SubSeq(rx_buf \o line, 3, DataLen + 2) = File[sending]
    BY <2>1, <2>3, IntactTail DEF BlkNum
  <2>5. FrameInFlight = Frames!Packet(sending)
    BY <1>7, <2>1, <2>2, <2>4 DEF Frames!Packet
  <2>6. QED
    BY <1>6, <2>1, <2>2, <2>5
<1>15. ASSUME NEW k \in 1 .. Len(File)
       PROVE  /\ Frames!Packet(k).kind = "packet"
              /\ Frames!Packet(k).num = k % ByteMod
              /\ Frames!Packet(k).data = File[k]
  BY DEF Frames!Packet, Frames!FrameOf
<1>16. CASE StoreBlock(ch) \/ AckAgain(ch)
  <2>1. /\ PacketEnd /\ PacketValid(ch) /\ state = "ReceivePacket"
        /\ state' = "WaitForNewPacket" /\ put' = ACK
    BY <1>16 DEF StoreBlock, AckAgain, PacketEnd, Goto, c_put_char
  <2>2. ch \in Char /\ line # <<>> /\ ch = Head(line) /\ line' = Tail(line)
    <3>1. ch \in Char
      BY <1>0, <2>1 DEF PacketValid, LinkTypeOK, TypeOK
    <3>2. QED
      BY <1>4, <3>1, Constants
  <2>3. /\ FrameInFlight = Frames!Packet(sending)
        /\ sending \in 1 .. Len(File)
        /\ blk_num = sending % ByteMod
        /\ SubSeq(rx_buf, 3, RX_BUF_SIZE) = File[sending]
        /\ line' = <<>> /\ answers = <<>>
    BY <1>14, <2>1, <2>2
  <2>4. FrameInFlight' = Frames!NoFrame
    BY <1>8, <2>1, <2>3 DEF Active
  <2>5. AnswerInFlight' \in {"ACK", "none"}
    BY <1>3, <2>1, <2>3
  <2>6. /\ FrameInFlight.kind = "packet"
        /\ FrameInFlight.num = blk_num
        /\ FrameInFlight.data = SubSeq(rx_buf, 3, RX_BUF_SIZE)
    BY <1>15, <2>3
  <2>7. CASE StoreBlock(ch)
    <3>1. Frames!Accept
      BY <1>0, <2>1, <2>4, <2>5, <2>6, <2>7
        DEF StoreBlock, IsExpected, Frames!Accept, Frames!IsExpected,
            Frames!Respond
    <3>2. QED
      BY <3>1 DEF Frames!Next
  <2>8. CASE AckAgain(ch)
    <3>1. Frames!AckAgain
      BY <1>0, <2>1, <2>4, <2>5, <2>6, <2>8
        DEF AckAgain, IsExpected, IsPrevious, Frames!AckAgain,
            Frames!IsExpected, Frames!IsPrevious, Frames!Respond
    <3>2. QED
      BY <3>1 DEF Frames!Next
  <2>9. QED
    BY <1>16, <2>7, <2>8
<1>17. CASE RejectPacket(ch)
  <2>1. /\ state = "ReceivePacket" /\ state' = "Purge" /\ put' = None
        /\ UNCHANGED <<pmem, expected_blk_num>>
    BY <1>17 DEF RejectPacket, Goto, c_put_char
  <2>2. ~ Consistent(rx_buf \o line)
    <3>1. SUFFICES ASSUME Consistent(rx_buf \o line) PROVE FALSE
      OBVIOUS
    <3>2. /\ sending \in 1 .. Len(File)
          /\ rx_buf \o line = Tail(Frame(sending))
      BY <2>1, <3>1 DEF LinkInv, PacketIsCurrent
    <3>3. /\ Len(rx_buf) <= DataLen + 2
          /\ Len(rx_buf \o line) = DataLen + 3
      BY <1>0, <3>1 DEF LinkTypeOK, TypeOK, RX_BUF_SIZE, Consistent
    <3>4. line # <<>>
      <4>1. SUFFICES ASSUME line = <<>> PROVE FALSE
        OBVIOUS
      <4>2. rx_buf \o <<>> = rx_buf
        BY <1>5
      <4>3. QED
        BY <1>5, <3>3, <4>1, <4>2, Constants
    <3>5. ch \in Char /\ ch = Head(line)
      BY <1>4, <2>1, <3>4
    <3>6. PacketEnd /\ ~ (PacketValid(ch) /\ (IsExpected \/ IsPrevious))
      BY <1>17, <3>5, Constants DEF RejectPacket
    <3>7. PacketValid(ch)
      BY <3>1, <3>4, <3>5, <3>6, PacketComplete
    <3>8. blk_num = sending % ByteMod
      BY <3>4, <3>5, <3>6, <3>7, PacketRead
    <3>9. /\ sending \in {Len(pmem), Len(pmem) + 1}
          /\ expected_blk_num = (Len(pmem) + 1) % ByteMod
      BY <2>1 DEF LinkInv, SenderAbreast, NumberMatchesMemory
    <3>10. (((Len(pmem) + 1) % ByteMod) - 1) % ByteMod = Len(pmem) % ByteMod
      <4>1. Len(pmem) \in Int
        BY <1>5
      <4>2. QED
        BY <4>1, PreviousNum, ByteAssumption
    <3>11. IsExpected \/ IsPrevious
      BY <3>8, <3>9, <3>10 DEF IsExpected, IsPrevious
    <3>12. QED
      BY <3>6, <3>7, <3>11
  <2>3. FrameInFlight = Frames!Garbled
    BY <1>7, <2>1, <2>2
  <2>4. QED
    BY <1>1, <1>2, <1>9, <2>1, <2>3
<1>18. CASE Purge(ch)
  <2>0. state = "Purge" /\ UNCHANGED <<pmem, expected_blk_num>>
    BY <1>18 DEF Purge
  <2>1. CASE ch = GETCHAR_TIMED_OUT /\ c_put_char(NAK)
             /\ Goto("WaitForNewPacket")
    <3>1. /\ line' = <<>> /\ answers = <<>>
          /\ state' = "WaitForNewPacket" /\ put' = NAK
      BY <1>4, <2>0, <2>1, Constants DEF Goto, c_put_char
    <3>2. FrameInFlight' = Frames!NoFrame /\ FrameInFlight = Frames!Garbled
      BY <1>8, <1>10, <2>0, <3>1 DEF Active
    <3>3. AnswerInFlight' \in {"NAK", "none"}
      BY <1>0, <1>3, <3>1
    <3>4. Frames!Garbled.kind = "garbled"
      BY DEF Frames!Garbled, Frames!FrameOf
    <3>5. Frames!Reject
      BY <1>0, <2>0, <3>1, <3>2, <3>3, <3>4 DEF Frames!Reject, Frames!Respond
    <3>6. QED
      BY <3>5 DEF Frames!Next
  <2>2. CASE ch # GETCHAR_TIMED_OUT /\ c_put_char(None) /\ Goto("Purge")
    <3>1. state' = "Purge" /\ put' = None
      BY <2>2 DEF Goto, c_put_char
    <3>2. QED
      BY <1>1, <1>2, <1>9, <1>10, <2>0, <3>1
  <2>3. QED
    BY <1>18, <2>1, <2>2 DEF Purge
<1>19. QED
  BY <1>4, <1>11, <1>12, <1>13, <1>16, <1>17, <1>18

(* The sender's steps, seen packet by packet.                              *)
LEMMA SenderMaps ==
  ASSUME EndInv, Sender
  PROVE  Frames!Next
<1>1. /\ LinkInv /\ LinkInv' /\ LinkTypeOK /\ UNCHANGED vars
      /\ answers # <<>> /\ answers' = Tail(answers)
      /\ answers \in Seq({ACK, NAK}) /\ Len(answers) <= 1
      /\ ACK # NAK /\ line \in Seq(Char)
  BY SenderKeeps, SenderStep, ByteAssumption
    DEF EndInv, LinkInv, LinkTypeOK, OneAtATime, Sender, SenderNak, SenderAck,
        SenderEnd
<1>2. Len(answers) = 1
  <2> DEFINE n == Len(answers)
  <2>1. n \in Nat /\ n # 0 /\ n <= 1
    BY <1>1
  <2> HIDE DEF n
  <2>2. n = 1
    BY <2>1
  <2>3. QED
    BY <2>2 DEF n
<1>3. answers' = <<>> /\ answers = <<Head(answers)>> /\ Head(answers) \in {ACK, NAK}
  BY <1>1, <1>2, TailOfOne
<1>4. /\ AnswerInFlight' = "none"
      /\ Head(answers) = ACK => AnswerInFlight = "ACK"
      /\ Head(answers) = NAK => AnswerInFlight = "NAK"
  BY <1>3, AnswerReadCases DEF AnswerInFlight
<1>5. /\ UNCHANGED <<pmem, expected_blk_num, state>>
      /\ (state = "Returned")' = (state = "Returned")
  BY <1>1 DEF vars
<1>6. \/ state = "WaitForNewPacket" /\ line = <<>>
      \/ state = "Returned"
  BY <1>1 DEF LinkInv, OneAtATime
<1>7. ASSUME Transmit(sending'), sending' \in 1 .. Len(File) + 1
      PROVE  Frames!Transmit(sending')
  <2>1. CASE state = "Returned"
    <3>1. FrameInFlight' = Frames!NoFrame
      BY <1>5, <2>1, FrameReturned DEF FrameInFlight
    <3>2. QED
      BY <3>1 DEF Frames!Transmit
  <2>2. CASE state = "WaitForNewPacket" /\ line = <<>>
    <3>0. sending' \in Nat \ {0} /\ Transmit(sending') /\ LinkTypeOK
      BY <1>1, <1>7, Constants
    <3>1. PICK f \in {Frame(sending')} \cup Damaged(Frame(sending')) :
            f \in Seq(Char) /\ line' = line \o f
      BY <3>0, TransmitStep
    <3>2. line' = f
      BY <2>2, <3>1
    <3>3. FrameInFlight' = FrameRead("WaitForNewPacket", f)
      BY <1>5, <2>2, <3>2 DEF FrameInFlight, InFlight
    <3>4. FrameRead("WaitForNewPacket", f) \in
            {IF sending' <= Len(File) THEN Frames!Packet(sending')
                                      ELSE Frames!Eot,
             Frames!Garbled, Frames!NoFrame}
      BY <1>7, <3>1, TransmissionFrame DEF Active
    <3>5. QED
      BY <3>3, <3>4 DEF Frames!Transmit
  <2>3. QED
    BY <1>6, <2>1, <2>2
<1>8. sending \in 0 .. Len(File) + 2 /\ Len(File) \in Nat
  BY <1>1, Constants DEF LinkTypeOK
<1>9. CASE SenderNak
  <2>1. /\ Head(answers) = NAK /\ sending <= Len(File) + 1
        /\ sending' = (IF sending = 0 THEN 1 ELSE sending)
        /\ Transmit(sending')
    BY <1>9 DEF SenderNak
  <2>2. sending' \in 1 .. Len(File) + 1
    BY <1>8, <2>1
  <2>3. Frames!SendAgain
    BY <1>4, <1>5, <1>7, <2>1, <2>2 DEF Frames!SendAgain
  <2>4. QED
    BY <2>3 DEF Frames!Next
<1>10. CASE SenderAck
  <2>1. /\ Head(answers) = ACK /\ sending \in 1 .. Len(File)
        /\ sending' = sending + 1 /\ Transmit(sending')
    BY <1>10 DEF SenderAck
  <2>2. sending' \in 1 .. Len(File) + 1
    BY <1>8, <2>1
  <2>3. Frames!SendNext
    BY <1>4, <1>5, <1>7, <2>1, <2>2 DEF Frames!SendNext
  <2>4. QED
    BY <2>3 DEF Frames!Next
<1>11. CASE SenderEnd
  <2>1. CASE state = "Returned"
    <3>1. sending = Len(File) + 1
      BY <1>1, <2>1 DEF EndInv, ReturnedAtEnd
    <3>2. Head(answers) = ACK /\ sending' = Len(File) + 2
      BY <1>8, <1>11, <3>1 DEF SenderEnd
    <3>3. FrameInFlight' = FrameInFlight
      BY <1>5, <2>1, FrameReturned DEF FrameInFlight
    <3>4. Frames!SenderEnds
      BY <1>4, <1>5, <3>1, <3>2, <3>3 DEF Frames!SenderEnds
    <3>5. QED
      BY <3>4 DEF Frames!Next
  <2>2. CASE state = "WaitForNewPacket"
    <3>1. /\ sending \in {Len(pmem), Len(pmem) + 1}
          /\ answers = <<ACK>> => sending = Len(pmem) /\ sending > 0
          /\ Len(pmem) \in Nat /\ Len(pmem) <= Len(File)
      BY <1>1, <2>2
        DEF LinkInv, LinkTypeOK, TypeOK, SenderAbreast, MemoryIsPrefix, IsPrefix
    <3>2. sending # Len(File) + 2
      BY <1>8, <3>1
    <3>3. Head(answers) = ACK /\ (sending = 0 \/ sending = Len(File) + 1)
      BY <1>11, <3>2 DEF SenderEnd
    <3>4. sending = Len(pmem) /\ sending > 0
      BY <1>3, <3>1, <3>3
    <3>5. QED
      BY <1>8, <3>1, <3>3, <3>4
  <2>3. QED
    BY <1>6, <2>1, <2>2
<1>12. QED
  BY <1>9, <1>10, <1>11 DEF Sender

(* Character by character the transfer implements the one of XmodemFrames: *)
(* the end of a packet is Accept or AckAgain, a pause after something      *)
(* purged is Reject, a pause before a packet is Silence, EOT is End, and   *)
(* every other read is invisible.                                          *)
THEOREM LinkImplements ==
  ASSUME Prompt, NoFalseEnd
  PROVE  LinkSpec => FramesSpec
<1>1. LinkInit => Frames!Init
  <2> SUFFICES ASSUME LinkInit PROVE Frames!Init
    OBVIOUS
  <2>1. /\ state = "ClearPending" /\ pmem = <<>> /\ expected_blk_num = 1
        /\ answers = <<>> /\ sending = 0
    BY DEF LinkInit, Init
  <2>2. FrameInFlight = Frames!Garbled /\ AnswerInFlight = "none"
    BY <2>1, FramePurged, AnswerReadCases DEF FrameInFlight, AnswerInFlight
  <2>3. (state = "Returned") = FALSE
    BY <2>1
  <2>4. QED
    BY <2>1, <2>2, <2>3 DEF Frames!Init
<1>2. EndInv /\ [LinkNext]_allVars => EndInv'
  BY EndInvStep
<1>3. EndInv /\ [LinkNext]_allVars => [Frames!Next]_(Frames!vars)
  <2> SUFFICES ASSUME EndInv, [LinkNext]_allVars
               PROVE  Frames!Next \/ UNCHANGED Frames!vars
    OBVIOUS
  <2>1. CASE UNCHANGED allVars
    <3>1. /\ UNCHANGED <<pmem, expected_blk_num, sending>>
          /\ FrameInFlight' = FrameInFlight
          /\ AnswerInFlight' = AnswerInFlight
          /\ (state = "Returned")' = (state = "Returned")
      BY <2>1 DEF allVars, vars, linkVars, FrameInFlight, InFlight,
                  AnswerInFlight
    <3>2. QED
      BY <3>1 DEF Frames!vars
  <2>2. CASE Receive
    BY <2>2, ReceiveMaps DEF EndInv
  <2>3. CASE Sender
    BY <2>3, SenderMaps
  <2>4. QED
    BY <2>1, <2>2, <2>3 DEF LinkNext
<1>4. QED
  BY <1>1, <1>2, <1>3, EndInvInit, PTL DEF LinkSpec, FramesSpec, Frames!Spec
=============================================================================
