----------------------------- MODULE NandProofs -----------------------------
(***************************************************************************)
(* Proofs about NandBoot, for every flash, page size and map, whatever is  *)
(* behind the map: its types, VolumeRead, MapInBounds, and, for flash as   *)
(* it is programmed, PrimaryPreferred and BootedImage.                     *)
(***************************************************************************)
EXTENDS NandBoot, FiniteSetTheorems, WellFoundedInduction, TLAPS

LEMMA MinOfNats ==
  ASSUME NEW S, S \subseteq Nat, S # {}
  PROVE  Min(S) \in S /\ \A y \in S : Min(S) <= y
<1>1. IsWellFoundedOn(OpToRel(<, Nat), Nat)
  BY NatLessThanWellFounded
<1>2. PICK x \in S : \A y \in S : ~ (<<y, x>> \in OpToRel(<, Nat))
  BY <1>1, WFMin
<1>3. \A y \in S : x <= y
  <2>1. SUFFICES ASSUME NEW y \in S, y < x PROVE FALSE
    OBVIOUS
  <2>2. <<y, x>> \in OpToRel(<, Nat)
    BY <2>1 DEF OpToRel
  <2> QED
    BY <1>2, <2>2
<1> QED
  BY <1>2, <1>3 DEF Min

LEMMA MaxOfTwo ==
  ASSUME NEW a \in Nat, NEW b \in Nat
  PROVE  Max({a, b}) \in Nat
<1>1. \E x \in {a, b} : \A y \in {a, b} : x >= y
  OBVIOUS
<1> QED
  BY <1>1 DEF Max

-----------------------------------------------------------------------------
(* The board is one of those there are, the result comes with the return,  *)
(* and a scan does not count more blocks than it has passed.               *)
OnBoard == \E b \in Boards : board = <<b.strap, b.flash, b.buffer2>>
Running == phase # "returned" => result = "none"
Counted == phase = "vid" => ubootblocks < peb

TInv == TypeOK /\ OnBoard /\ Running /\ Counted

LEMMA FlashFacts ==
  ASSUME OnBoard, NEW p \in Pebs
  PROVE  /\ flash[p].vid.lnum \in Lnums
         /\ DOMAIN flash[p].table \subseteq Nat \ {0}
         /\ \A s \in DOMAIN flash[p].table :
              flash[p].table[s].reserved_pebs \in Nat \ {0}
         /\ \A n \in 1 .. NumPages : flash[p].pages[n].data \in Data
<1>1. PICK b \in Boards : flash = b.flash
  BY DEF OnBoard, board
<1> QED
  BY <1>1, BoardAssumption DEF ubi_vid_hdr, ubi_vtbl_record

(* The record the name is found in.                                        *)
LEMMA RecordFacts ==
  ASSUME OnBoard, NEW p \in Pebs, Named(p) # {}
  PROVE  /\ Min(Named(p)) \in Nat \ {0}
         /\ RecordOf(p).reserved_pebs \in Nat \ {0}
<1>1. Named(p) \subseteq DOMAIN flash[p].table
  BY DEF Named, Searched
<1>2. Named(p) \subseteq Nat
  BY <1>1, FlashFacts
<1>3. Min(Named(p)) \in Named(p)
  BY <1>2, MinOfNats
<1> QED
  BY <1>1, <1>3, FlashFacts DEF RecordOf

LEMMA PagePlace ==
  ASSUME TInv
  PROVE  /\ Len(image) \in Nat /\ NumPages \in Nat \ {0}
         /\ Leb \in Nat /\ PageNo \in 1 .. NumPages
<1>1. Len(image) \in Nat /\ NumPages \in Nat \ {0}
  BY NandAssumption DEF TInv, TypeOK
<1>2. Len(image) \div NumPages \in Nat /\ Len(image) % NumPages \in 0 .. NumPages - 1
  BY <1>1
<1> QED
  BY <1>1, <1>2 DEF Leb, PageNo

(* What is read is a page of the flash, of the loader in front of it, or   *)
(* whatever lies where a word behind the map points to.                    *)
LEMMA PageFacts ==
  ASSUME TInv, NEW page \in NextPages
  PROVE  page.data \in Data
<1>1. CASE Leb \in Entries
  <2>1. page = PageAt(maptable[Leb], PageNo) /\ maptable[Leb] \in 0 .. NumPebs
    BY <1>1 DEF NextPages, TInv, TypeOK
  <2>2. CASE maptable[Leb] = 0
    BY <2>1, <2>2, NandAssumption DEF PageAt
  <2>3. CASE maptable[Leb] # 0
    <3>1. maptable[Leb] \in Pebs
      BY <2>1, <2>3, NandAssumption DEF Pebs
    <3> QED
      BY <2>1, <2>3, <3>1, PagePlace, FlashFacts DEF PageAt, TInv
  <2> QED
    BY <2>2, <2>3
<1>2. CASE Leb \notin Entries
  BY <1>2 DEF NextPages
<1> QED
  BY <1>1, <1>2

(* A page read: what it adds to the image, and what becomes of the loop.   *)
LEMMA ReadFacts ==
  ASSUME TInv, ReadLastPage \/ ReadPage
  PROVE  /\ UNCHANGED <<strap, flash, buffer2, ubootVol, peb, vol_id,
                        ubootReservedBlocks, maptable, ubootblocks>>
         /\ phase = "load" /\ image \in Seq(Data)
         /\ \/ phase' = "load" /\ UNCHANGED result
            \/ phase' = "returned" /\ result' = "ok"
         /\ \E page \in NextPages :
              /\ image' = Append(image, page.data) /\ page.data \in Data
              /\ ReadLastPage => TRUE \in EndSeen(page) /\ phase' = "returned"
              /\ ~ ReadLastPage =>
                   /\ FALSE \in EndSeen(page) /\ page.ecc = {}
                   /\ \E on \in Follows(Leb + 1) :
                        IF PageNo = NumPages /\ ~ on THEN Return
                        ELSE UNCHANGED <<phase, result>>
<1>1. image \in Seq(Data)
  BY DEF TInv, TypeOK
<1>2. CASE ReadLastPage
  BY <1>1, <1>2, PageFacts DEF ReadLastPage, Loading, Return, board, scan
<1>3. CASE ~ ReadLastPage /\ ReadPage
  <2>1. PICK page \in NextPages, on \in Follows(Leb + 1) :
          /\ Loading(page) /\ FALSE \in EndSeen(page) /\ page.ecc = {}
          /\ IF PageNo = NumPages /\ ~ on THEN Return
             ELSE UNCHANGED <<phase, result>>
    BY <1>3 DEF ReadPage
  <2>2. page.data \in Data
    BY PageFacts
  <2>3. /\ UNCHANGED <<strap, flash, buffer2, ubootVol, peb, vol_id,
                       ubootReservedBlocks, maptable, ubootblocks>>
        /\ phase = "load" /\ image' = Append(image, page.data)
    BY <2>1 DEF Loading, board, scan
  <2>4. \/ phase' = "load" /\ UNCHANGED result
        \/ phase' = "returned" /\ result' = "ok"
    BY <2>1, <2>3 DEF Return
  <2> QED
    BY <1>1, <1>3, <2>1, <2>2, <2>3, <2>4
<1> QED
  BY <1>2, <1>3

-----------------------------------------------------------------------------
LEMMA InitTyped == Init => TInv
<1> SUFFICES ASSUME Init PROVE TInv
  OBVIOUS
<1>1. PICK b \in Boards : strap = b.strap /\ flash = b.flash /\ buffer2 = b.buffer2
  BY DEF Init
<1>2. strap \in {"2KB", "4KB"} /\ OnBoard
  BY <1>1, BoardAssumption DEF OnBoard, board
<1>3. buffer2 \in BOOLEAN
  BY <1>1, BoardAssumption
<1>4. maptable \in [Entries -> 0 .. NumPebs]
  BY NandAssumption DEF Init, NoMap
<1>5. image \in Seq(Data)
  BY DEF Init
<1>6. peb \in 1 .. NumPebs + 1 /\ ubootblocks \in 0 .. NumPebs
  BY NandAssumption DEF Init
<1> QED
  BY <1>2, <1>3, <1>4, <1>5, <1>6 DEF Init, TInv, TypeOK, Running, Counted

(* Giving a volume up.                                                     *)
LEMMA FailsTyped ==
  ASSUME TInv, phase # "returned", VolumeFails
  PROVE  TInv'
<1>1. /\ UNCHANGED <<strap, flash, buffer2, ubootReservedBlocks, maptable,
                     ubootblocks, image>>
      /\ peb' = 1 /\ vol_id' = 0
      /\ ubootVol' \in {0, 1} /\ phase' \in {"layout", "returned"}
      /\ result' \in {"none", "failed"}
      /\ phase' # "returned" => result' = "none"
  BY DEF VolumeFails, TInv, TypeOK, Running, board
<1>2. 1 \in 1 .. NumPebs + 1
  BY NandAssumption
<1>3. OnBoard' /\ Running' /\ Counted'
  BY <1>1 DEF TInv, OnBoard, board, Running, Counted
<1> QED
  BY <1>1, <1>2, <1>3 DEF TInv, TypeOK

LEMMA StepTyped == TInv /\ [Next]_vars => TInv'
<1> SUFFICES ASSUME TInv, [Next]_vars PROVE TInv'
  OBVIOUS
<1>0. NumPebs \in Nat \ {0} /\ Pebs = 1 .. NumPebs
  BY NandAssumption DEF Pebs
<1>1. CASE /\ phase \in {"layout", "vid"} /\ peb \in Pebs /\ Advance
           /\ vol_id' \in Nat /\ UNCHANGED <<maptable, ubootblocks>>
  <2>1. /\ UNCHANGED <<strap, flash, buffer2, phase, ubootVol,
                       ubootReservedBlocks, image, result>>
        /\ peb' = peb + 1
    BY <1>1 DEF Advance, board
  <2>2. peb' \in 1 .. NumPebs + 1
    BY <1>0, <1>1, <2>1
  <2>3. OnBoard' /\ Running'
    BY <2>1 DEF TInv, OnBoard, board, Running
  <2>4. Counted'
    BY <1>1, <2>1 DEF TInv, TypeOK, Counted
  <2> QED
    BY <1>1, <2>1, <2>2, <2>3, <2>4 DEF TInv, TypeOK
<1>2. CASE phase # "returned" /\ VolumeFails
  BY <1>2, FailsTyped
<1>3. CASE LayoutSkip
  BY <1>1, <1>3 DEF LayoutSkip, TInv, TypeOK
<1>4. CASE LayoutNoName
  <2>1. vol_id' \in Nat
    BY <1>4, MaxOfTwo, NandAssumption DEF LayoutNoName, TInv, TypeOK
  <2> QED
    BY <1>1, <1>4, <2>1 DEF LayoutNoName
<1>5. CASE LayoutDamaged
  <2>1. vol_id' \in Nat
    BY <1>5, RecordFacts DEF LayoutDamaged, TInv, TypeOK
  <2> QED
    BY <1>1, <1>5, <2>1 DEF LayoutDamaged
<1>6. CASE LayoutFound
  <2>1. vol_id' \in Nat /\ ubootReservedBlocks' \in Nat
    BY <1>6, RecordFacts DEF LayoutFound, TInv, TypeOK
  <2>2. /\ UNCHANGED <<strap, flash, buffer2, ubootVol, image, result>>
        /\ phase = "layout" /\ phase' = "vid"
        /\ peb' = 1 /\ maptable' = NoMap /\ ubootblocks' = 0
    BY <1>6 DEF LayoutFound, board
  <2>3. maptable' \in [Entries -> 0 .. NumPebs]
    BY <1>0, <2>2 DEF NoMap
  <2>4. OnBoard' /\ Running' /\ Counted'
    BY <2>2 DEF TInv, OnBoard, board, Running, Counted
  <2>5. peb' \in 1 .. NumPebs + 1 /\ ubootblocks' \in 0 .. NumPebs
    BY <1>0, <2>2
  <2> QED
    BY <2>1, <2>2, <2>3, <2>4, <2>5 DEF TInv, TypeOK
<1>7. CASE LayoutMissing
  BY <1>2, <1>7 DEF LayoutMissing
<1>8. CASE VidSkip
  BY <1>1, <1>8 DEF VidSkip, TInv, TypeOK
<1>9. CASE (VidMap \/ VidMapBehind) /\ CountBlock
  <2>1. /\ UNCHANGED <<strap, flash, buffer2, ubootVol, vol_id,
                       ubootReservedBlocks, result>>
        /\ phase = "vid" /\ peb \in Pebs
        /\ ubootblocks' = ubootblocks + 1 /\ peb' = peb + 1
        /\ phase' \in {"vid", "load"}
        /\ image' \in {<<>>, image}
    BY <1>9 DEF VidMap, VidMapBehind, BlockFound, CountBlock, board, scan
  <2>3. maptable' \in [Entries -> 0 .. NumPebs]
    BY <1>0, <1>9, <2>1 DEF VidMap, VidMapBehind, TInv, TypeOK
  <2>4. ubootblocks < peb
    BY <2>1 DEF TInv, Counted
  <2>5. /\ peb' \in 1 .. NumPebs + 1 /\ ubootblocks' \in 0 .. NumPebs
        /\ ubootblocks' < peb'
    BY <1>0, <2>1, <2>4 DEF TInv, TypeOK
  <2>6. image' \in Seq(Data)
    <3>1. <<>> \in Seq(Data) /\ image \in Seq(Data)
      BY DEF TInv, TypeOK
    <3> QED
      BY <2>1, <3>1
  <2>7. OnBoard' /\ Running' /\ Counted'
    BY <2>1, <2>5 DEF TInv, OnBoard, board, Running, Counted
  <2> QED
    BY <2>1, <2>3, <2>5, <2>6, <2>7 DEF TInv, TypeOK
<1>10. CASE VidMapBehind /\ Derailed
  <2>1. /\ UNCHANGED <<strap, flash, buffer2, vol_id, ubootReservedBlocks,
                       maptable, ubootblocks>>
        /\ peb \in Pebs /\ peb' = peb + 1
        /\ phase' = "returned" /\ ubootVol' \in {0, 1}
        /\ result' \in {"none", "ok", "failed"}
        /\ image' = <<>> \/ \E d \in Data : image' = <<d>>
    BY <1>10 DEF VidMapBehind, Derailed, BlockFound, board, scan
  <2>2. image' \in Seq(Data)
    <3>1. <<>> \in Seq(Data) /\ \A d \in Data : <<d>> \in Seq(Data)
      OBVIOUS
    <3> QED
      BY <2>1, <3>1
  <2>3. OnBoard' /\ Running' /\ Counted'
    BY <2>1 DEF TInv, OnBoard, board, Running, Counted
  <2>4. peb' \in 1 .. NumPebs + 1
    BY <1>0, <2>1
  <2> QED
    BY <2>1, <2>2, <2>3, <2>4 DEF TInv, TypeOK
<1>11. CASE VidDamaged \/ VidEnd \/ ReadBadPage
  BY <1>2, <1>11 DEF VidDamaged, VidEnd, ReadBadPage
<1>12. CASE ReadLastPage \/ ReadPage
  <2>1. /\ UNCHANGED <<strap, flash, buffer2, peb, vol_id, ubootReservedBlocks,
                       maptable, ubootblocks, ubootVol>>
        /\ phase = "load"
        /\ \/ phase' = "load" /\ UNCHANGED result
           \/ phase' = "returned" /\ result' = "ok"
    BY <1>12, ReadFacts
  <2>2. image' \in Seq(Data)
    <3>1. PICK page \in NextPages : image' = Append(image, page.data) /\ page.data \in Data
      BY <1>12, ReadFacts
    <3>2. image \in Seq(Data)
      BY DEF TInv, TypeOK
    <3> QED
      BY <3>1, <3>2
  <2>3. OnBoard' /\ Running' /\ Counted'
    BY <2>1 DEF TInv, OnBoard, board, Running, Counted
  <2> QED
    BY <2>1, <2>2, <2>3 DEF TInv, TypeOK
<1>13. CASE UNCHANGED vars
  BY <1>13 DEF vars, board, TInv, TypeOK, OnBoard, Running, Counted
<1> QED
  BY <1>3, <1>4, <1>5, <1>6, <1>7, <1>8, <1>9, <1>10, <1>11, <1>12, <1>13
     DEF Next, VidMap, VidMapBehind

(* Types of read_uboot, for every flash: its counters stay within the      *)
(* partition and every entry of the map is a block of it.                  *)
THEOREM TypeTheorem == Spec => []TypeOK
<1>1. Spec => []TInv
  BY InitTyped, StepTyped, PTL DEF Spec
<1> QED
  BY <1>1, PTL DEF TInv

-----------------------------------------------------------------------------
LEMMA InitReads == Init => VolumeRead
BY DEF Init, VolumeRead

LEMMA FailsReads ==
  ASSUME TInv, phase # "returned", VolumeFails
  PROVE  VolumeRead'
<1>1. phase' \in {"layout", "returned"} /\ result' \in {"none", "failed"}
  BY DEF VolumeFails, TInv, Running
<1> QED
  BY <1>1 DEF VolumeRead

(* A step that leaves the map and what it was made from alone.             *)
LEMMA MapKept ==
  ASSUME UNCHANGED <<strap, flash, buffer2, peb, vol_id, maptable>>
  PROVE  /\ LatestMapped => LatestMapped'
         /\ StoresInside' => StoresInside
BY DEF LatestMapped, StoresInside, Versions, OfVolume, HeaderOf, HeaderValid,
       HeaderEmpty, checkBadBlock, checkErasedPage

(* Every block whose number is stored is looked at once.                   *)
LEMMA InsideBefore ==
  ASSUME peb \in Pebs, peb' = peb + 1, UNCHANGED <<strap, flash, buffer2, vol_id>>,
         StoresInside'
  PROVE  /\ StoresInside
         /\ OfVolume(peb) => flash[peb].vid.lnum \in Entries
<1>1. \A p : OfVolume(p)' <=> OfVolume(p)
  BY DEF OfVolume, HeaderOf, checkBadBlock, HeaderEmpty, checkErasedPage
<1>2. \A p \in Pebs : p < peb => p < peb'
  BY NandAssumption DEF Pebs
<1>3. peb < peb'
  BY NandAssumption DEF Pebs
<1> QED
  BY <1>1, <1>2, <1>3 DEF StoresInside

LEMMA ReadKept ==
  ASSUME ReadInOrder, UNCHANGED <<flash, maptable, image>>
  PROVE  ReadInOrder'
BY DEF ReadInOrder, PageAt

(* The scan has passed one more block, entered if it is of the volume.     *)
LEMMA ScanKeeps ==
  ASSUME TInv, LatestMapped, peb \in Pebs, peb' = peb + 1,
         UNCHANGED <<strap, flash, buffer2, vol_id>>,
         \/ ~ OfVolume(peb) /\ UNCHANGED maptable
         \/ /\ OfVolume(peb) /\ HeaderValid(peb)
            /\ maptable' = [maptable EXCEPT ![flash[peb].vid.lnum] = peb]
            /\ flash[peb].vid.lnum \in Entries
  PROVE  LatestMapped'
<1>1. \A p : OfVolume(p)' <=> OfVolume(p)
  BY DEF OfVolume, HeaderOf, checkBadBlock, HeaderEmpty, checkErasedPage
<1>2. \A p : HeaderValid(p)' <=> HeaderValid(p)
  BY DEF HeaderValid
<1>3. Pebs \subseteq Nat /\ \A p \in Pebs : p # 0
  BY NandAssumption DEF Pebs
<1>4. SUFFICES ASSUME NEW l \in Entries
               PROVE  /\ maptable'[l] # 0 => maptable'[l] \in Versions(l)'
                      /\ \A p \in Versions(l)' : p <= maptable'[l] /\ HeaderValid(p)'
  BY DEF LatestMapped
<1>5. \A p : p \in Versions(l)' <=>
               \/ p \in Versions(l)
               \/ p = peb /\ OfVolume(peb) /\ flash[peb].vid.lnum = l
  <2>1. Versions(l)' =
          {p \in Pebs : p < peb + 1 /\ OfVolume(p) /\ flash[p].vid.lnum = l}
    BY <1>1 DEF Versions
  <2>2. \A p \in Pebs : p < peb + 1 <=> p < peb \/ p = peb
    BY <1>3
  <2> QED
    BY <2>1, <2>2 DEF Versions
<1>6. /\ maptable[l] # 0 => maptable[l] \in Versions(l)
      /\ \A p \in Versions(l) : p <= maptable[l] /\ HeaderValid(p)
  BY DEF LatestMapped
<1>7. CASE OfVolume(peb) /\ flash[peb].vid.lnum = l
  <2>1. maptable'[l] = peb /\ HeaderValid(peb)
    BY <1>7 DEF TInv, TypeOK
  <2>2. \A p \in Versions(l) : p <= peb
    BY <1>3 DEF Versions
  <2> QED
    BY <1>2, <1>3, <1>5, <1>6, <1>7, <2>1, <2>2
<1>8. CASE ~ (OfVolume(peb) /\ flash[peb].vid.lnum = l)
  <2>1. maptable'[l] = maptable[l]
    BY <1>8 DEF TInv, TypeOK
  <2> QED
    BY <1>2, <1>5, <1>6, <1>8, <2>1
<1> QED
  BY <1>7, <1>8

LEMMA StepReads == TInv /\ VolumeRead /\ [Next]_vars => VolumeRead'
<1> SUFFICES ASSUME TInv, VolumeRead, [Next]_vars PROVE VolumeRead'
  OBVIOUS
<1>1. CASE LayoutSkip \/ LayoutNoName \/ LayoutDamaged
  <2>1. phase' = "layout" /\ result' = "none"
    BY <1>1 DEF LayoutSkip, LayoutNoName, LayoutDamaged, Advance, TInv, Running
  <2> QED
    BY <2>1 DEF VolumeRead
<1>2. CASE phase # "returned" /\ VolumeFails
  BY <1>2, FailsReads
<1>3. CASE LayoutFound
  <2>1. /\ phase' = "vid" /\ peb' = 1 /\ maptable' = NoMap /\ result' = "none"
    BY <1>3 DEF LayoutFound, TInv, Running
  <2>2. \A l : Versions(l)' = {}
    BY <2>1, NandAssumption DEF Versions, Pebs
  <2>3. LatestMapped'
    BY <2>1, <2>2 DEF LatestMapped, NoMap
  <2> QED
    BY <2>1, <2>3 DEF VolumeRead
<1>4. CASE VidSkip
  <2>1. /\ phase = "vid" /\ peb \in Pebs /\ ~ OfVolume(peb)
        /\ peb' = peb + 1 /\ phase' = "vid" /\ result' = "none"
        /\ UNCHANGED <<strap, flash, buffer2, vol_id, maptable>>
    BY <1>4 DEF VidSkip, Advance, TInv, Running, board
  <2>2. StoresInside' => LatestMapped'
    BY <2>1, ScanKeeps, InsideBefore DEF VolumeRead
  <2> QED
    BY <2>1, <2>2 DEF VolumeRead
<1>5. CASE VidMap \/ VidMapBehind
  <2>1. /\ phase = "vid" /\ peb \in Pebs /\ OfVolume(peb) /\ HeaderValid(peb)
        /\ peb' = peb + 1
        /\ UNCHANGED <<strap, flash, buffer2, vol_id>>
    BY <1>5 DEF VidMap, VidMapBehind, BlockFound, board, scan
  <2>2. SUFFICES ASSUME StoresInside' PROVE VolumeRead'
    BY DEF VolumeRead
  <2>3. StoresInside /\ flash[peb].vid.lnum \in Entries
    BY <2>1, <2>2, InsideBefore
  <2>4. /\ maptable' = [maptable EXCEPT ![flash[peb].vid.lnum] = peb]
        /\ phase' = "load" => image' = <<>>
        /\ result' = "none"
    BY <1>5, <2>3 DEF VidMap, VidMapBehind, BlockFound, CountBlock, TInv, Running
  <2>5. LatestMapped'
    BY <2>1, <2>3, <2>4, ScanKeeps DEF VolumeRead
  <2>6. image' = <<>> => ReadInOrder'
    BY DEF ReadInOrder
  <2> QED
    BY <2>4, <2>5, <2>6 DEF VolumeRead
<1>6. CASE ReadLastPage \/ ReadPage
  <2>1. /\ UNCHANGED <<strap, flash, buffer2, peb, vol_id, maptable>>
        /\ phase = "load" /\ image \in Seq(Data)
    BY <1>6, ReadFacts
  <2>2. PICK page \in NextPages : image' = Append(image, page.data) /\ page.data \in Data
    BY <1>6, ReadFacts
  <2>3. SUFFICES ASSUME StoresInside' PROVE LatestMapped' /\ ReadInOrder'
    BY DEF VolumeRead
  <2>4. LatestMapped' /\ ReadInOrder
    BY <2>1, <2>3, MapKept DEF VolumeRead
  <2>5. ReadInOrder'
    <3>1. Len(image') = Len(image) + 1 /\ Len(image) \in Nat
      BY <2>1, <2>2
    <3>2. SUFFICES ASSUME NEW k \in 1 .. Len(image) + 1,
                          (k - 1) \div NumPages \in Entries
                   PROVE  image'[k] = PageAt(maptable[(k - 1) \div NumPages],
                                             ((k - 1) % NumPages) + 1).data
      BY <2>1, <3>1 DEF ReadInOrder, PageAt
    <3>3. CASE k \in 1 .. Len(image)
      <4>1. image'[k] = image[k]
        BY <2>1, <2>2, <3>3
      <4> QED
        BY <2>4, <3>2, <3>3, <4>1 DEF ReadInOrder
    <3>4. CASE k = Len(image) + 1
      <4>1. image'[k] = page.data
        BY <2>1, <2>2, <3>4
      <4>2. k - 1 = Len(image)
        BY <3>1, <3>4
      <4>3. Leb \in Entries
        BY <3>2, <4>2 DEF Leb
      <4>4. page = PageAt(maptable[Leb], PageNo)
        BY <4>3 DEF NextPages
      <4> QED
        BY <4>1, <4>2, <4>4 DEF Leb, PageNo
    <3> QED
      BY <3>1, <3>3, <3>4
  <2> QED
    BY <2>4, <2>5
<1>7. CASE LayoutMissing \/ VidDamaged \/ VidEnd \/ ReadBadPage
  BY <1>2, <1>7 DEF LayoutMissing, VidDamaged, VidEnd, ReadBadPage
<1>8. CASE UNCHANGED vars
  <2>1. /\ UNCHANGED <<strap, flash, buffer2, peb, vol_id, maptable, image>>
        /\ UNCHANGED <<phase, result>>
    BY <1>8 DEF vars, board
  <2> QED
    BY <2>1, MapKept, ReadKept DEF VolumeRead
<1> QED
  BY <1>1, <1>3, <1>4, <1>5, <1>6, <1>7, <1>8 DEF Next

(* While no LEB number lies behind the map, it is that of the newest scan, *)
(* and what is read through it are the pages of the blocks in it, whatever *)
(* was tried before and whatever is damaged.                               *)
THEOREM ReadTheorem == Spec => []VolumeRead
<1>1. Init => TInv /\ VolumeRead
  BY InitTyped, InitReads
<1>2. TInv /\ VolumeRead /\ [Next]_vars => (TInv /\ VolumeRead)'
  BY StepTyped, StepReads
<1> QED
  BY <1>1, <1>2, PTL DEF Spec

-----------------------------------------------------------------------------
(***************************************************************************)
(* MapInBounds.  A block is read if its LEB is 0 or its entry not 0; then  *)
(* its number is one of the volume's, and in a volume that fits the map    *)
(* the entry behind it is one of the map's, too.  So the look-ahead of the *)
(* loop that reads the blocks never leaves the map, whatever lies there.   *)
(***************************************************************************)
ScannedFits ==
  \A p \in Pebs : OfVolume(p) => flash[p].vid.lnum + 1 \in Entries

AheadInside == ScannedFits /\ phase = "load" => Leb + 1 \in Entries

LEMMA EntryBefore ==
  ASSUME NEW l \in Nat, l + 1 \in Entries
  PROVE  l \in Entries /\ 1 \in Entries
BY NandAssumption DEF Entries

(* The next page is of the same block, or the first of the next one.       *)
LEMMA NextPage ==
  ASSUME NEW n \in Nat, NEW d \in Nat \ {0}
  PROVE  /\ n \div d \in Nat /\ n % d \in 0 .. d - 1
         /\ (n + 1) \div d = IF (n % d) + 1 = d THEN n \div d + 1 ELSE n \div d
<1> DEFINE q == n \div d
           r == n % d
<1>1. q \in Nat /\ r \in 0 .. d - 1 /\ n = d * q + r
  OBVIOUS
<1> HIDE DEF q, r
<1>2. CASE r + 1 = d
  <2>1. n + 1 = d * (q + 1)
    BY <1>1, <1>2
  <2>2. (d * (q + 1)) \div d = q + 1
    BY <1>1
  <2> QED
    BY <1>1, <1>2, <2>1, <2>2 DEF q, r
<1>3. CASE r + 1 # d
  <2>1. n + 1 = d * q + (r + 1) /\ r + 1 \in 0 .. d - 1
    BY <1>1, <1>3
  <2>2. (d * q + (r + 1)) \div d = q
    BY <1>1, <2>1
  <2> QED
    BY <1>1, <1>3, <2>1, <2>2 DEF q, r
<1> QED
  BY <1>2, <1>3

LEMMA FitsInside ==
  ASSUME TInv, ScannedFits
  PROVE  /\ StoresInside
         /\ \A p \in Pebs : OfVolume(p) => flash[p].vid.lnum \in Entries
<1>1. \A p \in Pebs : flash[p].vid.lnum \in Nat
  BY FlashFacts, NandAssumption DEF TInv
<1> QED
  BY <1>1, EntryBefore DEF ScannedFits, StoresInside

(* An entry of the map that is not 0 has one behind it.                    *)
LEMMA EntryBehind ==
  ASSUME TInv, VolumeRead, ScannedFits, phase = "load",
         NEW l \in Entries, maptable[l] # 0
  PROVE  /\ maptable[l] \in Versions(l)
         /\ l + 1 \in Entries
<1>1. maptable[l] \in Versions(l)
  BY FitsInside DEF VolumeRead, LatestMapped
<1> QED
  BY <1>1 DEF Versions, ScannedFits

LEMMA FitsKept ==
  ASSUME UNCHANGED <<strap, flash, buffer2, vol_id>>
  PROVE  ScannedFits' <=> ScannedFits
BY DEF ScannedFits, OfVolume, HeaderOf, checkBadBlock, HeaderEmpty, checkErasedPage

LEMMA StepAhead ==
  ASSUME TInv, VolumeRead, AheadInside, [Next]_vars
  PROVE  AheadInside'
<1>1. SUFFICES ASSUME phase' = "load", ScannedFits' PROVE (Leb + 1 \in Entries)'
  BY DEF AheadInside
<1>2. CASE VidMap \/ VidMapBehind
  <2>1. /\ peb \in Pebs /\ OfVolume(peb)
        /\ UNCHANGED <<strap, flash, buffer2, vol_id>>
        /\ image' = <<>>
    BY <1>1, <1>2 DEF VidMap, VidMapBehind, BlockFound, CountBlock, Derailed,
                      board, scan
  <2>2. flash[peb].vid.lnum \in Nat /\ flash[peb].vid.lnum + 1 \in Entries
    BY <1>1, <2>1, FitsKept, FlashFacts, NandAssumption DEF ScannedFits, TInv
  <2>3. 1 \in Entries
    BY <2>2, EntryBefore
  <2>4. Leb' = 0
    BY <2>1, NandAssumption DEF Leb
  <2> QED
    BY <2>3, <2>4 DEF Entries
<1>3. CASE ReadLastPage \/ ReadPage
  <2>1. /\ UNCHANGED <<strap, flash, buffer2, vol_id>> /\ phase = "load"
        /\ image \in Seq(Data)
    BY <1>3, ReadFacts
  <2>2. PICK page \in NextPages :
          /\ image' = Append(image, page.data) /\ page.data \in Data
          /\ ReadLastPage => phase' = "returned"
          /\ ~ ReadLastPage =>
               \E on \in Follows(Leb + 1) :
                 IF PageNo = NumPages /\ ~ on THEN Return
                 ELSE UNCHANGED <<phase, result>>
    BY <1>3, ReadFacts
  <2>3. ScannedFits /\ Leb + 1 \in Entries
    BY <1>1, <2>1, FitsKept DEF AheadInside
  <2>4. PageNo = NumPages => maptable[Leb + 1] # 0
    <3> DEFINE found == maptable[Leb + 1] # 0
    <3>1. Leb + 1 \notin MapSize .. MapSize + Behind - 1
      BY <2>3, NandAssumption DEF Entries
    <3>2. Follows(Leb + 1) = {found}
      BY <2>3, <3>1, Zenon DEF Follows
    <3> HIDE DEF found
    <3>3. PageNo = NumPages => found
      BY <1>1, <2>2, <3>2 DEF Return
    <3> QED
      BY <3>3 DEF found
  <2>5. Leb' = IF PageNo = NumPages THEN Leb + 1 ELSE Leb
    <3>1. Len(image') = Len(image) + 1
      BY <2>1, <2>2
    <3> QED
      BY <3>1, PagePlace, NextPage DEF Leb, PageNo
  <2>6. PageNo = NumPages => (Leb + 1) + 1 \in Entries
    BY <2>1, <2>3, <2>4, EntryBehind
  <2> QED
    BY <2>3, <2>5, <2>6
<1>4. CASE \/ LayoutSkip \/ LayoutNoName \/ LayoutDamaged \/ LayoutFound
           \/ VidSkip \/ VolumeFails
  <2>1. phase # "load" => phase' # "load"
    BY <1>4 DEF LayoutSkip, LayoutNoName, LayoutDamaged, LayoutFound, VidSkip,
                Advance, VolumeFails
  <2>2. phase' # "load"
    BY <1>4, <2>1 DEF LayoutSkip, LayoutNoName, LayoutDamaged, LayoutFound, VidSkip,
                      Advance, VolumeFails
  <2> QED
    BY <1>1, <2>2
<1>5. CASE UNCHANGED vars
  BY <1>1, <1>5, FitsKept DEF vars, board, AheadInside, Leb
<1> QED
  BY <1>2, <1>3, <1>4, <1>5
     DEF Next, LayoutMissing, VidDamaged, VidEnd, ReadBadPage

(* Typed, read, and with the next entry inside: what the rest rests on.    *)
RInv == TInv /\ VolumeRead /\ AheadInside

LEMMA InitRInv == Init => RInv
BY InitTyped, InitReads DEF Init, RInv, AheadInside

LEMMA StepRInv == RInv /\ [Next]_vars => RInv'
BY StepTyped, StepReads, StepAhead DEF RInv

(* While the ID scanned for is that of the volume looked for, it stays so  *)
(* until the volume has been read.                                         *)
IdKept == phase \in {"vid", "load"} => vol_id = IdOf(VolumeName)

LEMMA StepIdKept ==
  ASSUME IdKept, VolumeIdNamed', [Next]_vars
  PROVE  IdKept'
<1> USE DEF IdKept, VolumeIdNamed, VolumeName
<1>1. CASE VolumeFails
  BY <1>1 DEF VolumeFails
<1>2. CASE LayoutSkip \/ LayoutNoName \/ LayoutDamaged \/ LayoutFound \/ VidSkip
  BY <1>2 DEF LayoutSkip, LayoutNoName, LayoutDamaged, LayoutFound, VidSkip, Advance
<1>3. CASE VidMap \/ VidMapBehind
  BY <1>3 DEF VidMap, VidMapBehind, BlockFound, CountBlock, Derailed, scan
<1>4. CASE ReadLastPage \/ ReadPage
  BY <1>4 DEF ReadLastPage, ReadPage, Loading, scan
<1>5. CASE UNCHANGED vars
  BY <1>5 DEF vars
<1> QED
  BY <1>1, <1>2, <1>3, <1>4, <1>5
     DEF Next, LayoutMissing, VidDamaged, VidEnd, ReadBadPage

LEMMA NamedFits ==
  ASSUME RInv, IdKept, phase \in {"vid", "load"}, Fits(VolumeName)
  PROVE  ScannedFits
<1>1. ASSUME NEW p \in Pebs, OfVolume(p)
      PROVE  p \in BlocksOf(IdOf(VolumeName))
  <2>1. strap \in {"2KB", "4KB"} /\ vol_id = IdOf(VolumeName)
    BY DEF RInv, TInv, TypeOK, IdKept
  <2> QED
    BY <1>1, <2>1 DEF OfVolume, HeaderOf, HeaderEmpty, checkErasedPage, BlocksOf
<1> QED
  BY <1>1 DEF Fits, ScannedFits

(* Neither the stores of scanvid nor the look-ahead of readmapTable leave  *)
(* maptable[] if the U-Boot volumes have fewer blocks than it has entries, *)
(* while the volume ID of the scan is that of the volume looked for: for   *)
(* every board, and whatever lies behind the map.                          *)
THEOREM BoundsTheorem == Spec /\ []VolumeIdNamed => []MapInBounds
<1>1. Init => RInv /\ IdKept
  BY InitRInv DEF Init, IdKept
<1>2. /\ RInv /\ IdKept /\ VolumeIdNamed' /\ [Next]_vars
      => (RInv /\ IdKept)'
  BY StepRInv, StepIdKept
<1>3. RInv /\ IdKept => MapInBounds
  <2> SUFFICES ASSUME RInv, IdKept, VolumesFit PROVE MapInBounds
    BY DEF MapInBounds
  <2>1. Fits(VolumeName)
    BY DEF VolumesFit, VolumeName
  <2>2. phase \in {"vid", "load"} => ScannedFits
    BY <2>1, NamedFits
  <2>3. phase = "load" => Leb + 1 \in Entries
    BY <2>2 DEF RInv, AheadInside
  <2> QED
    BY <2>2, <2>3, FitsInside DEF RInv, MapInBounds
<1> QED
  BY <1>1, <1>2, <1>3, PTL DEF Spec

-----------------------------------------------------------------------------
(***************************************************************************)
(* PrimaryPreferred.  What is supposed of the boards is how they were      *)
(* programmed, not what became of them: the primary volume is the first of *)
(* the table, on every copy of it, and owns the blocks its record says.    *)
(* (A volume further back is found under a wrong ID when one copy of the   *)
(* table is damaged: VolumeIdNamed.)  On 2KB parts the memory the test for *)
(* empty pages looks at must not look empty, or no header is ever found.   *)
(***************************************************************************)
HeaderBlocks(f, id) == {p \in Pebs : ~ f[p].vid.erased /\ f[p].vid.vol_id = id}

PrimaryFirst ==
  /\ IdOf("uboot") = 0
  /\ \A b \in Boards :
       /\ b.strap = "2KB" => b.buffer2
       /\ \A p \in HeaderBlocks(b.flash, LAYOUT_VOLUMEID) :
            /\ b.flash[p].pages[1].data \notin {Erased, Blank}
            /\ 1 \in DOMAIN b.flash[p].table
            /\ b.flash[p].table[1].name = "uboot"
            /\ b.flash[p].table[1].reserved_pebs
                 <= Cardinality(HeaderBlocks(b.flash, 0))

PrimarySound ==
  /\ Fits("uboot")
  /\ \A p \in BlocksOf(0) : Sound(p)
  /\ \E p \in BlocksOf(LAYOUT_VOLUMEID) : Sound(p)

(* The scan has missed no sound copy of the table, and no block of the     *)
(* volume; so neither scan runs to its end.                                *)
PrimaryKept ==
  PrimarySound =>
    /\ ubootVol = 0 /\ vol_id = 0 /\ result # "failed"
    /\ phase = "layout" =>
         \A p \in BlocksOf(LAYOUT_VOLUMEID) : p < peb => ~ Sound(p)
    /\ phase = "vid" =>
         /\ ubootReservedBlocks <= Cardinality(BlocksOf(0))
         /\ ubootblocks = Cardinality({p \in BlocksOf(0) : p < peb})

LEMMA HereFirst ==
  ASSUME OnBoard, PrimaryFirst
  PROVE  /\ strap \in {"2KB", "4KB"}
         /\ strap = "2KB" => buffer2
         /\ \A p \in BlocksOf(LAYOUT_VOLUMEID) :
              /\ flash[p].pages[1].data \notin {Erased, Blank}
              /\ 1 \in DOMAIN flash[p].table
              /\ flash[p].table[1].name = "uboot"
              /\ flash[p].table[1].reserved_pebs <= Cardinality(BlocksOf(0))
<1>1. PICK b \in Boards : strap = b.strap /\ flash = b.flash /\ buffer2 = b.buffer2
  BY DEF OnBoard, board
<1>2. \A id : BlocksOf(id) = HeaderBlocks(b.flash, id)
  BY <1>1 DEF BlocksOf, HeaderBlocks
<1>3. b.strap \in {"2KB", "4KB"}
  BY BoardAssumption
<1> QED
  BY <1>1, <1>2, <1>3 DEF PrimaryFirst

(* A header is taken for empty where it is.                                *)
LEMMA EmptyIsErased ==
  ASSUME OnBoard, PrimaryFirst, NEW p \in Pebs, flash[p].vid.erased \in BOOLEAN
  PROVE  HeaderEmpty(p) <=> flash[p].vid.erased
BY HereFirst DEF HeaderEmpty, checkErasedPage

LEMMA VidFacts ==
  ASSUME OnBoard, NEW p \in Pebs
  PROVE  flash[p].vid.erased \in BOOLEAN
<1>1. PICK b \in Boards : flash = b.flash
  BY DEF OnBoard, board
<1> QED
  BY <1>1, BoardAssumption DEF ubi_vid_hdr

(* Every copy of the table that is looked into has the name in front.      *)
LEMMA NameInFront ==
  ASSUME OnBoard, PrimaryFirst, ubootVol = 0, NEW p \in Pebs, IsLayout(p)
  PROVE  /\ p \in BlocksOf(LAYOUT_VOLUMEID)
         /\ Named(p) # {} /\ Min(Named(p)) = 1
         /\ RecordOf(p) = flash[p].table[1]
         /\ RecordOf(p).reserved_pebs <= Cardinality(BlocksOf(0))
         /\ Sound(p) => RecordValid(p)
<1>1. p \in BlocksOf(LAYOUT_VOLUMEID)
  BY EmptyIsErased, VidFacts DEF IsLayout, BlocksOf
<1>2. 1 \in Named(p)
  BY <1>1, HereFirst DEF Named, Searched, VolumeName
<1>3. Named(p) \subseteq Nat \ {0}
  BY FlashFacts DEF Named, Searched
<1>4. Min(Named(p)) \in Nat \ {0} /\ Min(Named(p)) <= 1
  BY <1>2, <1>3, MinOfNats
<1>5. Min(Named(p)) = 1
  BY <1>4
<1>6. RecordOf(p) = flash[p].table[1]
  BY <1>5 DEF RecordOf
<1>7. Sound(p) => RecordValid(p)
  BY <1>1, <1>6, HereFirst DEF Sound, RecordValid
<1> QED
  BY <1>1, <1>2, <1>5, <1>6, <1>7, HereFirst

LEMMA SoundIsLayout ==
  ASSUME OnBoard, PrimaryFirst, NEW p \in BlocksOf(LAYOUT_VOLUMEID), Sound(p)
  PROVE  IsLayout(p)
<1>1. p \in Pebs /\ ~ flash[p].vid.erased
  BY DEF BlocksOf
<1>2. ~ HeaderEmpty(p)
  BY <1>1, EmptyIsErased, VidFacts
<1>3. ~ TableEmpty(p)
  BY HereFirst DEF TableEmpty
<1> QED
  BY <1>2, <1>3 DEF IsLayout, checkBadBlock, Sound, BlocksOf

LEMMA SoundIsOfVolume ==
  ASSUME OnBoard, PrimaryFirst, PrimarySound, vol_id = 0, NEW p \in Pebs
  PROVE  /\ OfVolume(p) <=> p \in BlocksOf(0)
         /\ OfVolume(p) => HeaderValid(p)
<1>1. HeaderEmpty(p) <=> flash[p].vid.erased
  BY EmptyIsErased, VidFacts
<1>2. OfVolume(p) => p \in BlocksOf(0)
  BY <1>1 DEF OfVolume, HeaderOf, BlocksOf
<1>3. ASSUME p \in BlocksOf(0)
      PROVE  OfVolume(p) /\ HeaderValid(p)
  <2>1. Sound(p)
    BY <1>3 DEF PrimarySound
  <2> QED
    BY <1>1, <1>3, <2>1 DEF Sound, OfVolume, HeaderOf, HeaderValid, BlocksOf,
                            checkBadBlock
<1> QED
  BY <1>2, <1>3

LEMMA BlocksFinite ==
  /\ IsFiniteSet(BlocksOf(0)) /\ Cardinality(BlocksOf(0)) \in Nat
  /\ \A n : IsFiniteSet({p \in BlocksOf(0) : p < n})
<1>1. IsFiniteSet(1 .. NumPebs)
  BY NandAssumption, FS_Interval
<1>2. BlocksOf(0) \in SUBSET (1 .. NumPebs)
  BY DEF BlocksOf, Pebs
<1>3. IsFiniteSet(BlocksOf(0))
  BY <1>1, <1>2, FS_Subset
<1>4. ASSUME NEW n
      PROVE  IsFiniteSet({p \in BlocksOf(0) : p < n})
  BY <1>3, FS_Subset
<1> QED
  BY <1>3, <1>4, FS_CardinalityType

LEMMA InitKept == Init => PrimaryKept
BY DEF Init, PrimaryKept, BlocksOf, Pebs

LEMMA FlashKept == TInv /\ [Next]_vars => UNCHANGED <<strap, flash, buffer2>>
BY DEF vars, board, Next, LayoutSkip, LayoutNoName, LayoutDamaged, LayoutFound,
       LayoutMissing, VidSkip, VidMap, VidMapBehind, BlockFound, VidDamaged, VidEnd,
       ReadLastPage, ReadPage, ReadBadPage, Advance, VolumeFails, Loading

(* The volume fits the map, and its pages are sound.                       *)
LEMMA PrimaryFits ==
  ASSUME TInv, PrimaryFirst, PrimarySound, vol_id = 0
  PROVE  ScannedFits
<1>1. \A p \in Pebs : OfVolume(p) => p \in BlocksOf(IdOf("uboot"))
  BY SoundIsOfVolume DEF TInv, PrimaryFirst
<1> QED
  BY <1>1 DEF PrimarySound, Fits, ScannedFits

(* The page read next is one of a block of the volume, or the loader.      *)
LEMMA PageIsSound ==
  ASSUME RInv, PrimaryFirst, PrimarySound, vol_id = 0, phase = "load",
         NEW page \in NextPages
  PROVE  page.ecc = {}
<1>0. ScannedFits /\ TInv /\ VolumeRead
  BY PrimaryFits DEF RInv
<1>1. PageNo \in 1 .. NumPages /\ Leb \in Entries
  BY <1>0, PagePlace, EntryBefore DEF RInv, AheadInside
<1>2. page = PageAt(maptable[Leb], PageNo)
  BY <1>1 DEF NextPages
<1>3. CASE maptable[Leb] = 0
  BY <1>2, <1>3 DEF PageAt
<1>4. CASE maptable[Leb] # 0
  <2>1. maptable[Leb] \in Versions(Leb)
    BY <1>0, <1>1, <1>4, EntryBehind
  <2>2. maptable[Leb] \in BlocksOf(0)
    BY <1>0, <2>1, SoundIsOfVolume DEF Versions, TInv
  <2>3. Sound(maptable[Leb])
    BY <2>2 DEF PrimarySound
  <2> QED
    BY <1>1, <1>2, <1>4, <2>3 DEF Sound, PageAt
<1> QED
  BY <1>3, <1>4

LEMMA StepKept ==
  ASSUME RInv, PrimaryKept, PrimaryFirst, [Next]_vars
  PROVE  PrimaryKept'
<1>1. SUFFICES ASSUME PrimarySound
               PROVE  /\ ubootVol' = 0 /\ vol_id' = 0 /\ result' # "failed"
                      /\ phase' = "layout" =>
                           \A p \in BlocksOf(LAYOUT_VOLUMEID) : p < peb' => ~ Sound(p)
                      /\ phase' = "vid" =>
                           /\ ubootReservedBlocks' <= Cardinality(BlocksOf(0))
                           /\ ubootblocks' = Cardinality({p \in BlocksOf(0) : p < peb'})
  <2>1. flash' = flash
    BY FlashKept DEF RInv
  <2>2. /\ \A id : BlocksOf(id)' = BlocksOf(id)
        /\ \A p : Sound(p)' <=> Sound(p)
        /\ PrimarySound' <=> PrimarySound
    BY <2>1 DEF BlocksOf, Sound, Fits, PrimarySound
  <2> QED
    BY <2>2 DEF PrimaryKept
<1>2. /\ OnBoard /\ ubootVol = 0 /\ vol_id = 0 /\ result # "failed"
      /\ peb \in 1 .. NumPebs + 1 /\ NumPebs \in Nat /\ Pebs = 1 .. NumPebs
      /\ TInv
  BY <1>1, NandAssumption DEF PrimaryKept, RInv, TInv, TypeOK, Pebs
<1>3. \A id : BlocksOf(id) \subseteq 1 .. NumPebs
  BY DEF BlocksOf, Pebs
<1>4. ASSUME phase = "layout", peb \in Pebs, peb' = peb + 1, phase' = phase,
             UNCHANGED <<ubootVol, result>>, vol_id' = 0,
             peb \in BlocksOf(LAYOUT_VOLUMEID) => ~ Sound(peb)
      PROVE  /\ ubootVol' = 0 /\ vol_id' = 0 /\ result' # "failed"
             /\ phase' = "layout"
             /\ \A p \in BlocksOf(LAYOUT_VOLUMEID) : p < peb' => ~ Sound(p)
  <2>1. ASSUME NEW p \in BlocksOf(LAYOUT_VOLUMEID), p < peb'
        PROVE  ~ Sound(p)
    <3>1. p < peb \/ p = peb
      BY <1>2, <1>3, <1>4, <2>1
    <3> QED
      BY <1>1, <1>4, <2>1, <3>1 DEF PrimaryKept
  <2> QED
    BY <1>2, <1>4, <2>1
<1>5. CASE LayoutSkip
  <2>1. peb \in BlocksOf(LAYOUT_VOLUMEID) => ~ Sound(peb)
    BY <1>2, <1>5, SoundIsLayout DEF LayoutSkip
  <2> QED
    BY <1>2, <1>4, <1>5, <2>1 DEF LayoutSkip, Advance
<1>6. CASE LayoutNoName
  BY <1>2, <1>6, NameInFront DEF LayoutNoName
<1>7. CASE LayoutDamaged
  <2>1. Min(Named(peb)) = 1 /\ ~ Sound(peb)
    BY <1>2, <1>7, NameInFront DEF LayoutDamaged
  <2>2. vol_id' = 0
    BY <1>2, <1>7, <2>1 DEF LayoutDamaged
  <2> QED
    BY <1>4, <1>7, <2>1, <2>2 DEF LayoutDamaged, Advance
<1>8. CASE LayoutFound
  <2>1. Min(Named(peb)) = 1
        /\ RecordOf(peb).reserved_pebs <= Cardinality(BlocksOf(0))
    BY <1>2, <1>8, NameInFront DEF LayoutFound
  <2>2. vol_id' = 0
    BY <1>2, <1>8, <2>1 DEF LayoutFound
  <2>3. {p \in BlocksOf(0) : p < 1} = {}
    BY <1>3
  <2>4. Cardinality({p \in BlocksOf(0) : p < 1}) = 0
    BY <2>3, FS_EmptySet
  <2> QED
    BY <1>2, <1>8, <2>1, <2>2, <2>4 DEF LayoutFound
<1>9. CASE LayoutMissing
  <2>1. \A p \in BlocksOf(LAYOUT_VOLUMEID) : p < peb
    BY <1>2, <1>3, <1>9 DEF LayoutMissing
  <2> QED
    BY <1>1, <1>9, <2>1 DEF LayoutMissing, PrimaryKept, PrimarySound
<1>10. CASE VidSkip
  <2>1. /\ phase = "vid" /\ peb \notin BlocksOf(0) /\ peb' = peb + 1
        /\ UNCHANGED <<phase, ubootVol, vol_id, result, ubootblocks,
                       ubootReservedBlocks>>
    BY <1>1, <1>2, <1>10, SoundIsOfVolume DEF VidSkip, Advance
  <2>2. {p \in BlocksOf(0) : p < peb'} = {p \in BlocksOf(0) : p < peb}
    BY <1>2, <1>3, <2>1
  <2> QED
    BY <1>1, <1>2, <2>1, <2>2 DEF PrimaryKept
<1>11. CASE VidMap \/ VidMapBehind
  <2>0. peb \in Pebs /\ OfVolume(peb)
    BY <1>11 DEF VidMap, VidMapBehind, BlockFound
  <2>1. /\ phase = "vid" /\ peb \in BlocksOf(0) /\ peb' = peb + 1
        /\ UNCHANGED <<ubootVol, vol_id, result, ubootReservedBlocks>>
        /\ ubootblocks' = ubootblocks + 1 /\ phase' # "layout"
    <3>1. flash[peb].vid.lnum \in Entries
      BY <1>1, <1>2, <2>0, PrimaryFits, FitsInside
    <3>2. VidMap
      BY <1>11, <3>1 DEF VidMapBehind
    <3> QED
      BY <1>1, <1>2, <2>0, <3>2, SoundIsOfVolume DEF VidMap, BlockFound, CountBlock, scan
  <2> DEFINE S == {p \in BlocksOf(0) : p < peb}
  <2>2. {p \in BlocksOf(0) : p < peb'} = S \cup {peb} /\ peb \notin S
    BY <1>2, <1>3, <2>1
  <2>3. Cardinality(S \cup {peb}) = Cardinality(S) + 1
    BY <2>2, BlocksFinite, FS_AddElement
  <2>4. /\ ubootReservedBlocks <= Cardinality(BlocksOf(0))
        /\ ubootblocks = Cardinality(S)
    BY <1>1, <2>1 DEF PrimaryKept
  <2> QED
    BY <1>2, <2>1, <2>2, <2>3, <2>4
<1>12. CASE VidDamaged
  BY <1>1, <1>2, <1>12, SoundIsOfVolume DEF VidDamaged
<1>13. CASE VidEnd
  <2>1. {p \in BlocksOf(0) : p < peb} = BlocksOf(0)
    BY <1>2, <1>3, <1>13 DEF VidEnd
  <2>2. /\ ubootReservedBlocks <= Cardinality(BlocksOf(0))
        /\ ubootblocks = Cardinality(BlocksOf(0))
    BY <1>1, <1>13, <2>1 DEF VidEnd, PrimaryKept
  <2>3. ubootblocks \in Nat /\ ubootReservedBlocks \in Nat
    BY NandAssumption DEF TInv, TypeOK, RInv
  <2> QED
    BY <1>13, <2>2, <2>3 DEF VidEnd
<1>14. CASE ReadLastPage \/ ReadPage
  <2>1. /\ UNCHANGED <<ubootVol, vol_id>> /\ phase' \in {"load", "returned"}
        /\ result' \in {result, "ok"}
    BY <1>2, <1>14, ReadFacts
  <2> QED
    BY <1>2, <2>1
<1>15. CASE ReadBadPage
  BY <1>1, <1>2, <1>15, PageIsSound DEF ReadBadPage
<1>16. CASE UNCHANGED vars
  BY <1>1, <1>16 DEF vars, board, scan, PrimaryKept
<1> QED
  BY <1>5, <1>6, <1>7, <1>8, <1>9, <1>10, <1>11, <1>12, <1>13, <1>14, <1>15, <1>16
     DEF Next

(* While the primary volume and one copy of the volume table are sound,    *)
(* and the volume has fewer LEBs than the map has entries, read_uboot      *)
(* neither goes to the backup nor fails, wherever the blocks are and       *)
(* whatever became of the others.                                          *)
THEOREM PrimaryTheorem ==
  ASSUME PrimaryFirst
  PROVE  Spec => [](PrimaryPreferred /\ (PrimarySound => result # "failed"))
<1>1. Init => RInv /\ PrimaryKept
  BY InitRInv, InitKept
<1>2. RInv /\ PrimaryKept /\ [Next]_vars => (RInv /\ PrimaryKept)'
  BY StepRInv, StepKept, PrimaryFirst
<1>3. PrimaryKept => PrimaryPreferred /\ (PrimarySound => result # "failed")
  BY PrimaryFirst DEF PrimaryKept, PrimaryPreferred, PrimarySound, PrimaryFirst
<1> QED
  BY <1>1, <1>2, <1>3, PTL DEF Spec

-----------------------------------------------------------------------------
(***************************************************************************)
(* BootedImage on 4KB parts.  What is supposed of the boards is again how  *)
(* they were programmed, and what damage may do: no page of the image      *)
(* looks empty, none but those behind it does; each LEB is in one block    *)
(* (nand_moved shows what happens otherwise); the table reserves enough    *)
(* blocks for the image.  Any block may be bad, any header and any page    *)
(* damaged, as long as the ECC notices the damage to a page.  (That both   *)
(* volumes fit the map is said in BootedImage.)                            *)
(***************************************************************************)
PageWritten(page, written, k) ==
  IF k <= Len(written)
  THEN page.data \notin {Erased, Blank} /\ (page.ecc = {} => page.data = written[k])
  ELSE page.data = Erased

VolumeWritten(f, name) ==
  LET written == Content[name]
      blocks  == HeaderBlocks(f, IdOf(name))
  IN  /\ written \in Seq(Data \ {Erased, Blank})
      /\ \A p, q \in blocks : f[p].vid.lnum = f[q].vid.lnum => p = q
      /\ \A p \in blocks :
           /\ f[p].vid.lnum * NumPages < Len(written)
           /\ \A i \in 1 .. NumPages :
                PageWritten(f[p].pages[i], written, f[p].vid.lnum * NumPages + i)
      /\ \A p \in HeaderBlocks(f, LAYOUT_VOLUMEID) :
           \A s \in DOMAIN f[p].table :
             LET r == f[p].table[s]
             IN  r.name = name /\ r.crcOk /\ ~ r.upd_marker
                   => Len(written) <= r.reserved_pebs * NumPages

AsWritten ==
  \A b \in Boards : b.strap = "4KB" =>
    VolumeWritten(b.flash, "uboot") /\ VolumeWritten(b.flash, "BKUPuboot")

(* Blocks are counted as they are passed, so that none is missing when     *)
(* there are as many as reserved; what was read begins the image, and the  *)
(* next page is in a block of it.                                          *)
Passed == {p \in Pebs : p < peb /\ OfVolume(p)}

Part4KB ==
  strap = "4KB" /\ VolumesFit =>
    LET written == Content[VolumeName]
    IN  /\ phase \in {"vid", "load"} => vol_id = IdOf(VolumeName)
        /\ phase = "vid" =>
             /\ ubootblocks = Cardinality(Passed)
             /\ Len(written) <= ubootReservedBlocks * NumPages
        /\ phase = "load" =>
             /\ \A l \in Nat : l * NumPages < Len(written)
                                => l \in Entries /\ maptable[l] # 0
             /\ Leb * NumPages < Len(written) /\ Len(image) <= Len(written)
             /\ \A k \in 1 .. Len(image) : image[k] = written[k]
        /\ BootedImage

LEMMA SmallerFactor ==
  ASSUME NEW a \in Nat, NEW b \in Nat, NEW n \in Nat \ {0}, a * n < b * n
  PROVE  a < b
<1>1. SUFFICES ASSUME b <= a PROVE FALSE
  OBVIOUS
<1>2. PICK d \in Nat : a = b + d
  <2>1. a - b \in Nat /\ a = b + (a - b)
    BY <1>1
  <2> QED
    BY <2>1
<1>3. a * n = b * n + d * n
  BY <1>2
<1>4. d * n \in Nat /\ b * n \in Nat
  OBVIOUS
<1> QED
  BY <1>3, <1>4

LEMMA WrittenHere ==
  ASSUME TInv, AsWritten, strap = "4KB"
  PROVE  VolumeWritten(flash, VolumeName)
<1>1. PICK b \in Boards : strap = b.strap /\ flash = b.flash
  BY DEF TInv, OnBoard, board
<1>2. VolumeWritten(b.flash, "uboot") /\ VolumeWritten(b.flash, "BKUPuboot")
  BY <1>1 DEF AsWritten
<1> QED
  BY <1>1, <1>2 DEF VolumeName

LEMMA OfVolumeBlocks ==
  ASSUME strap = "4KB", vol_id = IdOf(VolumeName), NEW p \in Pebs, OfVolume(p)
  PROVE  p \in HeaderBlocks(flash, IdOf(VolumeName))
BY DEF OfVolume, HeaderOf, HeaderEmpty, HeaderBlocks

(* One more block is passed, and counted if it is of the volume.           *)
LEMMA OneMorePassed ==
  ASSUME peb \in Pebs, peb' = peb + 1, UNCHANGED <<strap, flash, buffer2, vol_id>>
  PROVE  /\ IsFiniteSet(Passed') /\ Cardinality(Passed) \in Nat
         /\ Cardinality(Passed') = IF OfVolume(peb) THEN Cardinality(Passed) + 1
                                                    ELSE Cardinality(Passed)
<1>1. \A p : OfVolume(p)' <=> OfVolume(p)
  BY DEF OfVolume, HeaderOf, checkBadBlock, HeaderEmpty, checkErasedPage
<1>2. Pebs = 1 .. NumPebs /\ NumPebs \in Nat
  BY NandAssumption DEF Pebs
<1>3. IsFiniteSet(Pebs)
  BY <1>2, FS_Interval
<1>4. Passed \in SUBSET Pebs /\ Passed' \in SUBSET Pebs
  BY DEF Passed
<1>5. IsFiniteSet(Passed) /\ IsFiniteSet(Passed')
  BY <1>3, <1>4, FS_Subset
<1>6. \A p \in Pebs : p < peb + 1 <=> p < peb \/ p = peb
  BY <1>2
<1>7. Passed' = {p \in Pebs : p < peb + 1 /\ OfVolume(p)}
  BY <1>1 DEF Passed
<1>8. peb \notin Passed
  BY <1>2 DEF Passed
<1>9. CASE OfVolume(peb)
  <2>1. Passed' = Passed \cup {peb}
    BY <1>6, <1>7, <1>9 DEF Passed
  <2> QED
    BY <1>5, <1>8, <1>9, <2>1, FS_AddElement, FS_CardinalityType
<1>10. CASE ~ OfVolume(peb)
  <2>1. Passed' = Passed
    BY <1>6, <1>7, <1>10 DEF Passed
  <2> QED
    BY <1>5, <1>10, <2>1, FS_CardinalityType
<1> QED
  BY <1>9, <1>10

(* As many numbers below R as there are: all of them.                      *)
LEMMA NoneMissing ==
  ASSUME NEW S, IsFiniteSet(S), NEW R \in Nat, R <= Cardinality(S),
         NEW f \in [S -> 0 .. R - 1],
         \A p, q \in S : f[p] = f[q] => p = q,
         NEW l \in 0 .. R - 1
  PROVE  \E p \in S : f[p] = l
<1>1. IsFiniteSet(0 .. R - 1) /\ Cardinality(0 .. R - 1) = R
  <2>1. 0 \in Int /\ R - 1 \in Int /\ (R - 1) - 0 + 1 = R /\ (0 > R - 1 <=> R = 0)
    OBVIOUS
  <2> QED
    BY <2>1, FS_Interval
<1>2. f \in Injection(S, 0 .. R - 1)
  BY DEF Injection, IsInjective
<1>3. Cardinality(S) \in Nat /\ Cardinality(S) <= R
  BY <1>1, <1>2, FS_Injection, FS_CardinalityType
<1>4. f \in Surjection(S, 0 .. R - 1)
  BY <1>1, <1>2, <1>3, FS_Injection
<1> QED
  BY <1>4 DEF Surjection

(* The scan hands over a map in which every LEB of the image is.           *)
LEMMA MapIsWhole ==
  ASSUME TInv, VolumeWritten(flash, VolumeName), strap = "4KB",
         vol_id = IdOf(VolumeName), NEW n \in Nat,
         NEW S, S = {p \in Pebs : p < n /\ OfVolume(p)},
         ubootReservedBlocks <= Cardinality(S),
         Len(Content[VolumeName]) <= ubootReservedBlocks * NumPages,
         NEW l \in Nat, l * NumPages < Len(Content[VolumeName])
  PROVE  \E p \in S : flash[p].vid.lnum = l
<1> DEFINE written == Content[VolumeName]
           blocks == HeaderBlocks(flash, IdOf(VolumeName))
           R == ubootReservedBlocks
           f == [p \in S |-> flash[p].vid.lnum]
<1>1. R \in Nat /\ NumPages \in Nat \ {0} /\ Len(written) \in Nat
  BY NandAssumption DEF TInv, TypeOK, VolumeWritten
<1>2. S \subseteq Pebs /\ S \subseteq blocks
  BY OfVolumeBlocks
<1>3. IsFiniteSet(S)
  <2>1. IsFiniteSet(Pebs)
    BY NandAssumption, FS_Interval DEF Pebs
  <2> QED
    BY <1>2, <2>1, FS_Subset
<1>4. ASSUME NEW k \in Nat, k * NumPages < Len(written)
      PROVE  k \in 0 .. R - 1
  <2>1. k * NumPages < R * NumPages
    <3>1. k * NumPages \in Nat /\ R * NumPages \in Nat
      BY <1>1
    <3> QED
      BY <1>1, <1>4, <3>1
  <2>2. k < R
    BY <1>1, <2>1, SmallerFactor
  <2> QED
    BY <1>1, <2>2
<1>5. \A p \in S : f[p] \in Nat /\ f[p] * NumPages < Len(written)
  <2>1. \A p \in S : flash[p].vid.lnum \in Nat
    BY <1>2, FlashFacts, NandAssumption DEF TInv
  <2> QED
    BY <1>2, <2>1 DEF VolumeWritten
<1>6. f \in [S -> 0 .. R - 1]
  <2>1. \A p \in S : f[p] \in 0 .. R - 1
    BY <1>4, <1>5
  <2> QED
    BY <2>1
<1>7. \A p, q \in S : f[p] = f[q] => p = q
  BY <1>2 DEF VolumeWritten
<1>8. l \in 0 .. R - 1
  BY <1>4
<1> HIDE DEF f
<1>9. \E p \in S : f[p] = l
  BY <1>1, <1>3, <1>6, <1>7, <1>8, NoneMissing
<1> QED
  BY <1>9 DEF f

(* The page that is read next is the next one of the image, or behind it.  *)
LEMMA PageIsNext ==
  ASSUME TInv, VolumeWritten(flash, VolumeName), strap = "4KB",
         vol_id = IdOf(VolumeName), maptable[Leb] \in Versions(Leb)
  PROVE  PageWritten(flash[maptable[Leb]].pages[PageNo], Content[VolumeName],
                     Len(image) + 1)
<1> DEFINE p == maptable[Leb]
<1>1. p \in Pebs /\ OfVolume(p) /\ flash[p].vid.lnum = Leb
  BY DEF Versions
<1>2. p \in HeaderBlocks(flash, IdOf(VolumeName))
  BY <1>1, OfVolumeBlocks
<1>3. PageNo \in 1 .. NumPages /\ Leb * NumPages + PageNo = Len(image) + 1
  <2>1. Len(image) \in Nat /\ NumPages \in Nat \ {0}
    BY NandAssumption DEF TInv, TypeOK
  <2>2. /\ Len(image) \div NumPages \in Nat
        /\ Len(image) % NumPages \in 0 .. NumPages - 1
        /\ Len(image) = NumPages * (Len(image) \div NumPages) + (Len(image) % NumPages)
    BY <2>1
  <2>3. NumPages * (Len(image) \div NumPages) = Leb * NumPages
    BY <2>1, <2>2 DEF Leb
  <2> QED
    BY <2>1, <2>2, <2>3 DEF PageNo, Leb
<1> QED
  BY <1>1, <1>2, <1>3 DEF VolumeWritten

LEMMA InitPart == Init => Part4KB
BY DEF Init, Part4KB, BootedImage

(* The next page of the same block, or the first of the next one.          *)
LEMMA PageInBlock ==
  ASSUME NEW n \in Nat, NEW d \in Nat \ {0}
  PROVE  /\ (n \div d) * d <= n
         /\ (n + 1) \div d = IF (n % d) + 1 = d THEN n \div d + 1 ELSE n \div d
         /\ (n % d) + 1 = d => ((n \div d) + 1) * d = n + 1
<1>1. (n + 1) \div d = IF (n % d) + 1 = d THEN n \div d + 1 ELSE n \div d
  BY NextPage
<1> DEFINE q == n \div d
           r == n % d
<1>2. q \in Nat /\ r \in 0 .. d - 1 /\ n = d * q + r
  OBVIOUS
<1> HIDE DEF q, r
<1>3. q * d = d * q /\ (q + 1) * d = d * q + d /\ d * q \in Nat
  BY <1>2
<1>4. q * d <= n /\ (r + 1 = d => (q + 1) * d = n + 1)
  BY <1>2, <1>3
<1> QED
  BY <1>1, <1>4 DEF q, r

(* A page read, with the map as it is.                                     *)
LEMMA ReadingPart ==
  ASSUME RInv, Part4KB, AsWritten, strap = "4KB", VolumesFit,
         ReadLastPage \/ ReadPage
  PROVE  Part4KB'
<1> DEFINE written == Content[VolumeName]
<1>0. TInv /\ VolumeRead /\ AheadInside
  BY DEF RInv
<1>1. /\ UNCHANGED <<strap, flash, buffer2, ubootVol, vol_id, peb,
                     ubootReservedBlocks, maptable, ubootblocks>>
      /\ phase = "load" /\ image \in Seq(Data)
  BY <1>0, ReadFacts
<1>2. /\ Len(image) \in Nat /\ NumPages \in Nat \ {0}
      /\ Leb \in Nat /\ PageNo \in 1 .. NumPages /\ result = "none"
  BY <1>0, <1>1, PagePlace DEF TInv, Running
<1>3. VolumeWritten(flash, VolumeName)
  BY <1>0, WrittenHere
<1>4. /\ written \in Seq(Data \ {Erased, Blank}) /\ Len(written) \in Nat
      /\ \A k \in 1 .. Len(written) : written[k] \notin {Erased, Blank}
  BY <1>3 DEF VolumeWritten
<1>5. /\ vol_id = IdOf(VolumeName)
      /\ \A l \in Nat : l * NumPages < Len(written)
                         => l \in Entries /\ maptable[l] # 0
      /\ Leb * NumPages < Len(written) /\ Len(image) <= Len(written)
      /\ \A k \in 1 .. Len(image) : image[k] = written[k]
  BY <1>1 DEF Part4KB
<1>6. /\ ScannedFits /\ Leb \in Entries /\ maptable[Leb] # 0
      /\ Leb + 1 \in Entries
  <2>1. ScannedFits
    BY <1>1, <1>5, NamedFits DEF IdKept, VolumesFit, VolumeName
  <2> QED
    BY <1>0, <1>1, <1>2, <1>5, <2>1 DEF AheadInside
<1>7. PICK page \in NextPages :
        /\ image' = Append(image, page.data) /\ page.data \in Data
        /\ ReadLastPage => TRUE \in EndSeen(page) /\ phase' = "returned"
        /\ ~ ReadLastPage =>
             /\ FALSE \in EndSeen(page) /\ page.ecc = {}
             /\ \E on \in Follows(Leb + 1) :
                  IF PageNo = NumPages /\ ~ on THEN Return
                  ELSE UNCHANGED <<phase, result>>
  BY <1>0, ReadFacts
<1>8. PageWritten(page, written, Len(image) + 1)
  <2>1. maptable[Leb] \in Versions(Leb)
    BY <1>0, <1>1, <1>6, EntryBehind
  <2>2. page = flash[maptable[Leb]].pages[PageNo]
    BY <1>6, <1>7 DEF NextPages, PageAt
  <2> QED
    BY <1>0, <1>3, <1>5, <2>1, <2>2, PageIsNext
<1>9. /\ Len(image') = Len(image) + 1
      /\ \A k \in 1 .. Len(image) : image'[k] = image[k]
      /\ image'[Len(image) + 1] = page.data
      /\ DOMAIN image' = 1 .. Len(image) + 1
      /\ VolumeName' = VolumeName
  BY <1>1, <1>2, <1>7 DEF VolumeName
<1>10. /\ TRUE \in EndSeen(page) => page.data \in {Erased, Blank}
       /\ FALSE \in EndSeen(page) => page.data \notin {Erased, Blank}
  <2> DEFINE empty == page.data \in {Erased, Blank}
  <2>1. EndSeen(page) = {empty} /\ empty \in BOOLEAN
    BY DEF EndSeen
  <2> HIDE DEF empty
  <2>2. TRUE \in {empty} => empty
    OBVIOUS
  <2>3. FALSE \in {empty} => ~ empty
    BY <2>1
  <2> QED
    BY <2>1, <2>2, <2>3 DEF empty
<1>11. ASSUME ~ ReadLastPage
       PROVE  IF PageNo = NumPages /\ maptable[Leb + 1] = 0
              THEN phase' = "returned" /\ result' = "ok"
              ELSE UNCHANGED <<phase, result>>
  <2> DEFINE found == maptable[Leb + 1] # 0
  <2>1. Leb + 1 \notin MapSize .. MapSize + Behind - 1
    BY <1>6, NandAssumption DEF Entries
  <2>2. Follows(Leb + 1) = {found}
    BY <1>6, <2>1, Zenon DEF Follows
  <2> HIDE DEF found
  <2>3. IF PageNo = NumPages /\ ~ found THEN Return ELSE UNCHANGED <<phase, result>>
    BY <1>7, <1>11, <2>2
  <2> QED
    BY <2>3 DEF found, Return
<1>12. CASE ReadLastPage
  <2>1. page.data \in {Erased, Blank} /\ phase' = "returned"
    BY <1>7, <1>10, <1>12
  <2>2. ~ (Len(image) + 1 <= Len(written)) /\ page.data = Erased
    BY <1>8, <2>1 DEF PageWritten
  <2>3. Len(image) = Len(written)
    BY <1>2, <1>4, <1>5, <2>2
  <2>4. BootedImage'
    <3>1. \A k \in 1 .. Len(image) + 1 :
            image'[k] = IF k <= Len(written) THEN written[k] ELSE Erased
      BY <1>2, <1>5, <1>9, <2>2, <2>3
    <3>2. Len(written) <= Len(image')
      BY <1>2, <1>9, <2>3
    <3> QED
      BY <1>9, <3>1, <3>2 DEF BootedImage
  <2> QED
    BY <2>1, <2>4 DEF Part4KB
<1>13. CASE ~ ReadLastPage
  <2>1. page.data \notin {Erased, Blank} /\ page.ecc = {}
    BY <1>7, <1>10, <1>13
  <2>2. Len(image) + 1 <= Len(written) /\ page.data = written[Len(image) + 1]
    <3>1. page.data # Erased
      BY <2>1
    <3> QED
      BY <1>8, <2>1, <3>1 DEF PageWritten
  <2>3. \A k \in 1 .. Len(image) + 1 : image'[k] = written[k]
    BY <1>2, <1>5, <1>9, <2>2
  <2>4. CASE PageNo = NumPages /\ maptable[Leb + 1] = 0
    <3>1. phase' = "returned"
      BY <1>11, <1>13, <2>4
    <3>2. ~ ((Leb + 1) * NumPages < Len(written))
      BY <1>2, <1>5, <2>4
    <3>3. (Leb + 1) * NumPages = Len(image) + 1
      BY <1>2, <2>4, PageInBlock DEF Leb, PageNo
    <3>4. Len(image) + 1 = Len(written)
      BY <1>2, <1>4, <2>2, <3>2, <3>3
    <3>5. BootedImage'
      <4>1. \A k \in 1 .. Len(image) + 1 :
              image'[k] = IF k <= Len(written) THEN written[k] ELSE Erased
        BY <2>3, <3>4
      <4> QED
        BY <1>2, <1>9, <3>4, <4>1 DEF BootedImage
    <3> QED
      BY <3>1, <3>5 DEF Part4KB
  <2>5. CASE ~ (PageNo = NumPages /\ maptable[Leb + 1] = 0)
    <3>1. phase' = "load" /\ result' = "none"
      BY <1>1, <1>2, <1>11, <1>13, <2>5
    <3>2. Leb' = IF PageNo = NumPages THEN Leb + 1 ELSE Leb
      BY <1>2, <1>9, PageInBlock DEF Leb, PageNo
    <3>3. Leb' * NumPages < Len(written)
      <4>1. CASE PageNo = NumPages
        <5>1. maptable[Leb + 1] \in Versions(Leb + 1)
          BY <1>0, <1>1, <1>6, <2>5, <4>1, EntryBehind
        <5>2. PICK q \in Pebs : OfVolume(q) /\ flash[q].vid.lnum = Leb + 1
          BY <5>1 DEF Versions
        <5>3. q \in HeaderBlocks(flash, IdOf(VolumeName))
          BY <1>5, <5>2, OfVolumeBlocks
        <5>4. flash[q].vid.lnum * NumPages < Len(written)
          BY <1>3, <5>3 DEF VolumeWritten
        <5> QED
          BY <3>2, <4>1, <5>2, <5>4
      <4>2. CASE PageNo # NumPages
        BY <1>5, <3>2, <4>2
      <4> QED
        BY <4>1, <4>2
    <3>4. BootedImage'
      BY <3>1 DEF BootedImage
    <3>5. /\ \A l \in Nat : l * NumPages < Len(written)
                            => l \in Entries /\ maptable'[l] # 0
          /\ Len(image') <= Len(written)
          /\ \A k \in 1 .. Len(image') : image'[k] = written[k]
      BY <1>1, <1>5, <1>9, <2>2, <2>3
    <3> QED
      BY <1>1, <1>5, <1>9, <3>1, <3>3, <3>4, <3>5 DEF Part4KB
  <2> QED
    BY <2>4, <2>5
<1> QED
  BY <1>12, <1>13

LEMMA StepPart ==
  ASSUME RInv, Part4KB, AsWritten, VolumeIdNamed', [Next]_vars
  PROVE  Part4KB'
<1>0. TInv /\ VolumeRead /\ AheadInside
  BY DEF RInv
<1>1. SUFFICES ASSUME strap = "4KB", VolumesFit PROVE Part4KB'
  BY <1>0, FlashKept DEF Part4KB, VolumesFit, Fits, BlocksOf
<1>2. VolumeWritten(flash, VolumeName)
  BY <1>0, <1>1, WrittenHere
<1>3. ASSUME phase' \in {"layout", "returned"}, result' # "ok"
      PROVE  Part4KB'
  BY <1>3 DEF Part4KB, BootedImage
<1>4. phase # "returned" => result = "none"
  BY <1>0 DEF TInv, Running
<1>5. CASE phase # "returned" /\ VolumeFails
  BY <1>3, <1>4, <1>5 DEF VolumeFails
<1>6. CASE LayoutSkip \/ LayoutNoName \/ LayoutDamaged
  BY <1>3, <1>4, <1>6 DEF LayoutSkip, LayoutNoName, LayoutDamaged, Advance
<1>7. CASE LayoutFound
  <2>1. /\ phase' = "vid" /\ ubootblocks' = 0 /\ peb' = 1 /\ result' = "none"
        /\ ubootVol' = ubootVol /\ peb \in Pebs /\ IsLayout(peb)
        /\ Named(peb) # {} /\ RecordValid(peb)
        /\ ubootReservedBlocks' = RecordOf(peb).reserved_pebs
    BY <1>4, <1>7 DEF LayoutFound
  <2>2. VolumeName' = VolumeName
    BY <2>1 DEF VolumeName
  <2>3. peb \in HeaderBlocks(flash, LAYOUT_VOLUMEID)
    BY <1>1, <2>1 DEF IsLayout, HeaderEmpty, HeaderBlocks
  <2>4. Min(Named(peb)) \in Named(peb)
    <3>1. Named(peb) \subseteq Nat
      BY <1>0, <2>1, FlashFacts DEF Named, Searched, TInv
    <3> QED
      BY <2>1, <3>1, MinOfNats
  <2>5. Len(Content[VolumeName]) <= RecordOf(peb).reserved_pebs * NumPages
    <3>1. /\ Min(Named(peb)) \in DOMAIN flash[peb].table
          /\ RecordOf(peb).name = VolumeName
      BY <2>4 DEF Named, Searched, RecordOf
    <3> QED
      BY <1>2, <2>1, <2>3, <3>1 DEF VolumeWritten, RecordOf, RecordValid
  <2>6. Passed' = {}
    BY <2>1, NandAssumption DEF Passed, Pebs
  <2>7. Cardinality(Passed') = 0
    BY <2>6, FS_EmptySet
  <2>8. vol_id' = IdOf(VolumeName')
    BY <2>1 DEF VolumeIdNamed
  <2> QED
    BY <2>1, <2>2, <2>5, <2>7, <2>8 DEF Part4KB, BootedImage
<1>8. CASE VidSkip
  <2>1. /\ phase = "vid" /\ phase' = "vid" /\ peb \in Pebs /\ ~ OfVolume(peb)
        /\ peb' = peb + 1 /\ result' = "none"
        /\ UNCHANGED <<strap, flash, buffer2, vol_id, ubootVol, ubootblocks,
                       ubootReservedBlocks>>
    BY <1>4, <1>8 DEF VidSkip, Advance, board
  <2>2. VolumeName' = VolumeName
    BY <2>1 DEF VolumeName
  <2>3. Cardinality(Passed') = Cardinality(Passed)
    BY <2>1, OneMorePassed
  <2> QED
    BY <1>1, <2>1, <2>2, <2>3 DEF Part4KB, BootedImage
<1>9. CASE VidMap \/ VidMapBehind
  <2>a. phase = "vid" /\ peb \in Pebs /\ OfVolume(peb)
    BY <1>9 DEF VidMap, VidMapBehind, BlockFound
  <2>b. ScannedFits
    BY <1>1, <2>a, NamedFits DEF IdKept, VolumesFit, VolumeName, Part4KB
  <2>c. VidMap /\ flash[peb].vid.lnum \in Entries
    BY <1>0, <1>9, <2>a, <2>b, FitsInside DEF VidMapBehind
  <2>1. /\ phase = "vid" /\ phase' \in {"vid", "load"}
        /\ peb \in Pebs /\ OfVolume(peb) /\ HeaderValid(peb)
        /\ peb' = peb + 1 /\ result' = "none" /\ ubootblocks' = ubootblocks + 1
        /\ phase' = "load" => ubootblocks' >= ubootReservedBlocks /\ image' = <<>>
        /\ UNCHANGED <<strap, flash, buffer2, vol_id, ubootVol,
                       ubootReservedBlocks>>
        /\ maptable' = [maptable EXCEPT ![flash[peb].vid.lnum] = peb]
    BY <1>4, <2>c DEF VidMap, BlockFound, CountBlock, board, scan
  <2>2. VolumeName' = VolumeName
    BY <2>1 DEF VolumeName
  <2>3. /\ ubootblocks = Cardinality(Passed) /\ vol_id = IdOf(VolumeName)
        /\ Len(Content[VolumeName]) <= ubootReservedBlocks * NumPages
    BY <1>1, <2>1 DEF Part4KB
  <2>4. Cardinality(Passed') = ubootblocks'
    BY <2>1, <2>3, OneMorePassed
  <2>5. CASE phase' = "vid"
    BY <2>1, <2>2, <2>3, <2>4, <2>5 DEF Part4KB, BootedImage
  <2>6. CASE phase' = "load"
    <3>1. LatestMapped'
      BY <1>0, <2>b, <2>c, <2>1, FitsInside, ScanKeeps DEF VolumeRead
    <3>2. ASSUME NEW l \in Nat, l * NumPages < Len(Content[VolumeName])
          PROVE  l \in Entries /\ maptable'[l] # 0
      <4> DEFINE S == {p \in Pebs : p < peb' /\ OfVolume(p)}
      <4>1. \A p : OfVolume(p)' <=> OfVolume(p)
        BY <2>1 DEF OfVolume, HeaderOf, checkBadBlock, HeaderEmpty, checkErasedPage
      <4>2. Passed' = S
        BY <4>1 DEF Passed
      <4>3. peb' \in Nat /\ ubootReservedBlocks <= Cardinality(S)
        <5>1. ubootblocks' \in Nat /\ ubootReservedBlocks \in Nat /\ peb' \in Nat
          BY <1>0, <2>1, NandAssumption DEF TInv, TypeOK, Pebs
        <5> QED
          BY <2>1, <2>4, <2>6, <4>2, <5>1
      <4>4. PICK p \in S : flash[p].vid.lnum = l
        BY <1>0, <1>1, <1>2, <2>3, <3>2, <4>3, MapIsWhole
      <4>5. l \in Entries
        BY <1>0, <2>b, <4>4, FitsInside
      <4>6. p \in Versions(l)'
        BY <2>1, <4>1, <4>4 DEF Versions
      <4>7. p <= maptable'[l] /\ p \in Pebs
        BY <3>1, <4>5, <4>6 DEF LatestMapped, Versions
      <4>8. maptable'[l] # 0
        <5>1. ~ (p <= 0)
          BY <4>7, NandAssumption DEF Pebs
        <5> QED
          BY <4>7, <5>1
      <4> QED
        BY <4>5, <4>8
    <3>3. Leb' = 0 /\ Len(image') = 0
      BY <2>1, <2>6, NandAssumption DEF Leb
    <3>4. 0 < Len(Content[VolumeName])
      <4>1. peb \in HeaderBlocks(flash, IdOf(VolumeName))
        BY <1>1, <2>1, <2>3, OfVolumeBlocks
      <4>2. flash[peb].vid.lnum * NumPages < Len(Content[VolumeName])
        BY <1>2, <4>1 DEF VolumeWritten
      <4>3. flash[peb].vid.lnum \in Nat /\ NumPages \in Nat
        BY <1>0, <2>1, FlashFacts, NandAssumption DEF TInv
      <4>4. flash[peb].vid.lnum * NumPages \in Nat
        BY <4>3
      <4>5. Len(Content[VolumeName]) \in Nat
        BY <1>2 DEF VolumeWritten
      <4> QED
        BY <4>2, <4>4, <4>5
    <3>5. Leb' * NumPages < Len(Content[VolumeName])
      BY <3>3, <3>4, NandAssumption
    <3>6. /\ Len(image') <= Len(Content[VolumeName])
          /\ \A k \in 1 .. Len(image') : image'[k] = Content[VolumeName][k]
      BY <3>3, <3>4, <1>2 DEF VolumeWritten
    <3> QED
      BY <2>1, <2>2, <2>3, <2>6, <3>2, <3>5, <3>6 DEF Part4KB, BootedImage
  <2> QED
    BY <2>1, <2>5, <2>6
<1>10. CASE ReadLastPage \/ ReadPage
  BY <1>1, <1>10, ReadingPart
<1>11. CASE LayoutMissing \/ VidDamaged \/ VidEnd \/ ReadBadPage
  BY <1>5, <1>11 DEF LayoutMissing, VidDamaged, VidEnd, ReadBadPage
<1>12. CASE UNCHANGED vars
  <2>1. UNCHANGED <<strap, flash, buffer2, phase, ubootVol, peb, vol_id,
                    ubootReservedBlocks, maptable, ubootblocks, image, result>>
    BY <1>12 DEF vars, board
  <2>2. VolumeName' = VolumeName /\ Passed' = Passed /\ Leb' = Leb
    BY <2>1 DEF VolumeName, Passed, OfVolume, HeaderOf, checkBadBlock, HeaderEmpty,
                checkErasedPage, Leb
  <2>3. VolumesFit' <=> VolumesFit
    BY <2>1 DEF VolumesFit, Fits, BlocksOf
  <2> QED
    BY <2>1, <2>2, <2>3 DEF Part4KB, BootedImage
<1> QED
  BY <1>6, <1>7, <1>8, <1>9, <1>10, <1>11, <1>12 DEF Next

(* On 4KB parts what is jumped to is the whole image of the volume that    *)
(* was booted, in order, and nothing that was written behind it, whatever  *)
(* blocks are bad, headers or pages damaged, if the volumes have fewer     *)
(* LEBs than the map has entries and while the scan is for the ID of the   *)
(* volume booted.                                                          *)
THEOREM BootedTheorem ==
  ASSUME AsWritten
  PROVE  Spec /\ []VolumeIdNamed => [](strap = "4KB" => BootedImage)
<1>1. Init => RInv /\ Part4KB
  BY InitRInv, InitPart
<1>2. RInv /\ Part4KB /\ VolumeIdNamed' /\ [Next]_vars => (RInv /\ Part4KB)'
  BY StepRInv, StepPart, AsWritten
<1>3. Part4KB => (strap = "4KB" => BootedImage)
  BY DEF Part4KB, BootedImage
<1> QED
  BY <1>1, <1>2, <1>3, PTL DEF Spec

-----------------------------------------------------------------------------
(***************************************************************************)
(* VolumeIdNamed.  The counter is only right in the first block it counts  *)
(* in, so that a record behind the first one must be readable in every     *)
(* copy of the table.  The backup volume is supposed to be the second.     *)
(***************************************************************************)
BackupSecond ==
  /\ IdOf("BKUPuboot") = 1 /\ 1 <= UBI_MAX_VOLUMES
  /\ \A b \in Boards : \A p \in HeaderBlocks(b.flash, LAYOUT_VOLUMEID) :
       /\ 2 \in DOMAIN b.flash[p].table
       /\ b.flash[p].table[2].name = "BKUPuboot"
       /\ b.flash[p].table[2].crcOk /\ ~ b.flash[p].table[2].upd_marker

CountedFromZero ==
  /\ phase = "layout" => vol_id = 0
  /\ VolumeIdNamed

(* The backup's record is found, and right, wherever it is looked for.     *)
LEMMA NameSecond ==
  ASSUME OnBoard, PrimaryFirst, BackupSecond, ubootVol = 1, vol_id = 0,
         NEW p \in Pebs, IsLayout(p)
  PROVE  Named(p) # {} /\ Min(Named(p)) = 2 /\ RecordValid(p)
<1>1. p \in BlocksOf(LAYOUT_VOLUMEID)
  BY EmptyIsErased, VidFacts DEF IsLayout, BlocksOf
<1>2. /\ 2 \in DOMAIN flash[p].table /\ flash[p].table[2].name = "BKUPuboot"
      /\ flash[p].table[2].crcOk /\ ~ flash[p].table[2].upd_marker
  <2>1. PICK b \in Boards : flash = b.flash
    BY DEF OnBoard, board
  <2>2. p \in HeaderBlocks(b.flash, LAYOUT_VOLUMEID)
    BY <1>1, <2>1 DEF BlocksOf, HeaderBlocks
  <2> QED
    BY <2>1, <2>2 DEF BackupSecond
<1>3. flash[p].table[1].name = "uboot"
  BY <1>1, HereFirst
<1>4. VolumeName = "BKUPuboot"
  BY DEF VolumeName
<1>5. 2 \in Searched(p)
  BY <1>2, NandAssumption DEF Searched, BackupSecond
<1>6. 2 \in Named(p) /\ 1 \notin Named(p)
  BY <1>2, <1>3, <1>4, <1>5 DEF Named
<1>7. Named(p) \subseteq Nat \ {0}
  BY FlashFacts DEF Named, Searched
<1>8. Min(Named(p)) \in Named(p) /\ Min(Named(p)) <= 2
  BY <1>6, <1>7, MinOfNats
<1>9. Min(Named(p)) = 2
  BY <1>6, <1>7, <1>8
<1> QED
  BY <1>2, <1>6, <1>9 DEF RecordValid, RecordOf

LEMMA StepCounted ==
  ASSUME TInv, PrimaryFirst, BackupSecond, CountedFromZero, [Next]_vars
  PROVE  CountedFromZero'
<1>0. ubootVol \in {0, 1} /\ OnBoard
  BY DEF TInv, TypeOK
<1>1. ASSUME phase = "layout", peb \in Pebs, IsLayout(peb)
      PROVE  /\ Named(peb) # {}
             /\ ubootVol = 0 => Min(Named(peb)) = 1
             /\ ubootVol = 1 => Min(Named(peb)) = 2 /\ RecordValid(peb)
  <2>1. vol_id = 0
    BY <1>1 DEF CountedFromZero
  <2> QED
    BY <1>0, <1>1, <2>1, NameInFront, NameSecond
<1>2. CASE VolumeFails
  BY <1>2 DEF VolumeFails, CountedFromZero, VolumeIdNamed
<1>3. CASE LayoutSkip
  BY <1>3 DEF LayoutSkip, Advance, CountedFromZero, VolumeIdNamed
<1>4. CASE LayoutNoName
  BY <1>1, <1>4 DEF LayoutNoName
<1>5. CASE LayoutDamaged
  <2>1. ubootVol = 0 /\ vol_id' = 0 + 1 - 1 /\ phase' = "layout"
    BY <1>0, <1>1, <1>5 DEF LayoutDamaged, Advance, CountedFromZero
  <2> QED
    BY <2>1 DEF CountedFromZero, VolumeIdNamed
<1>6. CASE LayoutFound
  <2>1. vol_id' = IF ubootVol = 0 THEN 0 + 1 - 1 ELSE 0 + 2 - 1
    BY <1>0, <1>1, <1>6 DEF LayoutFound, CountedFromZero
  <2>2. phase' = "vid" /\ ubootVol' = ubootVol
    BY <1>6 DEF LayoutFound
  <2>3. VolumeName' = IF ubootVol = 0 THEN "uboot" ELSE "BKUPuboot"
    BY <2>2 DEF VolumeName
  <2>4. vol_id' = IdOf(VolumeName')
    BY <1>0, <2>1, <2>3 DEF PrimaryFirst, BackupSecond
  <2> QED
    BY <2>2, <2>4 DEF CountedFromZero, VolumeIdNamed
<1>7. CASE VidSkip
  BY <1>7 DEF VidSkip, Advance, CountedFromZero, VolumeIdNamed, VolumeName
<1>8. CASE VidMap \/ VidMapBehind
  BY <1>8 DEF VidMap, VidMapBehind, BlockFound, CountBlock, Derailed, scan,
              CountedFromZero, VolumeIdNamed, VolumeName
<1>9. CASE ReadLastPage \/ ReadPage
  <2>1. phase' \in {"load", "returned"}
    BY <1>9, ReadFacts
  <2> QED
    BY <2>1 DEF CountedFromZero, VolumeIdNamed
<1>10. CASE UNCHANGED vars
  BY <1>10 DEF vars, CountedFromZero, VolumeIdNamed, VolumeName
<1> QED
  BY <1>2, <1>3, <1>4, <1>5, <1>6, <1>7, <1>8, <1>9, <1>10
     DEF Next, LayoutMissing, VidDamaged, VidEnd, ReadBadPage

(* With the primary volume first in the table and the backup second, and   *)
(* its record readable in every copy, the ID that leaves the scan is that  *)
(* of the volume looked for.                                               *)
THEOREM IdTheorem ==
  ASSUME PrimaryFirst, BackupSecond
  PROVE  Spec => []VolumeIdNamed
<1>1. Init => TInv /\ CountedFromZero
  BY InitTyped DEF Init, CountedFromZero, VolumeIdNamed
<1>2. TInv /\ CountedFromZero /\ [Next]_vars => (TInv /\ CountedFromZero)'
  BY StepTyped, StepCounted, PrimaryFirst, BackupSecond
<1>3. CountedFromZero => VolumeIdNamed
  BY DEF CountedFromZero
<1> QED
  BY <1>1, <1>2, <1>3, PTL DEF Spec

=============================================================================
