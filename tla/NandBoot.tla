------------------------------ MODULE NandBoot ------------------------------
(***************************************************************************)
(* Booting from NAND: read_uboot() of devices/nand/dev_nand.c and the      *)
(* three passes it is made of, scanlayoutv(), scanvid(), readmapTable().   *)
(*                                                                         *)
(* The flash is a row of physical erase blocks (PEBs) in the UBI format of *)
(* fs/include/lib_fs_ubi.h: an EC header in page 0, a VID header in page 1 *)
(* and data from page 2 on.  A step is one PEB of a scan, or one page of   *)
(* the image.  The flash does not change while the loader runs; Boards is  *)
(* the set of boards, each with its flash, the loader may find itself on.  *)
(***************************************************************************)
EXTENDS Naturals, Sequences, FiniteSetsExt

CONSTANTS
  NumPebs,          \* PEBs between nand_ubipart_baseaddr and max_offset
  NumPages,         \* data pages of a PEB: num_pages_per_block - 2
  MapSize,          \* entries of maptable[] (20)
  Behind,           \* bound on the words behind it that are taken for entries
  Lnums,            \* LEB numbers that occur on the flash
  UBI_MAX_VOLUMES,  \* bound of the search for a volume name (128)
  LAYOUT_VOLUMEID,  \* the volume the volume table is kept in
  Data,             \* what a page may hold, among them
  Erased, Blank,    \* a page never programmed, one programmed with 0xFF
  Loader,           \* what lies at offset 0, in front of the UBI partition
  Boards,           \* records of the first three variables below
  VolumeNames,      \* name of every volume, by volume ID + 1
  Content           \* pages of the image written to each volume

ASSUME NandAssumption ==
  /\ NumPebs \in Nat \ {0} /\ NumPages \in Nat \ {0}
  /\ MapSize \in Nat \ {0} /\ Behind \in Nat
  /\ 0 \in Lnums /\ Lnums \subseteq Nat
  /\ UBI_MAX_VOLUMES \in Nat
  /\ {Erased, Blank, Loader} \subseteq Data
  /\ {"uboot", "BKUPuboot"} \subseteq DOMAIN Content

Pebs == 1 .. NumPebs
Entries == 0 .. MapSize - 1

(* Sections of a page whose ECC cannot be corrected; those between the     *)
(* first and the last are alike.                                           *)
Section == {"first", "middle", "last"}

(* What the loader makes of a VID header: whether its page was programmed, *)
(* magic and CRC, the sections with errors, and two of the fields.  sqnum, *)
(* copy_flag and data_crc are not looked at.                               *)
ubi_vid_hdr ==
  [erased : BOOLEAN, magic : BOOLEAN, crcOk : BOOLEAN, ecc : SUBSET Section,
   vol_id : Nat \cup {LAYOUT_VOLUMEID}, lnum : Lnums]

(* And of a record of the volume table, which has a name, too; its place   *)
(* is the volume ID.                                                       *)
ubi_vtbl_record(r) ==
  /\ r.reserved_pebs \in Nat \ {0}
  /\ {r.crcOk, r.upd_marker} \subseteq BOOLEAN

ASSUME BoardAssumption ==
  \A b \in Boards :
    LET f == b.flash
    IN  /\ b.strap \in {"2KB", "4KB"} /\ b.buffer2 \in BOOLEAN
        /\ DOMAIN f = Pebs
        /\ \A p \in Pebs :
            /\ {f[p].bad, f[p].formatted} \subseteq BOOLEAN
            /\ f[p].vid \in ubi_vid_hdr
            /\ DOMAIN f[p].table \subseteq Nat \ {0}
            /\ \A s \in DOMAIN f[p].table : ubi_vtbl_record(f[p].table[s])
            /\ DOMAIN f[p].pages = 1 .. NumPages
            /\ \A i \in 1 .. NumPages : f[p].pages[i].data \in Data

VARIABLES
  strap,        \* page size strapped at reset: "2KB" or "4KB"
  flash,        \* contents of the PEBs
  buffer2,      \* what the memory at DDR_BUFFER2_ADDR looks like
  phase,        \* the pass that runs: "layout", "vid", "load"; or "returned"
  ubootVol,     \* 0: primary volume, 1: backup volume
  peb,          \* PEB the scan looks at next
  vol_id,       \* counter of scanlayoutv, then its result
  ubootReservedBlocks,
  maptable,     \* its entries: LEB -> PEB; 0 is unmapped
  ubootblocks,  \* PEBs entered into maptable
  image,        \* pages read to UBOOT_TEXT_BASE
  result        \* what read_uboot returned: "none", "ok" (0), "failed" (-1)

board == <<strap, flash, buffer2>>
scan == <<vol_id, ubootReservedBlocks>>
vars == <<board, phase, ubootVol, peb, vol_id, ubootReservedBlocks,
          maptable, ubootblocks, image, result>>

NoMap == [l \in Entries |-> 0]

TypeOK ==
  /\ strap \in {"2KB", "4KB"}
  /\ buffer2 \in BOOLEAN
  /\ phase \in {"layout", "vid", "load", "returned"}
  /\ ubootVol \in {0, 1}
  /\ peb \in 1 .. NumPebs + 1
  /\ vol_id \in Nat
  /\ ubootReservedBlocks \in Nat
  /\ maptable \in [Entries -> 0 .. NumPebs]
  /\ ubootblocks \in 0 .. NumPebs
  /\ image \in Seq(Data)
  /\ result \in {"none", "ok", "failed"}

Init ==
  /\ \E b \in Boards : /\ strap = b.strap
                        /\ flash = b.flash
                        /\ buffer2 = b.buffer2
  /\ phase = "layout"
  /\ ubootVol = 0
  /\ peb = 1
  /\ vol_id = 0
  /\ ubootReservedBlocks = 0
  /\ maptable = NoMap
  /\ ubootblocks = 0
  /\ image = <<>>
  /\ result = "none"

-----------------------------------------------------------------------------
(* The first byte of the OOB area of page 1 of the block.                  *)
checkBadBlock(p) == flash[p].bad

(* checkErasedPage (2KB parts): all 0xFF in the OOB area, or too few zero  *)
(* bits in the ECC bytes of the sections.  The code takes those bytes from *)
(* DDR_BUFFER2_ADDR, which nothing in the tree writes: whether they look   *)
(* like those of a programmed page is settled before the loader runs.      *)
checkErasedPage(oobErased) == oobErased \/ ~ buffer2

(* Is the header page skipped as empty?  4KB parts look at its data.       *)
HeaderEmpty(p) ==
  IF strap = "2KB" THEN checkErasedPage(flash[p].vid.erased)
                   ELSE flash[p].vid.erased

(* 4KB parts skip a layout block whose table page is empty, too.           *)
TableEmpty(p) ==
  strap = "4KB" /\ flash[p].pages[1].data \in {Erased, Blank}

VolumeName == IF ubootVol = 0 THEN "uboot" ELSE "BKUPuboot"

(* Slip: the scan for the backup goes on where the one for the primary     *)
(* stopped.                                                                *)
VolumeFailsInPlace ==
  /\ ubootVol' = 1
  /\ phase' = IF ubootVol = 0 THEN "layout" ELSE "returned"
  /\ result' = IF ubootVol = 0 THEN result ELSE "failed"
  /\ vol_id' = 0
  /\ UNCHANGED <<board, peb, ubootReservedBlocks, maptable,
                 ubootblocks, image>>

(* The next volume is tried, or read_uboot gives up.                       *)
VolumeFails ==
  /\ IF ubootVol = 0
     THEN /\ ubootVol' = 1
          /\ phase' = "layout"
          /\ result' = result
     ELSE /\ ubootVol' = ubootVol
          /\ phase' = "returned"
          /\ result' = "failed"
  /\ peb' = 1
  /\ vol_id' = 0
  /\ UNCHANGED <<board, ubootReservedBlocks, maptable, ubootblocks,
                 image>>

Advance ==
  /\ peb' = peb + 1
  /\ UNCHANGED <<board, phase, ubootVol, ubootReservedBlocks, image,
                 result>>

-----------------------------------------------------------------------------
(* scanlayoutv: the volume table is searched for the name of the volume;   *)
(* the index of its record is the volume ID.  vol_id runs on from block to *)
(* block, and a page with ECC errors is used like any other: errs is       *)
(* unsigned there and never negative.                                      *)
IsLayout(p) ==
  /\ ~ checkBadBlock(p)
  /\ ~ HeaderEmpty(p)
  /\ flash[p].vid.vol_id = LAYOUT_VOLUMEID
  /\ ~ TableEmpty(p)

(* Records volname_compare is called on; the first is compared always.     *)
Searched(p) ==
  {s \in DOMAIN flash[p].table : s = 1 \/ vol_id + s - 1 <= UBI_MAX_VOLUMES}
Named(p) == {s \in Searched(p) : flash[p].table[s].name = VolumeName}

RecordOf(p) == flash[p].table[Min(Named(p))]
RecordValid(p) == RecordOf(p).crcOk /\ ~ RecordOf(p).upd_marker

LayoutSkip ==
  /\ phase = "layout" /\ peb \in Pebs
  /\ ~ IsLayout(peb)
  /\ Advance
  /\ UNCHANGED <<vol_id, maptable, ubootblocks>>

LayoutNoName ==
  /\ phase = "layout" /\ peb \in Pebs
  /\ IsLayout(peb)
  /\ Named(peb) = {}
  /\ vol_id' = Max({vol_id, UBI_MAX_VOLUMES}) + 1
  /\ Advance
  /\ UNCHANGED <<maptable, ubootblocks>>

(* Slip: a damaged record fails the volume, the other copy is not read.    *)
LayoutDamagedFails ==
  /\ phase = "layout" /\ peb \in Pebs
  /\ IsLayout(peb)
  /\ Named(peb) # {} /\ ~ RecordValid(peb)
  /\ VolumeFails

(* A record with a CRC error, or one whose update was interrupted.         *)
LayoutDamaged ==
  /\ phase = "layout" /\ peb \in Pebs
  /\ IsLayout(peb)
  /\ Named(peb) # {} /\ ~ RecordValid(peb)
  /\ vol_id' = vol_id + Min(Named(peb)) - 1
  /\ Advance
  /\ UNCHANGED <<maptable, ubootblocks>>

(* Slip: the map is not cleared.                                           *)
LayoutFoundKeepsMap ==
  /\ phase = "layout" /\ peb \in Pebs
  /\ IsLayout(peb)
  /\ Named(peb) # {} /\ RecordValid(peb)
  /\ vol_id' = vol_id + Min(Named(peb)) - 1
  /\ ubootReservedBlocks' = RecordOf(peb).reserved_pebs
  /\ phase' = "vid"
  /\ peb' = 1
  /\ ubootblocks' = 0
  /\ UNCHANGED <<board, ubootVol, maptable, image, result>>

(* The volume is found; scanvid starts with an empty map.                  *)
LayoutFound ==
  /\ phase = "layout" /\ peb \in Pebs
  /\ IsLayout(peb)
  /\ Named(peb) # {} /\ RecordValid(peb)
  /\ vol_id' = vol_id + Min(Named(peb)) - 1
  /\ ubootReservedBlocks' = RecordOf(peb).reserved_pebs
  /\ phase' = "vid"
  /\ peb' = 1
  /\ maptable' = NoMap
  /\ ubootblocks' = 0
  /\ UNCHANGED <<board, ubootVol, image, result>>

LayoutMissing ==
  /\ phase = "layout" /\ peb = NumPebs + 1
  /\ VolumeFails

-----------------------------------------------------------------------------
(* scanvid: the PEBs of the volume are entered into the map.  Only an      *)
(* error in the first section skips a header; of the others the result of  *)
(* the last one counts.                                                    *)
HeaderOf(p) ==
  /\ ~ checkBadBlock(p)
  /\ ~ HeaderEmpty(p)
  /\ "first" \notin flash[p].vid.ecc
  /\ flash[p].vid.magic

(* Slip: the volume ID is not compared.                                    *)
OfVolumeAny(p) == HeaderOf(p) /\ flash[p].vid.vol_id # LAYOUT_VOLUMEID

OfVolume(p) == HeaderOf(p) /\ flash[p].vid.vol_id = vol_id
HeaderValid(p) == flash[p].vid.crcOk /\ "last" \notin flash[p].vid.ecc

VidSkip ==
  /\ phase = "vid" /\ peb \in Pebs
  /\ ~ OfVolume(peb)
  /\ Advance
  /\ UNCHANGED <<vol_id, maptable, ubootblocks>>

BlockFound ==
  /\ phase = "vid" /\ peb \in Pebs
  /\ OfVolume(peb) /\ HeaderValid(peb)
  /\ peb' = peb + 1
  /\ UNCHANGED <<board, scan>>

CountBlock ==
  /\ ubootblocks' = ubootblocks + 1
  /\ phase' = IF ubootblocks' >= ubootReservedBlocks THEN "load" ELSE phase
  /\ image' = IF phase' = "load" THEN <<>> ELSE image
  /\ UNCHANGED <<ubootVol, result>>

VidMap ==
  /\ BlockFound
  /\ flash[peb].vid.lnum \in Entries
  /\ maptable' = [maptable EXCEPT ![flash[peb].vid.lnum] = peb]
  /\ CountBlock

(* What may become of a loader one of whose variables was overwritten: it  *)
(* hangs, gives up or boots, whatever it has read by then; an image of one *)
(* page stands for all those that are not the volume's.                    *)
Derailed ==
  /\ phase' = "returned"
  /\ ubootVol' \in {0, 1}
  /\ result' \in {"none", "ok", "failed"}
  /\ image' \in {<<>>} \cup {<<d>> : d \in Data}
  /\ UNCHANGED ubootblocks

(* lnum is not compared with the size of the map: behind it the store      *)
(* changes another variable, which one the linker has decided.  That may   *)
(* do no harm, or any.                                                     *)
VidMapBehind ==
  /\ BlockFound
  /\ flash[peb].vid.lnum \notin Entries
  /\ CountBlock \/ Derailed
  /\ UNCHANGED maptable

VidDamaged ==
  /\ phase = "vid" /\ peb \in Pebs
  /\ OfVolume(peb) /\ ~ HeaderValid(peb)
  /\ VolumeFails

(* "Could not Find Uboot Blocks": a volume reserves at least one block, so *)
(* the scan ends with too few.                                             *)
VidEnd ==
  /\ phase = "vid" /\ peb = NumPebs + 1
  /\ ubootblocks < ubootReservedBlocks
  /\ VolumeFails

-----------------------------------------------------------------------------
(* readmapTable: the pages of the mapped PEBs are read one after another.  *)
Leb == Len(image) \div NumPages
PageNo == (Len(image) % NumPages) + 1

PageAt(p, i) ==
  IF p = 0 THEN [data |-> Loader, ecc |-> {}] ELSE flash[p].pages[i]

(* The page read next.  A word behind the map is some other variable, and  *)
(* what is found where it points to may be any page, sound or not.         *)
NextPages ==
  IF Leb \in Entries THEN {PageAt(maptable[Leb], PageNo)}
                     ELSE [data : Data, ecc : {{}, Section}]

(* Slip: the loop goes through the whole table.                            *)
FollowsAll(l) == {l \in Entries}

(* "while (maptable[index] != 0)", behind the map as well: there the word  *)
(* may be 0 or not, up to the bound.                                       *)
Follows(l) ==
  CASE l \in Entries                      -> {maptable[l] # 0}
    [] l \in MapSize .. MapSize + Behind - 1 -> BOOLEAN
    [] OTHER                              -> {FALSE}

(* On 2KB parts the OOB area of the page after the one read is looked at,  *)
(* which behind the last PEB may be anything.                              *)
OobErased(p, i) ==
  CASE p = 0        -> {FALSE}
    [] p # 0 /\ i < NumPages -> {flash[p].pages[i + 1].data = Erased}
    [] p \in 1 .. NumPebs - 1 /\ i = NumPages -> {~ flash[p + 1].formatted}
    [] OTHER        -> BOOLEAN

(* Is this the end of U-Boot?  On 4KB parts the page itself is empty.      *)
EndSeen(page) ==
  IF strap = "4KB" THEN {page.data \in {Erased, Blank}}
  ELSE {checkErasedPage(e) :
          e \in IF Leb \in Entries THEN OobErased(maptable[Leb], PageNo)
                                    ELSE BOOLEAN}

Return ==
  /\ phase' = "returned"
  /\ result' = "ok"

Loading(page) ==
  /\ phase = "load"
  /\ image' = Append(image, page.data)
  /\ UNCHANGED <<board, ubootVol, peb, scan, maptable, ubootblocks>>

ReadLastPage ==
  \E page \in NextPages :
    /\ Loading(page)
    /\ TRUE \in EndSeen(page)
    /\ Return

ReadPage ==
  \E page \in NextPages, on \in Follows(Leb + 1) :
    /\ Loading(page)
    /\ FALSE \in EndSeen(page)
    /\ page.ecc = {}
    /\ IF PageNo = NumPages /\ ~ on THEN Return
                                   ELSE UNCHANGED <<phase, result>>

ReadBadPage ==
  /\ phase = "load"
  /\ \E page \in NextPages : FALSE \in EndSeen(page) /\ page.ecc # {}
  /\ VolumeFails

Next ==
  \/ LayoutSkip \/ LayoutNoName \/ LayoutDamaged \/ LayoutFound
  \/ LayoutMissing
  \/ VidSkip \/ VidMap \/ VidMapBehind \/ VidDamaged \/ VidEnd
  \/ ReadLastPage \/ ReadPage \/ ReadBadPage

Spec == Init /\ [][Next]_vars

(* Nothing preempts the loader, so it keeps stepping.                      *)
FairSpec == Spec /\ WF_vars(Next)

-----------------------------------------------------------------------------
(***************************************************************************)
(* Properties.                                                             *)
(***************************************************************************)

BlocksOf(id) == {p \in Pebs : ~ flash[p].vid.erased
                                /\ flash[p].vid.vol_id = id}

IdOf(name) == (CHOOSE k \in DOMAIN VolumeNames : VolumeNames[k] = name) - 1

(* Fewer LEBs than the map has entries.  One less, as the loop that reads  *)
(* them ends at an entry that is 0: behind a full map it looks at the word *)
(* after it.  The code does not see to that: it is a matter of the flash.  *)
Fits(name) ==
  \A p \in BlocksOf(IdOf(name)) : flash[p].vid.lnum + 1 \in Entries

VolumesFit == Fits("uboot") /\ Fits("BKUPuboot")

(* What is jumped to is the image of one volume, all of it, in order, if   *)
(* the map is large enough: pages of a volume that failed half way do not  *)
(* survive in the image of the other, no LEB is missing, doubled or        *)
(* another volume's; what is read behind the image was never programmed.   *)
BootedImage ==
  LET written == Content[VolumeName]
  IN  VolumesFit /\ result = "ok" =>
        /\ Len(written) <= Len(image)
        /\ \A k \in DOMAIN image :
             image[k] = IF k <= Len(written) THEN written[k] ELSE Erased

(* The map is that of the newest scan and of no scan before: each entry is *)
(* the block with that LEB number that was scanned last, with a sound      *)
(* header and of this volume, though the map of the primary volume was     *)
(* there when the backup was tried; and what was read through the map are  *)
(* the pages of those blocks, in order, and no page of a volume given up.  *)
(* After a store behind the map nothing of that is claimed.                *)
Versions(l) ==
  {p \in Pebs : p < peb /\ OfVolume(p) /\ flash[p].vid.lnum = l}

LatestMapped ==
  \A l \in Entries :
    /\ maptable[l] # 0 => maptable[l] \in Versions(l)
    /\ \A p \in Versions(l) : p <= maptable[l] /\ HeaderValid(p)

ReadInOrder ==
  \A k \in 1 .. Len(image) :
    (k - 1) \div NumPages \in Entries =>
      image[k] = PageAt(maptable[(k - 1) \div NumPages],
                        ((k - 1) % NumPages) + 1).data

StoresInside ==
  \A p \in Pebs : p < peb /\ OfVolume(p) => flash[p].vid.lnum \in Entries

VolumeRead ==
  StoresInside =>
    /\ phase \in {"vid", "load"} \/ result = "ok" => LatestMapped
    /\ phase = "load" \/ result = "ok" => ReadInOrder

(* The backup is for errors only: while the blocks of the primary volume   *)
(* and one copy of the volume table are sound, and the volume fits the     *)
(* map, read_uboot never gives the primary up, wherever wear-levelling has *)
(* put its blocks.                                                         *)
Sound(p) ==
  /\ ~ flash[p].bad
  /\ flash[p].vid.magic /\ flash[p].vid.crcOk /\ flash[p].vid.ecc = {}
  /\ \A s \in DOMAIN flash[p].table :
       flash[p].table[s].crcOk /\ ~ flash[p].table[s].upd_marker
  /\ \A i \in 1 .. NumPages : flash[p].pages[i].ecc = {}

PrimaryPreferred ==
  Fits("uboot") /\ ubootVol = 1 =>
    \/ \E p \in BlocksOf(IdOf("uboot")) : ~ Sound(p)
    \/ \A p \in BlocksOf(LAYOUT_VOLUMEID) : ~ Sound(p)

(* "Switch to uboot backup volume for an error returned by any of the      *)
(* steps above" (read_uboot): whatever is lost of one block, at the end a  *)
(* volume is booted, if there is a backup and both fit the map.            *)
SomeVolumeBoots ==
  /\ Cardinality({p \in Pebs : ~ Sound(p)}) <= 1
  /\ BlocksOf(IdOf("BKUPuboot")) # {}
  /\ VolumesFit
  => <>(result = "ok")

(* maptable[vidhdr->lnum] is not checked against the 20 entries of the     *)
(* table.  For volumes that fit nothing outside is written or read: every  *)
(* LEB number about to be used as an index is inside, and so is the entry  *)
(* readmapTable looks at next, behind the block it is reading.             *)
MapInBounds ==
  VolumesFit =>
    /\ phase = "vid" /\ peb \in Pebs /\ OfVolume(peb) /\ HeaderValid(peb)
         => flash[peb].vid.lnum \in Entries
    /\ phase = "load" => Leb + 1 \in Entries

(* "corrupted page. check for back-up layout volume" (scanlayoutv): the    *)
(* volume ID that leaves the scan is the one the volume's record stands    *)
(* for, whichever copy of the table it was read from.                      *)
VolumeIdNamed == phase = "vid" => vol_id = IdOf(VolumeName)

(* "Return on reading all blocks" (scanvid): when the scan hands over to   *)
(* readmapTable, every LEB of the volume that is on the flash is in the    *)
(* map, even if a power cut left two versions of one of them.              *)
AllBlocksMapped ==
  phase = "load" /\ image = <<>> =>
    \A p \in BlocksOf(vol_id) :
      flash[p].vid.lnum \in Entries /\ maptable[flash[p].vid.lnum] # 0

(* "Reached End of Uboot. Hence, return" (readmapTable): when the function *)
(* returns to boot, the last page of the image has been read.              *)
EndReached ==
  [][phase = "load" /\ result' = "ok"
       => Len(image') >= Len(Content[VolumeName])]_vars

=============================================================================
