----------------------------- MODULE MCNandBoot -----------------------------
(* Flash contents for NandBoot: blocks placed in every order, then damaged *)
EXTENDS NandBoot, TLC

\* Pages of the volumes: two LEBs for the primary, the second half full; one for the
\* backup, full.
Images == [uboot |-> <<"u0", "u1", "u2">>, BKUPuboot |-> <<"b0", "b1">>]

Contents == {"u0", "u1", "u2", "b0", "b1", "r", "table", "junk",
             Erased, Blank, Loader}

UbootFirst == <<"uboot", "BKUPuboot", "rootfs">>
UbootLast == <<"rootfs", "BKUPuboot", "uboot">>

Page(d) == [data |-> d, ecc |-> {}]
Empty == [i \in 1 .. NumPages |-> Page(Erased)]
Vid(v, l) == [erased |-> FALSE, magic |-> TRUE, crcOk |-> TRUE, ecc |-> {},
              vol_id |-> v, lnum |-> l]
Peb(vid, table, pages) ==
  [bad |-> FALSE, formatted |-> TRUE, vid |-> vid, table |-> table,
   pages |-> pages]

Pages(a, b) == <<Page(a), Page(b)>>

Reserved == [uboot |-> 2, BKUPuboot |-> 1, config |-> 1, rootfs |-> 4]
Table(names) ==
  [k \in DOMAIN names |->
     [name |-> names[k], reserved_pebs |-> Reserved[names[k]],
      crcOk |-> TRUE, upd_marker |-> FALSE]]

LayoutWith(names, l) ==
  Peb(Vid(LAYOUT_VOLUMEID, l), Table(names), Pages("table", Erased))
Layout(l) == LayoutWith(VolumeNames, l)
NoBackup(l) == LayoutWith(<<"uboot", "config", "rootfs">>, l)
Uboot0 == Peb(Vid(IdOf("uboot"), 0), <<>>, Pages("u0", "u1"))
Uboot1 == Peb(Vid(IdOf("uboot"), 1), <<>>, Pages("u2", Erased))
Backup == Peb(Vid(IdOf("BKUPuboot"), 0), <<>>, Pages("b0", "b1"))
Root == Peb(Vid(IdOf("rootfs"), 3), <<>>, Pages("r", "r"))
Free == [Peb(Vid(0, 0), <<>>, Empty) EXCEPT !.vid.erased = TRUE,
                                            !.formatted = FALSE]
Wiped == [Free EXCEPT !.formatted = TRUE]

\* The blocks in every order, in front of the rest of the partition.
Placed(blocks, rest) ==
  {[p \in Pebs |-> IF p \in DOMAIN blocks THEN blocks[o[p]]
                                         ELSE rest[p - Len(blocks)]] :
     o \in Permutations(DOMAIN blocks)}

Programmed ==
  Placed(<<Layout(0), Layout(1), Uboot0, Uboot1, Backup, Root>>, <<Free>>)

Parts(page, buf, flashes) ==
  {[strap |-> page, buffer2 |-> buf, flash |-> f] : f \in flashes}

\* One damage <<kind, where>> to a block; damaged data is not what was written.
Damages == {"none", "bad", "crc", "magic"} \X {0}
             \cup {"first", "middle", "last"} \X {0}
             \cup {"record", "marker"} \X DOMAIN VolumeNames
             \cup {"page"} \X (1 .. NumPages)

Damage(b, d) ==
  LET kind == d[1]
      k    == d[2]
  IN  CASE kind = "none" \/ b.vid.erased -> b
        [] kind = "bad"    -> [b EXCEPT !.bad = TRUE]
        [] kind = "crc"    -> [b EXCEPT !.vid.crcOk = FALSE]
        [] kind = "magic"  -> [b EXCEPT !.vid.magic = FALSE]
        [] kind \in Section -> [b EXCEPT !.vid.ecc = {kind}]
        [] kind = "page"   ->
             IF b.pages[k].data = Erased THEN b
             ELSE [b EXCEPT !.pages[k] = [data |-> "junk", ecc |-> {"first"}]]
        [] b.table = <<>>  -> b
        [] kind = "record" -> [b EXCEPT !.table[k].crcOk = FALSE]
        [] kind = "marker" -> [b EXCEPT !.table[k].upd_marker = TRUE]

WithDamage(fs, ds) ==
  {[f EXCEPT ![p] = Damage(f[p], d)] : f \in fs, p \in Pebs, d \in ds}

\* A 4KB part with one damage anywhere.
OneDamage == Parts("4KB", FALSE, WithDamage(Programmed, Damages))

\* A 2KB part without a backup volume; header and table damages come in pairs.
HeaderDamages == {d \in Damages : d[1] # "page"}
TwoDamages ==
  Parts("2KB", TRUE, WithDamage(WithDamage(
    Placed(<<NoBackup(0), Uboot0, Uboot1, Root>>,
           <<NoBackup(1), Wiped, Wiped>>),
    HeaderDamages), HeaderDamages))

\* A primary volume of three LEBs: as many as the map has entries, or one of them
\* behind it.
Three == [Layout(0) EXCEPT !.table[1].reserved_pebs = 3]
UbootLeb(l) == Peb(Vid(IdOf("uboot"), l), <<>>, Pages("u2", "r"))
Larger ==
  UNION {Parts(page, TRUE, Placed(<<Three, Uboot0, UbootLeb(1), UbootLeb(l)>>,
                                  <<Backup, Free, Free>>)) :
           page \in {"2KB", "4KB"}, l \in {MapSize - 1, MapSize}}

Damaged == OneDamage \cup TwoDamages \cup Larger

\* A block of the primary volume was being moved when the power was cut: the copy
\* is complete, and the block it was made of not erased yet.
Moved ==
  Parts("4KB", FALSE,
        Placed(<<Layout(0), Layout(1), Uboot0, Uboot0, Uboot1, Backup>>, <<Free>>))

\* A 2KB part with an unformatted block on it, nothing damaged.
Sound2KB == Parts("2KB", TRUE, Programmed)
=============================================================================
