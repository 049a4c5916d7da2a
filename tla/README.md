# A model of the jacky-iboot loader

jacky-iboot is the second-stage loader of the Ikanos Vx185/Vx183 boards
(MIPS32). It runs on one processor, with interrupts masked and no operating
system: it detects the chip, programs the PLLs, finds the memory, fetches
U-Boot, over the serial line (`UARTBOOT_CODE`) or from NAND, and jumps to it.
This directory holds TLA+ modules for the parts that carry its logic, TLC runs
on small instances, and proofs for the parts that need to hold for every size.

## The system: components, state, operations

| Component | Source | State | Operations | Talks to |
|---|---|---|---|---|
| Serial download | `loader/xmodem.c`, `boot/soc_landshark/uart_ram.c` | state machine, packet buffer, running sum, expected number, write index | `xmodem_load`, `c_get_char_timout`, `c_put_char` | terminal at the other end; COUNT register; memory |
| NAND boot | `devices/nand/dev_nand.c`, `fs/include/lib_fs_ubi.h` | `maptable[20]`, `ubootReservedBlocks`, scan position, image | `read_uboot`, `scanlayoutv`, `scanvid`, `readmapTable`, `checkErasedPage` | flash, memory, `crcFast`, an ECC routine in ROM |
| Boot sequence | `loader/fboot.c`, `soc_ram.c`, `uart_ram.c` | `gChipType`, `gSysClock`, UART registers | `main`, `detect_SoC`, `c_uart_init` | all others, by call |
| Reset vector | `arch/mips32/start.S`, `debug.S`, `uart_boot.h` | coprocessor 0, cache tags, registers | `boot_reset`, `a_put_hex`, clearing of the tags | UART; `main` |
| Clock set-up | `pll_ram.c`, `pll_rom.S` | registers of the system controller | `init_plls` (three forms), `init_pll` | PLLs; `c_uart_init` |
| Memory set-up | `boot/soc_landshark/dram_ram.c`, `reg_ddr.h`, `dram_rom.S` | registers of the DDR controller and the PHY | `ddr_system_reset`, `ddr_phy_init`, `ddr_ctl_init`, `ddr_scl_run`; `init_ddr_hw` | system controller, chips |
| Memory detection and tests | `boot/soc_landshark/dram_ram.c` | tried configuration, position in the test | `c_auto_ddr`, `ram_verify_bitflip`, `ram_verify_complex`, `ram_pattern_verify`, `ram_random_verify` | memory set-up, cache, memory |
| Caches | `mips32_cache.c`, `mips32_cache.S` | cache lines | range and index operations | memory test, loaded image |
| Timer | `timer_ram.c` | COUNT | `mdelay` | used by memory set-up |
| Other ROM variants | `soc_rom.S`, `uart_rom.S`, `timer_rom.S`, `gpio_rom.S` | registers | the same set-up before there is memory | |
| Traps, interrupts | `mips32_interrupts.c`, `mips32_traps.c` | CP0 registers | disabled | |
| NOR flash | `devices/nor/dev_nor_amd.c` | AMD command state | probe, erase, burn; disabled | |
| CRC | `lib/crc32.c`, `lib/crc32_old.c` | tables | `crcInit`, `crcFast`, `crcSlow`, `crc32_le`, `crc32_be` | NAND boot |
| Boot header tool | `tools/src/bh/bhdr.c` | options, header, running CRC, output stream | parses its command line, takes length and CRCs, writes header and program | files on the host; the boot ROM reads its output |
| Board code | `loader/board.c`, `bootm.c`, `bootm_qemu_mips.c` | | disabled or outside the build | |

Nothing runs concurrently inside the loader. What is hard is at its edges: a
line that loses and changes characters, a sender with its own clock, flash
blocks in any order with any one of them damaged, memory with a fault, and the
state that one step of `main` silently leaves for a later one. `PROJECT.json`
lists the hazards, each at its line, with the properties that watch it or the
reason why none does.

What makes the components correct:

* Serial download: memory is always a prefix of the file; a block the sender
  counts as delivered is in memory; a NAK leaves only in a pause; once the line
  behaves the download ends.
* NAND boot: success means that the image of one volume is in memory, whole and
  in order; damage to one block never prevents booting; the backup is used for
  errors only; volumes with fewer blocks than the map has entries stay inside it.
* Reset vector: nothing a reset leaves undefined causes an exception; `main` is
  entered, with a stack, a running COUNT and clean caches.
* Clock set-up: a PLL is set up, calibrated, locked and then left alone; every wait
  ends; all routines leave the same clocks; no unit runs without a clock.
* Boot sequence: the console stays readable through the change of clocks, and
  after a power-on a second of the receiver is a second wherever the code tells
  what the processor runs at.
* Boot header tool and CRC: an output reported done is one whose lengths and
  CRCs the target accepts; no option is dropped; host and target compute the
  same CRC, and it notices damage.
* Memory set-up: the controller was told of the chips what the test then sweeps,
  with the words it still holds; the result that is believed is the result of
  the configuration that is tried; nothing of the test outlives it in the cache.
* Memory detection: memory reported good is sound where it was tested; sound
  memory is found.

## Modules

**`Xmodem`** is `xmodem_load` with the read beneath it. As nothing interrupts
the loader, a step is one read and all the code does with its result up to the
next read. `state` says where the read is made; `rx_buf`, whose length is the
loop variable `i`, `crc`, `expected_blk_num` are the code's; `pmem` is the
memory, by blocks, so that `mem_index` is `DataLen * Len(pmem)`; `put` is the
character written in the step. `SendNak` is left without a read and so is no
state of its own. `c_get_char_timout` compares COUNT with the deadline before it
looks at the UART, which makes the read with deadline 0 (`ClearPending`) return
nothing; the module keeps that. A read that times out inside a packet sets
`SendNak`, but the check after the loop compares the sum with -1, fails, and sets
`Purge`: `RejectPacket` says so.

**`XmodemLink`** adds the sender and the two directions of the line, both
outside the repository and modelled as the comments of `xmodem.c` presume them.
One damage changes or loses one character of one transmission, or an answer:
more would ask an 8-bit sum for what it cannot do (two changed bytes may cancel).
`Receive` is `Xmodem!Read` with what the line offers. The read may time out when
the line is silent, with a prompt sender only if no answer waits for it.

**`XmodemFrames`** is the same exchange packet by packet, with unbounded loss
and garbling, and **`BlockTransfer`** is the promise: blocks appear in order,
each once, and the end comes only with the whole file. `XmodemLink` implements
`XmodemFrames` with the mapping `FrameInFlight`, and `XmodemFrames` implements
`BlockTransfer`; both are checked and proved.

**`NandBoot`** is `read_uboot` of the NAND build. The flash is a row of physical
erase blocks in UBI format and never changes; `Boards` is the set of page sizes and
flashes to start with. A step is one block of a scan or one page of the image. `vol_id`,
`ubootReservedBlocks`, `maptable`, `ubootblocks` are the code's, `peb` is the
offset of the scan, `image` what was read to `UBOOT_TEXT_BASE`. `vol_id` runs on
from one layout block to the next, the ECC result of the table page is never
looked at (`errs` is unsigned there), of the later sections of a VID header only
the last result counts, and on 2KB parts the end of the image is looked for in
the page after the one that was read: all of this is the code's. `checkErasedPage`
takes ECC bytes from `DDR_BUFFER2_ADDR`, which nothing in the tree writes;
`buffer2` says whether that memory looks like a programmed page. The CRC is abstracted to its
verdict, and the controller's registers to the page they deliver.

`maptable` has `MapSize` entries and no more. `scanvid` stores to it with whatever
LEB number a header has (`dev_nand.c:575`): behind the map that is `VidMapBehind`, a
store to a variable only the linker knows, after which the loader goes on unharmed
or does anything (`Derailed`). `readmapTable` looks at the entry after each
block it has read (`dev_nand.c:679`), and after the last entry at the word
behind: `Follows` lets that word be 0 or not, `NextPages` lets the pages it leads
to be any. So nothing outside the map is taken to be harmless, and what the
properties say is said of volumes with fewer blocks than the map has entries
(`VolumesFit`), as the code does not look; `VolumeRead` needs only that no store has
gone outside (`StoresInside`).

**`BootMain`** is `main`. A step is one call. The state is what the calls leave
for each other: the frequencies of bus and COUNT, the divisor in the UART, and
`gChipType` and `gSysClock`, which start with whatever memory held, as nothing
clears `.bss`. Frequencies are multiples of 12.5 MHz. What the processor of the
7175 and 7185HP runs at under the serial loader cannot be derived from the code
(they are switched to a PLL it does not program), so any rate up to 600 MHz is.

**`Start`** is `boot_reset`, from the reset vector to the jump to `main`, with the
messages and numbers it prints. A step is a group of stores to coprocessor 0, a
message, a digit of a number, or the tags of a cache. `cp0` holds the flags that decide about
exceptions; a reset leaves some of them undefined (`Undefined`). The loops that
clear the tags are taken from their three codes in `Config1`: `AllCleared` asks
whether the addresses they pass reach every set of every way.

**`Plls`** is `init_plls`, its two older forms and `init_pll`, register access by
register access. A routine is a sequence of stores, modifications, polls and
calls; `todo` is what is left of it, and a step does the first of them. `regs`
is the system controller, a register the set of its one bits; a control register
with a mask keeps the bits whose mask bit is set, which is what every use of the
masks in the tree relies on. `status` is what the PLLs report. They are
hardware: a PLL calibrates when it has power and is told to, and locks when it
is calibrated and its lock detector is up. A soft reset finds registers and PLLs
as the loader left them. `Program` and `Outcome` are functions over tuples of routine, chip and straps:
the accesses a routine makes, and what they leave when no wait is in
their way; the form `init_plls_parts` is compared by it alone, as it cannot be
run: it waits for a lock in the status of a PLL that has no power yet.

**`DramDetect`** is `c_auto_ddr` with the pattern test, against memory that has
at most one fault. A step is one write or read, and reset, set-up and
calibration are a step each. The loops over chip size, chip width and bus width
are the sequence `Configs`; in this build they are cut down to one
configuration, and the runs try three, as the loops were written to.

**`Caches`** is the memory test through the data cache, as two builds have it: a
few lines, which tested addresses compete for, written back or written through.
`main` loads the image past the cache and jumps to it through the cache. The
invalidation in front of it leaves the lines of `Beyond`, in their order.

**`DramSetUp`** composes these: each configuration is reset, programmed and
calibrated by the sequence of its register accesses (`Prepare`, `Calibration`),
with the words put together from their fields as `reg_ddr.h` does. The PHY and
the calibration are hardware that answers some time later (`DdrHardware`);
`init_ddr_hw` is the same set-up in assembly. `ImplementsSearch` shows that it
implements `DramDetect` where nothing is cached, which is proved too.

**`DramTests`** has both memory tests as functions of the wiring of a memory
with all its lines, in every access width: what is stuck, shorted or not
connected decides whether they pass.

**`Fboot`** composes `Start`, `BootMain`, `Plls` and `DramSetUp`: the steps
`boot_reset`, `init_plls` and `c_auto_ddr` of `BootMain` become the steps of the
others, and what `BootMain` says of the bus is tied to the lock of the gateway
PLL. `Board` holds what all of them read and never change.

**`Crc`** holds the CRC routines as functions of a message: `crcSlow`, `crcFast`
and its table, `crc32_le`, and the byte update of `bhdr.c`. An integer is the set
of its one bits, so an XOR is a symmetric difference, a shift moves members, and
width and polynomial are parameters; the run has the real ones. The body of a
loop over a message is a function (`SlowStep`, `FastStep`, `update_crc32`,
`WordStep`), and `Through` is the loop. `crc32_le` is
the little-endian variant, `crc32_be` the other one, both modelled as compiled on a
little-endian host with the byte swaps explicit, in their four table sizes, and
`unit_test` is the test of the file, which no Makefile builds.

**`BootHeader`** is the host tool `bh`, `main` of `bhdr.c`. `pc` is the call that
comes next; a step is one option, one call, or one `fwrite`. `hdr` holds the
fields of the header, `stream` what has been written with `fwrite`, `output` the
file, which gets what is in the stream when it is closed, or part of it when the
disk does not take more. Every `fopen` and `fwrite` may fail. A program that is
the output too is emptied when the output is opened. What is printed of the
output is read back from it (`Value`, byte by byte with `ByteValue`). The module
assumes bytes of eight bits, programs of less than 16 MB, so that a length in
words or bytes fits the three or four bytes it gets, and that the first byte
tells the two kinds of header apart (`KindsDiffer`).

The `MC*` modules hold the constants of the runs; `*Proofs` and `BlockNumbers`
hold proofs. Definitions whose comment begins with "Slip" are plausible mistakes
used to test the properties: with one of them in place of the definition after
it, the property it is paired with in `PROJECT.json` fails.

## Runs

| Run | Question and result | Bounds |
|---|---|---|
| `link_faults` | A download with up to four damages and lost answers: NAKs in pauses, nothing forgotten, the packet-level protocol implemented, the end reached. Holds. | three blocks of two bytes whose values include SOH and EOT; noise waits in the UART at the start |
| `link_slow` | All damage, answers changed too, and a sender later than the deadline: memory stays a prefix and is only extended, the number of the next block stays that of memory, an ACK names the last block stored. Holds. | nine blocks of one byte, numbers of three bits, so that they wrap and block 4 is numbered EOT; two damages; three unread answers |
| `frames` | The packet-level protocol: inductive invariant, acknowledged blocks are stored, implements `BlockTransfer`. Holds. | twelve blocks, two block numbers, unbounded loss |
| `nand_faults` | 4KB parts: every order of two layout blocks, two primary, one full backup, one foreign block, and one damage of every kind anywhere. 2KB parts: every order of four blocks without a backup volume, and two damages. Both: every order of a primary volume of three blocks that fills the map, or whose last LEB number is behind it. Of volumes with fewer blocks than entries: what is booted is a whole image; the backup is for errors only; no store and no look-ahead leaves the map; one damage never prevents booting if there is a backup. Of all: what is read are the pages of the newest map, in order, until a store goes behind it. Holds. | seven blocks of two pages, map of three entries, one word behind it taken for an entry |
| `fboot` | From the reset vector to the download, after both resets, for both loaders, with and without a cache, and the other forms of the clock set-up alone. Start: no exception, `main` entered and prepared. Clocks: a PLL that has locked stays locked and its settings are final while others are set up, only the bits meant to change in the control register do, every wait ends, every PLL waited for has locked on return, no unit is out of reset without a clock, all routines leave the same registers. Console: readable but in `c_uart_init`'s moment; after a power-on `gSysClock` is the bus frequency, and but for the 7175 and 7185HP the rate of COUNT; the bus frequency is the one the dividers give. Memory: sound memory is found and the download reached. Holds. | chips of both speeds, of both sources of the host's clock and of another family; divisor 255; eight words of three bits, every second one tested, three configurations, one cell and one lane as faults |
| `memory` | The search for the memory with every single fault, in all three builds. What is reported good is sound; the words the controller holds are those the chips were initialised with, and they describe what the test sweeps; the words of C and assembly agree; no line of the cache outlives the test and hides or overwrites the image; without a cache the accesses implement `DramDetect`; the tests find every bad data line, and of the address lines those of `LinesFound`. Holds. | sixteen words of three bits, every second one tested; three configurations; two cache lines; the tests on 32 data and 17 address lines |
| `boot_image` | Every failing open and write, names equal or not: lengths and CRCs of an output reported done are what the loader's `crcFast` computes from it, and what is printed is what was written; no option is dropped; all CRC routines agree at every address and in two pieces; the unit test of `crc32_old.c` passes with every table size, and a damaged byte or two flipped bits within a word are noticed. Holds. | the real polynomial; command lines of up to three options; programs of 0 to 9 bytes, read four at a time |
| `nand_table_copy` | "Check for the backup Layout Volume": is the volume ID right whichever copy it came from? **No**: `vol_id` is not reset between copies, so the second yields an ID too high unless the volume is the first of the table. | as `nand_faults`, primary last in the table |
| `nand_end` | "Reached End of Uboot": is it? **Not always** on 2KB parts: at the last page of a block the OOB area looked at is that of the next physical block; if that is unformatted the rest of the image is left unread and success reported. | as `nand_faults`, nothing damaged |
| `nand_moved` | "Return on reading all blocks": are all read? **Not after a power cut**: of a block that UBI was moving both versions are counted (`sqnum` is never read), the scan ends a block early, and the volume is booted without its last block and success reported. | one block of the primary volume twice |
| `boot_soft` | "wait 1 second": is the clock set? **Not after a soft reset**: `init_plls` returns before it assigns `gSysClock`. | |
| `dram_reset` | "During this time "Controller" RESET must be asserted": is it? **No**: the stores are disabled as the reset is "default upon reset", and `init_plls` has released it before. | |

Why the bounds are enough. The receiver's logic depends on a block number only
through equality with the expected one and the one before, modulo `ByteMod`:
eight values separate previous, expected, next, other and the control
characters, and nine blocks wrap.
`frames` goes down to two numbers, the fewest that work, and the proofs lift it
to every number. A packet of two data bytes has a first, a last and an
inverse/number pair, and its data contain the control characters, the case in
which a receiver that lost its place can be misled. On the flash, a volume of
two LEBs with the second half full has a block boundary, a page boundary and an
end inside a block; every order puts each block before and after each other; a
volume of three fills the map of three. `Behind`, the number of words behind the map that
may be taken for entries, is one: a second would be read like the first. In
the header tool's run, the programs have every length modulo four, and no chunk, a part
of one, and several; longer option lists are
left to the proof. In the memory test, three data lines give pairs that are and are not neighbours; an
address grid of several words has tested and untested cells and one cell beyond
the smaller configurations; as a fault is met by its own pattern only, more lines
would repeat the same case, and `DramProofs` lifts the result to every width and
size. Two cache lines and eight tested words make every line be replaced. A run
of `main` passes every call at most once; what differs between chips of equal
speed and clock source is nothing, and every one-byte divisor is the theorem's
matter.
`MaxAnswers` bounds answers the sender has not
read: with 255 or more of them a duplicate ACK could be taken for another
block, which needs a sender that ignores the line for over 40 minutes.

`CHECK_DEADLOCK FALSE` is set throughout because every model ends: the receiver
returns, the loader jumps or hangs, the tool exits.

**Fairness.** The receiver polls and nothing preempts it: `WF(Receive)`. The
sender answers an answer: `WF(Sender)`. Damages are bounded by `MaxFaults` in
liveness runs, which is the assumption that the line behaves at last. `NandBoot`
has `WF(Next)`: one thread that keeps running. `Fboot` has one condition for the
loader's thread up to the download (`LoaderRuns`; the download itself needs a sender), one
for the PLLs, which calibrate and lock in the end (`PllHardware`), and one for
the memory controller, whose PHY becomes ready and whose calibration ends
(`DdrHardwareRuns`), as a loader that polls them without limit presumes.

## Proofs

All proofs hold for every value of the constants that satisfies the named
assumptions in the modules; `tlapm` checks them to the last leaf. Where a
theorem needs more than that, it says so as a hypothesis.

**The receiver** (`XmodemProofs`), for any byte width, packet length, clock and
bound, and any line: `Typing`; `NumberTheorem` (`NumberMatchesMemory` is inductive
together with the types); `AckNamesTheorem` and `GrowTheorem`, which follow step
by step, `AckNamesTheorem` from the two invariants: a packet answered by ACK
carries the expected number or the one before, and the lemmas of `BlockNumbers`
about addition modulo `ByteMod` make that the last block.

**The line** (`XmodemProofs`). `LinkIsReceiver`: at the end of the line is the
receiver of `Xmodem`, whatever the line does, so that the theorems about it carry
over, slow senders and changed answers included (`LinkTyping`, `LinkNumbers`,
`LinkAcks`). What is in memory depends on the sender, and needs two hypotheses on
the constants, both of them those of the run `link_faults`:

* `Prompt`: the sender answers before the receiver's deadline, an answer may be
  lost but not turned into the other one, and the clock is set. Without it an old
  answer may be taken for a new one. Under it `LinkInv` is inductive: one
  transmission or one answer is under way at a time (`OneAtATime`), the sender is
  at the last stored block or the next (`SenderAbreast`), what is on the line is
  the frame of that block, whole or damaged (`LineIsCurrent`), what has been read
  of a packet is that frame if it still adds up (`PacketIsCurrent`), and `crc` is
  the sum of what was read (`SumIsCurrent`). `LinkPrefix` and `PauseTheorem`
  follow.
* `NoFalseEnd`: a damage does not turn a packet into an EOT: SOH is not changed,
  and if it can be lost no block of the file has the number EOT. The receiver
  takes an EOT for the end wherever it looks for a packet, so that without this
  the end may come early (see below). `ReturnedAtEnd` is inductive then, and
  `LinkComplete` and `LinkImplements`, the refinement of `XmodemFrames`, follow
  step by step: a character inside a packet is a stutter, the last one is the
  packet's arrival.

That one damaged byte makes the checks fail is a fact about a recursively
defined sum. It is proved without induction over the packet: of the prefixes
whose sums violate it there would be a shortest one (`LeastNumber`), and the one
before that is a contradiction (`SumsDiffer`).

**The packets** (`XmodemFramesProofs`), for any file and any `ByteMod > 1`.
`CompleteOnReturn` and `AckedIsStored` are not inductive: why is the packet in
flight the one the receiver needs? `IInv` adds the reasons: the sender is at
most one ahead of memory, the frame in flight is its current one
(`FrameIsCurrent`), an ACK in flight is for it (`AckIsForCurrent`), and after
the return nothing is on its way. With those, the number in a packet tells new
from repeated because consecutive numbers differ modulo `ByteMod`. `Invariance`
proves `IInv`; `PrefixTheorem`, `CompleteTheorem`, `AckTheorem` and `Refinement`
(to `BlockTransfer`) follow. With `LinkImplements`, the characters on the line
move the file block by block.

**The flash** (`NandProofs`), for any flash whose headers have the types the
code gives them, any page size, map and table.

* `TypeTheorem`, for which the scan must not count more blocks than it has passed
  (`Counted`) and the first record with a name must exist (`MinOfNats`). The types
  are in no run, as `VolumeRead` takes their place there.
* `ReadTheorem`: `VolumeRead` is inductive with the types and with `Running`, that
  nothing has been returned before the return: a volume given up makes both of
  its claims void, `LayoutFound` renews the map, `ScanKeeps` follows one
  block through the scan, and a store behind the map ends `StoresInside`.
* `PrimaryTheorem`: a sound primary volume with fewer LEBs than the map has entries
  is the one booted. The hypothesis
  `PrimaryFirst` is about how boards are programmed, not about what became of
  them: every copy of the table has the primary volume first, with no more
  blocks reserved than there are, and on 2KB parts the memory
  `checkErasedPage` reads does not look erased. `PrimaryKept` is the invariant:
  no sound copy of the table and no block of the volume has been passed over.
  With the primary volume further back the claim fails, as `nand_table_copy` shows.
* `BoundsTheorem`: no store of the scan and no look-ahead of the loading leaves
  `maptable`, for every board and whatever is behind the map, as long as both volumes have
  fewer LEBs than it has entries (`Fits`; as many are one too many for the look-ahead) and
  the ID looked for is that of the name (`VolumeIdNamed`, which `nand_table_copy` refutes
  for other tables: then an unrelated, larger volume is read into the map). The last
  entry is then never stored to (`ScannedFits`), and as the loading goes on only
  at an entry that is not 0, the one it reads has one behind it (`AheadInside`).
* `BootedTheorem`: on 4KB parts `BootedImage` holds, under the same `VolumeIdNamed`
  and for volumes that fit the map in the same way. `AsWritten` says how the flash
  was programmed (no page of an image looks erased, those behind it are; a LEB is in one block; enough blocks are
  reserved) and of damage only that the ECC notices it in a page. `Part4KB` is the
  invariant: the blocks of the volume are counted as they are passed, so that a
  scan that has counted as many as are reserved has entered every LEB
  (`NoneMissing`, a pigeonhole argument); what was read begins the image, and
  the next page is in a block of it. On 2KB parts the end is looked for in
  the page behind, which on the last page of a block is another block's.
* `IdTheorem`: `VolumeIdNamed` holds if the backup is the second volume of the
  table and its record is readable in every copy (`BackupSecond`).

The boards of `nand_faults` satisfy all these hypotheses, with two exceptions: those whose
damage is in the record of the backup violate `BackupSecond`, and those with the
larger volume are neither within the map (`Fits`) nor what `AsWritten` says. Of the
latter the run claims `VolumeRead` only.

**Memory** (`DramProofs`), for any width, size, granularity and search order.

* `TypeTheorem` and `GoodTheorem`, about `DramDetect`. `GoodIsSound` speaks of the
  end; `Stops` says how far the test can get with each fault: not past the
  pattern of the bit with a data line stuck (`StuckStops`) or shorted
  (`ShortStops`), not past the first sweep with a cell that keeps what it came up
  with (`CellStops`), not past the calibration with a bad lane. That the sweep
  does not step over a cell on the grid is `GridStep`.
* `TakenTheorem`, `SearchImplemented` and `SoundTheorem`, about the set-up in
  `DramSetUp`. The first lemmas find the places of the accesses that matter in the
  sequences `Preparing` and `Calibration`, which are concatenations: where the
  reset is asserted and released, where the clock is changed, where the
  controller is told to take its words. `SetUpInv` says what every stretch between
  those places has achieved (`PrepareStages`, `CalibrationStages`), so that a
  controller that is believed to run does run (`ControllerReady`) and holds the
  words of the configuration being tried. Every access of a set-up is then a
  stutter of `DramDetect` or its step "set up" or "calibrate"; the refinement
  carries `Stops` over, and with it `GoodIsSound`, for the builds without cache.
* `ImageTheorem` and `LinesTheorem`, for caches of every number of lines that a sweep
  is longer than. `ImageIsSafe` speaks of the lines at the end; the invariant
  (`CacheInv`) of the lines at every access. Written back (`WrittenBack`), a sweep
  begins with no line of its own and misses at every access, as the lines are those
  it passed last. Written through (`WrittenThrough`), lines of an earlier,
  smaller configuration may be hit, but they are of one sweep and clean, and what
  is read goes on from its end. Either way a sweep that was read to its last
  word has left lines from beyond the image only (`LinesOfTheEnd`).
* `SweptTheorem`: the words the chips were initialised with tell the capacity, the
  lanes and the refresh time the test goes by, and whether the bus is narrow. It
  has two hypotheses about the table of configurations, both true of those the
  runs search and of the one the compiled loops try: each is a whole number of
  units of address space (`UnitsWhole`), and once a narrow bus was tried no wide
  one follows (`WideFirst`); bit 6 of `prf_ctrl` is never cleared, and in the
  loops that are commented out (`dram_ram.c:762` to `770`) the bus width runs
  innermost, so that there the property fails from the second chip width on. The
  invariant (`ToldInv`) says that every access behind `at` was heeded: one that
  comes before the reset is released would be lost, and a later one could
  store another word over it. That the accesses in question occur
  in the sequence at all is `PrepareTells`. What the words say is then a matter of
  bits: a field is where it was put and no other reaches into it (`FieldAbove`,
  `Timing1Fields`, `Timing0Field`), and the number in it, a sum over a set of bits
  in an order `MapThenSumSet` does not say, is the one it was made from
  (`NumberOfThree`, `NumberOfField`, `RefreshField`).

**The boot** (`BootMainProofs`), for any set of chips.

* `BootTypes`, `SecondTheorem`, and for divisors that fit one byte
  `ConsoleTheorem`. `SecondTheorem` speaks of a power-on: `gSysClock` is then the bus
  frequency on every chip, and the rate of COUNT on all but the 7175 and 7185HP, whose
  processor has a clock of its own; after a soft reset it is not set at all. The
  invariant adds that the divisor is still the terminal's
  for 12.5 MHz until `c_uart_init`, and that `gSysClock` is then the chip's bus.
  Divisors above 255 are excluded because `c_uart_init` reads `dll` only.
* `FbootImplements`: with its calls opened up into register accesses, `main` is
  still that of `BootMain`; `FbootConsole` and `FbootSecond` follow.
* `StartTheorem` and `PreparedTheorem`, for every build: no exception can be due in
  `boot_reset` once it could be taken, and `main` finds what it needs. Every
  build's program begins with the same four stores, after which the flags that
  could cause an exception are clear, and no later step touches them
  (`Begins`, `BeginsGrows`, taken through the concatenations that make
  up the program); the invariant says which of the four have been made and that what
  a kind of step achieves stays achieved.
* `ClockedTheorem` and `ControlTheorem`, for every routine of the clock set-up, every
  chip and both resets. That the registers are harmless now (`RegsSafe`) says
  nothing about the accesses still to come, and `todo` is a concatenation of
  pieces that depends on chip and straps. So every piece is shown to be made of
  operations that are harmless from wherever they start (`SafeOp`,
  `ProgramsTyped`), and, for the control register, to open its mask before it
  stores and to close it again (`ProgramsControlled`). A program *walks* from a to
  b if each of its operations is a step of a given relation (`Walks`); walks are
  joined like the pieces (`WalkJoin`, `WalkFlat`), and what each step keeps holds of
  what the whole program leaves (`WalkLeaves`), which is how the theorems reach
  `init_plls_parts`, whose run is not followed access by access. The
  invariant says that `todo` walks on from where the registers are.
* `KeptTheorem` and `LockedTheorem`, for every routine, chip, reset and strap.
  Registers that five PLLs share are rewritten bit by bit, so what is true of one
  PLL depends on the accesses made for the others. A PLL goes through stages: `new`,
  `set` (its dividers no longer bypassed), `cal` (powered and calibrating), `off`
  (powered down again), `run`, `seen` (its lock polled). The pieces of a program are
  each `Own` to one PLL and harmless to the rest, and the walk of each PLL through
  its stages is put together of its own piece and those it sits out (`Moves`,
  `Way`). `StagesInv` says that `todo` walks on, for each PLL, from the stage its
  registers and status are in; no step from `cal` on touches settings or dividers,
  and a program of a PLL to be waited for ends in `seen`.
* `BusTheorem`. The dividers of the gateway PLL are stored in two steps (`BusSteps`:
  `start`, `one`, `two`), before it is told to calibrate, and never again; until its
  lock is seen the bus has the oscillator's frequency (`BusSlow`), from then on, and
  from the beginning after a soft reset, that of the dividers (`BusFast`). The frequency is a sum over
  a set of bits in an order `MapThenSumSet` does not say; for the words of
  `init_plls` it is worked out whichever bit is taken first (`NumberOfTwo`).
* `FbootImage`: once the memory is being set up in the whole of `main`, what
  `DramProofs` has about it alone is true of it: `SearchBegins` shows that the
  search may begin with whatever `init_plls` left.
* `FbootTypes` (`FbootTypeOK`), with `SetUpTypes` for the set-up alone: the registers
  of the system controller, of the DDR controller and of coprocessor 0 have no
  bits but their own, whatever chip, straps and memory there are. For the DDR
  controller it says that no number, shifted to its place as in `reg_ddr.h`,
  reaches past the end of the word (`FieldFits`, `LastFields`, `WordsTyped`). In `boot_reset` the digits already printed and the leading zeros skipped
  are at most seven together once a digit was printed, as no number shown is longer
  (`StartTyped`).

**The header tool** (`BootHeaderProofs`): for any command line and program.

* `NoOptionTheorem`. `ParseInv` says what the flags mean before the last option is
  reached: every option seen is in `opts`, the last of a name with its value, and
  `-s` excludes `-0` and `-1`; afterwards the header holds what `opts` does.
* `ImageTheorem`: what is reported done, and of which nothing was lost, has the
  CRCs that the loader's `crcFast` computes, over the header and over all that
  follows it, and that is the whole program in whole words. `ImageInv` follows the
  stream: the header with the first `copied` bytes of the padded program behind
  it (`OneMoreChunk`, `OneMoreZero`). `HeaderFields` finds the fields of a header
  among the bytes it was put together of; `ToolIsLoader` is `ToolTheorem` below.
* `OutputTheorem`: `ImageTheorem`, and the lengths and what is printed. The
  length is in the header before anything is written (`PrintInv`). Writing it cuts
  a number into bytes, and reading it adds powers of two up over the bits of a
  byte, in an order `FoldSet` does not say. `FoldIsWeight` shows that any order
  comes to the same sum as the least bit first, and `BytesOfNumber` that four
  bytes, read so, are the number they were cut from.
* `HeaderTypes`: every field is as wide as the header gives it, whatever is given
  on the command line.
* `AgreeTheorem`, from the theorems about the CRCs.

**The CRCs** (`CrcProofs`), for every message, width and polynomial, and any
table-driven step. `TableTheorem`: `crcFast` computes what `crcSlow` does.
`ToolTheorem`: so does the tool, which shifts the other way. `WordsTheorem`:
`crc32_le`, which takes words where it can, agrees with it wherever the message
lies, and `PiecesTheorem` wherever it is cut. Hypothesis of the last three is that
one polynomial is the mirror image of the other; `PolynomialsMirrored` in
`BootHeader` says so of the constants, and TLC evaluates it.

The argument has three layers. A remainder is a set of bits, and two are equal
if they have the same bits (`SameBits`); shifting, reflecting and dividing by one
bit is reasoned about there, and `MirrorTheorem` is the step where both directions
meet. Eight bits are eight steps, and division is linear (`DivideXor`), which is
why the part of a remainder that does not reach the top can be left out of the
table (`StepsSame`) and four bytes can be brought in before the first of them is
taken in (`EarlyByte`, `WordIsFour`). A message is a row of steps: `Through` is a
fold, which `ThroughSteps` unfolds into the remainders after every byte. That a
row of steps keeps what each of them keeps is an induction; it is made without a
rule of induction, from the least number at which it would fail (`LeastNumber`,
`NoneFails`).

Only model-checked:

* liveness (`ReceiverReturns`, `SomeVolumeBoots`, `MainIsEntered`, `PllsReturn`,
  `SoundMemoryLoads`), which the prover does not reach;
* `MemoryIsPrefix` with a slow sender or changed answers, where more than one answer
  may be under way;
* `BootedImage` on 2KB parts;
* of `RoutinesAgree` the comparison of what the routines leave, a computation with
  constants of the code (that every PLL waited for has locked is `LockedTheorem`);
* `WordsAgree`, which compares two rows of stores, and `WiringVerified`, whose
  functions are evaluated on the real widths: they are computations with constants
  of the code, which TLC makes in full and a proof would only repeat;
* `GoodIsSound` in the builds with a cache;
* `CrcsAreChecks`: the unit test with the big-endian routine and the narrow tables,
  and that damage is noticed, a fact about this polynomial.


## What reading and checking showed besides

These follow from the models as they stand. They have no run of their own.

* The loop "Clear any pending input characters" (`xmodem.c:78`) clears nothing;
  the purge after it does.
* If the SOH of block 4 is lost, its block number is read as EOT and the download
  ends early. A sender that counts from 0 has its first block acknowledged, not
  stored, though the header of `xmodem.c` says where block 0 goes.
* A volume table page with uncorrectable ECC errors is used if the CRC of the
  one record is right (`dev_nand.c:453`).
* A volume of twenty blocks fills `maptable`, and the loop of `readmapTable` then looks
  at the word behind it and reads on if that is not 0 (`dev_nand.c:679`; `Follows`);
  with more, `scanvid` overwrites what is behind (`dev_nand.c:575`;
  `VidMapBehind`). Nothing in the code compares the size of a volume with twenty.
* `pll_rom.S:311` sets bit 31 of `rst_vec` to release the peripherals, with that
  bit protected by `rst_mask`; `reset_peripheral` opens the mask first.
* `pll_rom.S:175` takes the clock of the front end from strap 7, the C routine from
  strap 10, as `reg_scu.h` has it; `pll_rom.S:119` tests `CLK_SE_MODE`, which
  nothing defines.
* Two older forms of `init_plls` poll the status of the BME PLL for the lock of the
  gateway PLL (`pll_ram.c:426` and `516`); `init_pll` tests the whole chip type where
  it has just isolated a bit, so that the 7175 and 7185SE, which `soc_rom.S:35` and
  `38` list with 500 MHz, get the dividers for 400.
* `reg_scu.h` gives bit 25 to `POWER_OPTIMIZE_EN` and to `POWER_OPTIMIZE_CLK`.
* `fboot.c:137` ignores the result of `read_uboot` and jumps; `fboot.c:128`
  compares the length with its limit after everything was written.
* After a soft reset the NAND loader sets the divisor for the slow bus on a fast one.
* `a_put_hex` never ends for the number 0 (`uart_boot.h:119`); none of the
  registers printed can be 0. `boot_reset` makes KSEG0 cacheable before the tags
  are cleared, which is harmless as it runs in KSEG1. `a_put_cjump` is missing
  in builds with `ASM_PRINT_STRING`.
* `mdelay` reckons with 250000 ticks per millisecond whatever the bus runs at.
* `mips32_cache.c` takes lines to be 32 bytes, and its range operations walk the
  whole address space for a range of size 0 that begins with a line.
* The code of a narrow bus is 2 in the C set-up and 1 in the assembly's;
  bit 6 of `prf_ctrl`, set for a narrow bus, is not cleared when a wide one is tried
  next; the macros of `reg_ddr.h` round timings down (`Clocks(15)` is 3, of 3.75);
  the assembly waits until `DDR_SCL_DONE` is clear.
* `ram_verify` credits the short test with verifying all address lines
  (`dram_ram.c:495`): it verifies none, as it writes one pattern everywhere before
  it reads. The long one finds four of seventeen (`LinesFound`). With
  8-bit accesses the test compares an address cut to 8 bits with the end and
  never ends; no caller asks for them. `ram_bitflip_verify` of `dram_rom.S:166`
  never succeeds, and has no caller.
* The CRC tables have 256 entries, `lib_crc32_def.h:13` lets them be indexed for
  smaller ones; `crc32_old.c` includes a header by a name that does not exist, so
  that its unit test cannot be built.
* `bh` returns 0 for an output that is the
  program itself (`bhdr.c:364` empties it), for one whose `fclose` failed, and
  cannot print the header of an SPI image with a program of four bytes or fewer.
* `lib_crc.h:65` gives `0xCBF43926` as the check value; with the final XOR of 0
  that this copy has, `crcFast` of "123456789" is its complement, `0x340BC6D9`,
  which is what UBI expects.

## Not modelled

* NOR flash, board and `bootm` code, traps and interrupts: disabled with `#if 0`,
  or outside the build; the NOR driver does not compile as it stands (a semicolon is missing in the loop
  that burns, `dev_nor_amd.c:157`), so there is no behaviour to state properties
  of; as written, its erase loop looks at the sector after the one it erased
  (`dev_nor_amd.c:136`).
* The exception vectors, each of which prints its name and hangs; the code that
  copies a second-stage loader out of a first one.
* The registers and timings of the NAND controller, behind the page they
  deliver; the `read_uboot` of the `UARTBOOT_CODE` build, which `main` does not
  call.
* `mdelay`, but for its place in the reset of the memory controller; the words of
  a memory set-up that `dram_ram.c` itself says do not function; the memory test of
  `dram_rom.S`, which nothing calls.
* The cache operations nobody calls; printing; peripheral files that are empty;
  register headers of devices the loader does not touch.
* A polling loop on hardware that never answers.

## Plan

Done: everything named under "Modules", with the proofs above. What could
follow, in this order:

1. `GoodIsSound` in the builds with a cache as a theorem: what the test reads is
   then a line, and the sweep has to be shown to miss at every access.
2. `InterruptDispatch`, if `mips32_interrupts.c` is ever enabled.
