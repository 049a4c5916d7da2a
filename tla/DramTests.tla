----------------------------- MODULE DramTests -----------------------------
(***************************************************************************)
(* The memory tests of boot/soc_landshark/dram_ram.c bit by bit: the one   *)
(* module DramDetect runs (ram_verify_bitflip) and the longer one that is  *)
(* built with DATA_VERIFY_JACKY (ram_verify_complex, ram_random_verify),   *)
(* in accesses of 8 to 64 bits.  There the memory has three data lines and *)
(* faults in its cells; here it has all its lines, and faults in those.    *)
(*                                                                         *)
(* A word is the set of its one-bits, and so is an address, which the      *)
(* random test writes as a word.  The result is whether the test passed.   *)
(***************************************************************************)
EXTENDS DramSetUp

(* The width of an access (cpu_word_size) in bits; an address has 32.      *)
AccessWidths == {8, 16, 32, 64}

(* What may be wrong with the lines between controller and chips.          *)
Wiring ==
  [kind : {"sound"}]
    \cup [kind : {"stuck"}, bit : 0 .. 31, at : {0, 1}]
    \cup [kind : {"short"}, at : {0, 1},
          bits : {{b, c} : b \in 0 .. 31, c \in 0 .. 31} \ {{b} : b \in 0 .. 31}]
    \cup [kind : {"address"}, line : 12 .. 28]

Driven(wire, word) ==
  CASE wire.kind = "stuck" /\ wire.at = 1 -> word \cup {wire.bit}
    [] wire.kind = "stuck" /\ wire.at = 0 -> word \ {wire.bit}
    [] wire.kind = "short" /\ wire.at = 1 /\ wire.bits \cap word # {} ->
         word \cup wire.bits
    [] wire.kind = "short" /\ wire.at = 0 /\ ~ wire.bits \subseteq word ->
         word \ wire.bits
    [] OTHER -> word

Selected(wire, addr) ==
  IF wire.kind = "address" THEN addr \ {wire.line} ELSE addr

-----------------------------------------------------------------------------
(* start, start + granularity, ...: SYS_MEM_BASE and a granularity of a    *)
(* power of two.                                                           *)
Swept(granularity, counter) ==
  [k \in 1 .. counter |->
     {31} \cup {granularity + b : b \in Hex(0, k - 1)}]

(* One sweep of ram_pattern_verify or ram_random_verify: everything is     *)
(* written before the first word is read.                                  *)
WriteReadAtOnce(wire, addrs, expected) ==
  \A k \in DOMAIN addrs : Driven(wire, Driven(wire, expected[k])) = expected[k]

WriteRead(wire, addrs, expected) ==
  LET Write1(cells, k) ==
        [cells EXCEPT ![Selected(wire, addrs[k])] = Driven(wire, expected[k])]
      cells == FoldLeft(Write1, [a \in {Selected(wire, addrs[k]) : k \in DOMAIN addrs}
                                   |-> {}], [k \in DOMAIN addrs |-> k])
  IN  \A k \in DOMAIN addrs :
        Driven(wire, cells[Selected(wire, addrs[k])]) = expected[k]

ram_pattern_verify(wire, addrs, pattern) ==
  WriteRead(wire, addrs, [k \in DOMAIN addrs |-> pattern])

(* Slip: the loop is one for words of 16 bits.                             *)
ram_verify_bitflipHalf(wire, addrs) ==
  \A bit \in 0 .. 15 :
    /\ ram_pattern_verify(wire, addrs, {bit})
    /\ ram_pattern_verify(wire, addrs, Ones \ {bit})

(* 1 << i and its complement for every bit of 32.                          *)
ram_verify_bitflip(wire, addrs) ==
  \A bit \in 0 .. 31 :
    /\ ram_pattern_verify(wire, addrs, {bit})
    /\ ram_pattern_verify(wire, addrs, Ones \ {bit})

(* ((address | set) & keep), as wide as the access.                        *)
Twice(word) == word \cup {32 + b : b \in word}
RandomSet ==
  [w \in AccessWidths |->
     CASE w = 8 -> Hex(0, \hE1) [] w = 16 -> Hex(0, \h78E1)
       [] w = 32 -> Hex(\h69D2, \h78E1) [] w = 64 -> Twice(Hex(\h69D2, \h78E1))]
RandomKeep ==
  [w \in AccessWidths |->
     CASE w = 8 -> Hex(0, \h5C) [] w = 16 -> Hex(0, \hA35C)
       [] w = 32 -> Hex(\h5AC3, \hA35C) [] w = 64 -> Twice(Hex(\h5AC3, \hA35C))]

Random(w, addrs) ==
  [k \in DOMAIN addrs |-> (addrs[k] \cup RandomSet[w]) \cap RandomKeep[w]]

(* Slip: each word is read back before the next is written.                *)
ram_random_verifyAtOnce(w, wire, addrs) ==
  WriteReadAtOnce(wire, addrs, Random(w, addrs))

ram_random_verify(w, wire, addrs) == WriteRead(wire, addrs, Random(w, addrs))

(* Each of these and its complement.                                       *)
pattern_data ==
  {Hex(0, \hFFFF), Hex(\h00FF, \h00FF), Hex(\h0F0F, \h0F0F),
   Hex(\h3333, \h3333), Hex(\h5555, \h5555), Hex(\h7654, \h3210)}

ram_verify_complex(wire, addrs) ==
  /\ \A pattern \in pattern_data :
       /\ ram_pattern_verify(wire, addrs, pattern)
       /\ ram_pattern_verify(wire, addrs, Ones \ pattern)
  /\ ram_random_verify(32, wire, addrs)

-----------------------------------------------------------------------------
(***************************************************************************)
(* Properties, looked at before the search begins.                         *)
(***************************************************************************)
Begin == dram = "try" /\ try = 1 /\ at = 1 /\ fault.kind = "none"

(* "data lines are verified with (1 << i) pattern": both tests find every  *)
(* line that is stuck and every two that are shorted; the twelve words of  *)
(* the longer one tell every two lines apart, as the 64 of the other do.   *)
(* A sound memory passes both.                                             *)
DataLinesVerified ==
  \A wire \in {w \in Wiring : w.kind # "address"} :
    LET addrs == Swept(12, 2)
    IN  /\ ram_verify_bitflip(wire, addrs) <=> wire.kind = "sound"
        /\ ram_verify_complex(wire, addrs) <=> wire.kind = "sound"

(* "able to verify all address lines", of the lines 12 to 28, by which the *)
(* tested words differ: the shorter test writes one pattern to all of them *)
(* before it reads any back, and verifies none; the random words depend on *)
(* four lines with accesses of 32 bits or more, on one with 16, on none    *)
(* with 8: the longer test finds four of seventeen.                        *)
LinesFound ==
  [w \in AccessWidths |->
     CASE w = 8 -> {} [] w = 16 -> {15} [] OTHER -> {15, 16, 25, 28}]

AddressLinesFound ==
  \A wire \in {w \in Wiring : w.kind = "address"} :
    LET addrs == Swept(Min({wire.line, 26}), 8)
    IN  /\ ram_verify_bitflip(wire, addrs)
        /\ \A w \in AccessWidths :
             ram_random_verify(w, wire, addrs)
               <=> wire.line \notin LinesFound[w]
        /\ ram_verify_complex(wire, addrs)
             <=> wire.line \notin LinesFound[32]

(* What the two tests of ram_verify tell of the wiring of a memory.        *)
WiringVerified == Begin => DataLinesVerified /\ AddressLinesFound
=============================================================================
