------------------------------- MODULE Caches -------------------------------
(***************************************************************************)
(* The memory test of module DramDetect through the data cache.  The       *)
(* Makefile has two builds in which KSEG0, where the test runs, is cached  *)
(* (K0SEG_CACHED): written back with allocation on writes                  *)
(* (KSEG0_CACHED_NONCOHERENT), or written through without.  main() loads   *)
(* the image through KSEG1, past the cache, and jumps to it in KSEG0.      *)
(*                                                                         *)
(* The tested addresses are 4 KB apart and compete for the few lines of    *)
(* the same sets.  The line filled first is replaced (LRF).                *)
(***************************************************************************)
EXTENDS DramDetect

CONSTANTS
  Builds,  \* "uncached", "write-back", "write-through": those that occur
  Ways,    \* lines the tested addresses compete for, fewer than those are
  LoadAt   \* words the image is loaded to, 8 MB from the beginning

ASSUME CacheAssumption ==
  /\ Builds \subseteq {"uncached", "write-back", "write-through"}
  /\ Ways \in Nat \ {0}
  /\ LoadAt \subseteq Address
  /\ \A c \in DOMAIN Configs, a \in LoadAt \cup {0} :
       a + Ways * Granularity < totalSize(Configs[c])

VARIABLES
  build,  \* one of Builds
  dcache  \* lines of the cache: address, word, dirty; oldest first

cacheVars == <<build, dcache>>
memVars == <<dramVars, cacheVars>>

CacheTypeOK ==
  /\ build \in Builds
  /\ dcache \in Seq([addr : Nat, word : Word, dirty : BOOLEAN])
  /\ Len(dcache) <= Ways

(* start.S has invalidated every line.                                     *)
CacheInit == build \in Builds /\ dcache = <<>>

-----------------------------------------------------------------------------
(* The cache, which is the processor's.                                    *)
Held(a) == \E n \in DOMAIN dcache : dcache[n].addr = a
LineOf(a) == CHOOSE n \in DOMAIN dcache : dcache[n].addr = a

(* A line is filled; the one it replaces goes to memory if it is dirty.    *)
Filled(line) ==
  Append(IF Len(dcache) = Ways THEN Tail(dcache) ELSE dcache, line)

Evicted ==
  IF Len(dcache) = Ways /\ Head(dcache).dirty
  THEN Stored(Head(dcache).addr, Head(dcache).word) ELSE mem

(* invalidate_dcache_range(SYS_MEM_BASE, SYS_MEM_BASE+totalSize), between  *)
(* calibration and test, in the build that writes back: from the line of   *)
(* the first byte to that of the last, nothing is written to memory.  The  *)
(* lines that are left keep their order.                                   *)
Beyond == {n \in DOMAIN dcache : dcache[n].addr >= totalSize(config)}

InvalidateIf(tested) ==
  /\ IF tested /\ build = "write-back"
     THEN \E left \in [1 .. Cardinality(Beyond) -> Beyond] :
            /\ \A m, n \in DOMAIN left : m < n => left[m] < left[n]
            /\ dcache' = [n \in DOMAIN left |-> dcache[left[n]]]
     ELSE UNCHANGED dcache
  /\ UNCHANGED build

(* *p32 = pattern32                                                        *)
Write ==
  /\ Written
  /\ CASE build = "write-back" /\ ~ Held(p32) ->
            /\ dcache' = Filled([addr |-> p32, word |-> Pattern, dirty |-> TRUE])
            /\ mem' = Evicted
       [] build = "write-back" /\ Held(p32) ->
            /\ dcache' = [dcache EXCEPT ![LineOf(p32)].word = Pattern,
                                        ![LineOf(p32)].dirty = TRUE]
            /\ UNCHANGED mem
       [] OTHER ->
            /\ dcache' = IF Held(p32)
                         THEN [dcache EXCEPT ![LineOf(p32)].word = Pattern]
                         ELSE dcache
            /\ mem' = Stored(p32, Pattern)
  /\ UNCHANGED build

(* *p32 != pattern32.  The replaced line leaves before the new one comes.  *)
FromMemory(contents) == OnLines(contents[Cell(p32)])

Read ==
  /\ CASE build = "uncached" ->
            WordRead(Fetched(p32)) /\ UNCHANGED <<mem, dcache>>
       [] build # "uncached" /\ Held(p32) ->
            WordRead(dcache[LineOf(p32)].word) /\ UNCHANGED <<mem, dcache>>
       [] OTHER ->
            /\ mem' = Evicted
            /\ WordRead(FromMemory(mem'))
            /\ dcache' = Filled([addr |-> p32, word |-> FromMemory(mem'),
                                 dirty |-> FALSE])
  /\ UNCHANGED build

-----------------------------------------------------------------------------
(***************************************************************************)
(* Properties.                                                             *)
(***************************************************************************)

(* "xmodem_load(A_K1BASE+...)" and the jump to KSEG0 (fboot.c) go by two   *)
(* ways to one memory: when the test has ended no line is left that could  *)
(* be written over the image later, or be read in its place.               *)
ImageIsSafe ==
  dram = "ok" => \A n \in DOMAIN dcache :
    ~ dcache[n].dirty /\ dcache[n].addr \notin LoadAt
=============================================================================
