------------------------------- MODULE Start --------------------------------
(***************************************************************************)
(* From the reset vector to main(): boot_reset of arch/mips32/start.S,     *)
(* with the messages of debug.S and the macros of uart_boot.h.             *)
(*                                                                         *)
(* A step is one of: a group of stores to coprocessor 0, characters sent,  *)
(* a digit of a number sent, the tags of a cache cleared.  The flags of    *)
(* coprocessor 0 that decide about exceptions are a set of those that are  *)
(* on.  A word is its eight hexadecimal digits.                            *)
(***************************************************************************)
EXTENDS Caches, SequencesExt

CONSTANTS
  Undefined,  \* sets of flags that a reset may leave on
  PRId,       \* the processor's identity, in digits
  Config,     \* and its configuration, for each value of the field K0
  Config1,    \* codes of line size, sets and ways of both caches
  AtReset,    \* Config to Config3 as a reset leaves them, in digits
  DEBUG_LEVEL

ASSUME StartAssumption ==
  /\ Undefined \subseteq SUBSET {"EXL", "IE", "IM", "WP", "SW", "TI", "DC", "WATCH"}
  /\ Config1 \in [IL : 0 .. 6, IS : 0 .. 6, IA : 0 .. 7,
                  DL : 0 .. 6, DS : 0 .. 6, DA : 0 .. 7]

Digit == 0 .. 15
Significant(word) == \E n \in DOMAIN word : word[n] # 0

(* None of the registers shown is zero: see PutDigit.                      *)
ASSUME WordAssumption ==
  /\ DEBUG_LEVEL \in 1 .. 3
  /\ Builds \subseteq DOMAIN Config
  /\ AtReset \in Seq([1 .. 8 -> Digit])
  /\ \A w \in {PRId} \cup Range(Config) \cup Range(AtReset) :
       w \in [1 .. 8 -> Digit] /\ Significant(w)

-----------------------------------------------------------------------------
Mtc0(off, on) == <<[op |-> "mtc0", off |-> off, on |-> on]>>
Put == <<[op |-> "put"]>>
Hex8(word) == <<[op |-> "hex", word |-> word]>>
Do(what) == <<[op |-> what]>>
Verbose(steps) == IF DEBUG_LEVEL > 1 THEN steps ELSE <<>>

(* Slip: exceptions are enabled before those that wait are cleared.        *)
Coprocessor0Late ==
  Mtc0({"ERL", "EXL", "IE", "IM"}, {"BEV"})
    \o Mtc0({"WP", "SW", "DC"}, {"IV"})
    \o Mtc0({"WATCH"}, {})
    \o Mtc0({"TI"}, {})

(* Steps 2 and 3: Cause, the watch registers, Count and Compare, Status.   *)
Coprocessor0 ==
  Mtc0({"WP", "SW", "DC"}, {"IV"})
    \o Mtc0({"WATCH"}, {})
    \o Mtc0({"TI"}, {})
    \o Mtc0({"ERL", "EXL", "IE", "IM"}, {"BEV"})

(* The size of a line and the lines of a way, from their codes; the digits *)
(* of such a number.                                                       *)
LineSize(code) == 2 * 2 ^ code
SetsPerWay(code) == 64 * 2 ^ code
Digits(n) == [d \in 1 .. 8 |-> (n \div 16 ^ (8 - d)) % 16]

(* Steps 7 and 8, for one cache: without lines there is none.              *)
CacheStep(which, lineCode, sets, ways) ==
  Put \o (IF lineCode = 0
          THEN Put
          ELSE Put \o Hex8(Digits(LineSize(lineCode)))
                 \o Put \o Hex8(Digits(SetsPerWay(sets)))
                 \o Put \o Hex8(Digits(ways + 1))
                 \o Verbose(Put)
                 \o Do(which))

(* Numbers in a row, each behind a name or a comma.                        *)
Listed(words) ==
  [n \in 1 .. 2 * Len(words) |->
     IF n % 2 = 1 THEN Head(Put) ELSE Head(Hex8(words[n \div 2]))]

boot_reset(b) ==
  Coprocessor0
    \o Do("uart") \o Put
    \o Put \o Hex8(PRId)
    \o Verbose(Listed(AtReset) \o Put)
    \o Do("K0") \o Verbose(Put) \o Put \o Hex8(Config[b])
    \o (IF b = "uncached"
        THEN <<>>
        ELSE CacheStep("I", Config1.IL, Config1.IS, Config1.IA)
               \o CacheStep("D", Config1.DL, Config1.DS, Config1.DA))
    \o Do("stack") \o Put
    \o Do("main")

BootSteps == [b \in Builds |-> boot_reset(b)]

-----------------------------------------------------------------------------
VARIABLES
  boot,     \* the step that is next
  cp0,      \* flags that are on, "ERL" and "BEV" and those of Undefined
  clean,    \* caches all of whose tags are invalid, "stack" once it is set
  shown,    \* digits of the number sent so far
  skipping  \* digits of the number looked at so far, all of them zero

startVars == <<boot, cp0, clean, shown, skipping>>

Booted == boot > Len(BootSteps[build])
Next0 == BootSteps[build][boot]

StartTypeOK ==
  /\ boot \in Nat \ {0}
  /\ cp0 \subseteq {"ERL", "BEV", "IV"} \cup UNION Undefined
  /\ clean \subseteq {"I", "D", "stack"}
  /\ shown \in Seq(Digit) /\ Len(shown) <= 8
  /\ skipping \in 0 .. 8

(* A reset raises ERL and BEV; the other flags are undefined.              *)
StartInit ==
  /\ boot = 1
  /\ \E u \in Undefined : cp0 = {"ERL", "BEV"} \cup u
  /\ clean = {} /\ shown = <<>> /\ skipping = 0

AtStep(kind) == ~ Booted /\ Next0.op \in kind

StoreCp0 ==
  /\ AtStep({"mtc0"})
  /\ cp0' = (cp0 \ Next0.off) \cup Next0.on
  /\ boot' = boot + 1
  /\ UNCHANGED <<clean, shown, skipping>>

(* A message; the registers sp and gp; the field K0; the jump to main.     *)
Passes ==
  /\ AtStep({"put", "K0", "stack", "main", "uart"})
  /\ clean' = IF Next0.op = "stack" THEN clean \cup {"stack"} ELSE clean
  /\ boot' = boot + 1
  /\ UNCHANGED <<cp0, shown, skipping>>

(* The digit that is shifted out next; behind the last one come zeros.     *)
Nibble(n) == IF n <= 8 THEN Next0.word[n] ELSE 0

(* Slip: a zero among the digits is not sent either.                       *)
PutDigitSkips ==
  LET n == Len(shown) + skipping + 1
  IN  /\ AtStep({"hex"})
      /\ IF Nibble(n) = 0
         THEN /\ skipping' = IF skipping < 8 THEN skipping + 1 ELSE 8
              /\ UNCHANGED <<shown, boot>>
         ELSE IF n = 8
         THEN shown' = <<>> /\ skipping' = 0 /\ boot' = boot + 1
         ELSE shown' = Append(shown, Nibble(n)) /\ UNCHANGED <<skipping, boot>>
      /\ UNCHANGED <<cp0, clean>>

(* a_put_hex: leading zeros are skipped, without a look at how many digits *)
(* are left: of the number 0 the routine would skip zeros for ever.        *)
PutDigit ==
  LET n == Len(shown) + skipping + 1
  IN  /\ AtStep({"hex"})
      /\ IF shown = <<>> /\ Nibble(n) = 0
         THEN /\ skipping' = IF skipping < 8 THEN skipping + 1 ELSE 8
              /\ UNCHANGED <<shown, boot>>
         ELSE IF n = 8
         THEN shown' = <<>> /\ skipping' = 0 /\ boot' = boot + 1
         ELSE shown' = Append(shown, Nibble(n)) /\ UNCHANGED <<skipping, boot>>
      /\ UNCHANGED <<cp0, clean>>

(* The tags a loop of so many steps of a line clears: the index operation  *)
(* takes set and way from the address.                                     *)
Cleared(line, sets, ways, steps) ==
  {<<(a \div line) % sets, (a \div (line * sets)) % ways>> :
     a \in {line * k : k \in 0 .. steps - 1}}

(* Slip: the ways are not counted.                                         *)
StepsOneWay(sets, ways) == sets

(* "Total number of sets"                                                  *)
Steps(sets, ways) == sets * ways

AllCleared(line, sets, ways) ==
  Cleared(line, sets, ways, Steps(sets, ways))
    = (0 .. sets - 1) \X (0 .. ways - 1)

AllOf ==
  [I |-> AllCleared(LineSize(Config1.IL), SetsPerWay(Config1.IS), Config1.IA + 1),
   D |-> AllCleared(LineSize(Config1.DL), SetsPerWay(Config1.DS), Config1.DA + 1)]

ClearTags ==
  /\ AtStep({"I", "D"})
  /\ clean' = IF AllOf[Next0.op] THEN clean \cup {Next0.op} ELSE clean
  /\ boot' = boot + 1
  /\ UNCHANGED <<cp0, shown, skipping>>

StartNext == StoreCp0 \/ Passes \/ PutDigit \/ ClearTags

-----------------------------------------------------------------------------
(***************************************************************************)
(* Properties.                                                             *)
(***************************************************************************)

(* "clear CauseWP", "any unexpected interrupts": nothing that a reset may  *)
(* leave undefined can lead to an exception, whose vector would print a    *)
(* message and hang, between the reset and main().                         *)
ExceptionDue ==
  /\ cp0 \cap {"ERL", "EXL"} = {}
  /\ \/ cp0 \cap {"WP", "WATCH"} # {}
     \/ {"IE", "IM"} \subseteq cp0 /\ cp0 \cap {"SW", "TI"} # {}

NotInterrupted == ~ ExceptionDue

(* main() finds a stack, COUNT running, for every timeout depends on it,   *)
(* and where KSEG0 is cached, as memory test and image have it, a cache    *)
(* with no tag left from before the reset.                                 *)
MainIsPrepared ==
  /\ "stack" \in clean /\ "DC" \notin cp0
  /\ build # "uncached" =>
       /\ Config1.IL # 0 => "I" \in clean
       /\ Config1.DL # 0 => "D" \in clean
=============================================================================
