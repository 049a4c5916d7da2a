------------------------------- MODULE Fboot --------------------------------
(***************************************************************************)
(* boot_reset of start.S (module Start) and main() of loader/fboot.c with  *)
(* the routines it calls in full: module BootMain, whose step init_plls is *)
(* the register sequence of module Plls and whose step c_auto_ddr is the   *)
(* search of module DramDetect, with the cache of module Caches and the    *)
(* register accesses of module DramSetUp.                                  *)
(*                                                                         *)
(* The assembly routine init_pll has no caller in the tree, and the older  *)
(* form of init_plls is not compiled; where one of them is the routine     *)
(* that is run, it is run alone.                                           *)
(***************************************************************************)
EXTENDS BootMain, Start, DramSetUp

allVars == <<vars, startVars, pllVars, memVars, setUpVars>>
ddrVars == <<memVars, setUpVars>>
hardVars == <<startVars, ddrVars>>

(* What the memory is like shows when c_auto_ddr begins.                   *)
MemoryOff ==
  /\ dram = "off"
  /\ fault = [kind |-> "none"]
  /\ mem = [a \in Address |-> {}]
  /\ try = 1 /\ i = 0 /\ inverse = FALSE /\ p32 = 0

FbootInit == Init /\ StartInit /\ PllInit /\ MemoryOff /\ CacheInit /\ DdrInit

FbootTypeOK ==
  /\ TypeOK
  /\ PllTypeOK
  /\ dram # "off" => DramTypeOK
  /\ CacheTypeOK
  /\ SetUpTypeOK
  /\ StartTypeOK

-----------------------------------------------------------------------------
(* boot_reset, and in it the divisor.                                      *)
RunStart ==
  /\ routine = "init_plls"
  /\ StartNext
  /\ IF Next0.op = "uart" THEN a_uart_init ELSE UNCHANGED vars
  /\ UNCHANGED <<pllVars, ddrVars>>

DetectChip ==
  /\ routine = "init_plls" /\ Booted
  /\ detect_SoC
  /\ UNCHANGED <<startVars, pllVars, ddrVars>>

(* init_plls: the bus has its frequency when the gateway PLL is found      *)
(* locked, and the routine is over early after a soft reset.               *)
Entered == routine = "init_plls" => step \notin {"boot_reset", "detect_SoC"}

AccessRegister ==
  /\ Entered
  /\ Access
  /\ IF routine = "init_plls" /\ cause = "soft" /\ todo' = <<>>
     THEN SkipPlls ELSE UNCHANGED vars
  /\ UNCHANGED hardVars

PollPll ==
  /\ Entered
  /\ PollSet
  /\ IF routine = "init_plls" /\ <<Head(todo)>> = Poll("gateway", "locked")
     THEN ProgramPlls ELSE UNCHANGED vars
  /\ UNCHANGED hardVars

CallUartInit ==
  /\ Entered
  /\ CallRoutine
  /\ IF routine = "init_plls" THEN c_uart_init ELSE UNCHANGED vars
  /\ UNCHANGED hardVars

RunPlls == AccessRegister \/ PollPll \/ CallUartInit

PllHardware ==
  /\ \E p \in PLL : Calibrates(p) \/ Locks(p)
  /\ UNCHANGED <<vars, hardVars>>

(* c_auto_ddr                                                              *)
EnterDdr ==
  /\ step = "c_auto_ddr" /\ Returned /\ dram = "off"
  /\ dram' = "try"
  /\ fault' \in Faults /\ mem' \in PowerUpContents
  /\ UNCHANGED <<vars, startVars, pllVars, cacheVars, setUpVars, try, i, inverse, p32>>

SearchDdr ==
  /\ dram # "off"
  /\ SetUpDdr
  /\ UNCHANGED <<vars, startVars>>

ReturnDdr ==
  /\ dram \in {"ok", "failed"}
  /\ c_auto_ddr
  /\ step' = IF dram = "ok" THEN "load" ELSE "hang"
  /\ UNCHANGED <<startVars, pllVars, ddrVars>>

DdrHardwareRuns ==
  /\ dram # "off"
  /\ DdrHardware
  /\ UNCHANGED <<vars, startVars>>

RunDdr == EnterDdr \/ SearchDdr \/ ReturnDdr

LoadAndJump ==
  /\ LoadSerial \/ LoadNand \/ Jump
  /\ UNCHANGED <<startVars, pllVars, ddrVars>>

(* The loader is one thread, which goes on while it has a step to take: as *)
(* far as the download, for which a sender is needed.                      *)
LoaderRuns == RunStart \/ DetectChip \/ RunPlls \/ RunDdr

FbootNext == LoaderRuns \/ PllHardware \/ DdrHardwareRuns \/ LoadAndJump

(* Nothing interrupts the loader; a PLL that is powered and told to        *)
(* calibrates, and locks, in the end; the PHY becomes ready, and its tests *)
(* of the lanes end.                                                       *)
FbootSpec ==
  /\ FbootInit /\ [][FbootNext]_allVars
  /\ WF_allVars(LoaderRuns)
  /\ WF_allVars(PllHardware)
  /\ WF_allVars(DdrHardwareRuns)

-----------------------------------------------------------------------------
(***************************************************************************)
(* Properties of the whole.                                                *)
(***************************************************************************)

(* "host, system: 25*0.5*96/(3*2)=200M", "25*0.5*80/(2*2)=250M"            *)
(* (pll_ram.c): the frequency by which main() and its routines reckon is   *)
(* the one feedback and post divider of the gateway PLL give, and that of  *)
(* the oscillator where the PLL has not locked.                            *)
BusOf(r) ==
  Number(r.pll_post_divider1 \cap (0 .. 7), 0)
    \div (2 * Number(r.pll_post_divider2 \cap (4 .. 7), 4))

BusIsProgrammed ==
  step # "init_plls" /\ routine = "init_plls" =>
    busClock = IF "locked" \in status["gateway"] THEN BusOf(regs) ELSE 1

(* boot_reset comes to main(), none of the numbers it prints keeps it, and *)
(* main() finds what it takes for granted.                                 *)
MainIsEntered == routine = "init_plls" => <>(Booted /\ MainIsPrepared)

(* Every wait of either routine for a PLL ends: the one that is polled     *)
(* has power and has been told to do what is waited for.                   *)
PllsReturn == <>Returned

(* On a board with sound memory main() comes to the download: the search   *)
(* raises no false alarm, and the configurations that are skipped or fail  *)
(* before do not keep the right one from being found.                      *)
SoundMemoryLoads ==
  (dram = "try" /\ fault.kind = "none") ~> step = "load"
=============================================================================
