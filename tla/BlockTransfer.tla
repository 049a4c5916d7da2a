---------------------------- MODULE BlockTransfer ----------------------------
(***************************************************************************)
(* What a download promises, without packets, answers or line: the blocks  *)
(* of a file appear in memory one at a time, in order, each once, and the  *)
(* receiver finishes only with the whole file in memory.                   *)
(***************************************************************************)
EXTENDS Naturals, Sequences

CONSTANT File          \* the blocks of the file, in order

VARIABLES memory, done

vars == <<memory, done>>

Init ==
  /\ memory = <<>>
  /\ done = FALSE

Deliver ==
  /\ ~ done
  /\ Len(memory) < Len(File)
  /\ memory' = Append(memory, File[Len(memory) + 1])
  /\ UNCHANGED done

Finish ==
  /\ ~ done
  /\ memory = File
  /\ done' = TRUE
  /\ UNCHANGED memory

Next == Deliver \/ Finish

Spec == Init /\ [][Next]_vars
=============================================================================
