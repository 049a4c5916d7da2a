---------------------------- MODULE MCDramSetUp ----------------------------
(* A memory of sixteen words of three bits, every other of which is        *)
(* tested, with two lines of cache                                         *)
EXTENDS DramTests

\* 2 Gbit chips by 8, too large together; 1 Gbit chips by 16 on a wide bus
\* and on a narrow one.
Searched ==
  << [cS |-> 3, cW |-> 1, bW |-> 1], [cS |-> 2, cW |-> 2, bW |-> 1],
     [cS |-> 2, cW |-> 2, bW |-> 0] >>

AllFaults == Fault
=============================================================================
