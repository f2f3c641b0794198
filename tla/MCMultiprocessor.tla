-------------------------- MODULE MCMultiprocessor --------------------------
(* Two application processors; the firmware's tables are invalid or absent, *)
(* or list all processors, some, or only the boot processor.                *)
EXTENDS Multiprocessor

CONSTANTS bsp, ap1, ap2

ProcessorsAp == {ap1, ap2}
ApicIds == (bsp :> 0) @@ (ap1 :> 2) @@ (ap2 :> 5)
Entry(c, e) == [cpu |-> c, enabled |-> e]
FirmwareTables ==
  {[rsdp |-> "invalid", madt |-> <<Entry(bsp, TRUE), Entry(ap1, TRUE), Entry(ap2, TRUE)>>]}
  \cup {[rsdp |-> "valid", madt |-> madt] : madt \in
          {<<>>, <<Entry(bsp, TRUE)>>,
           <<Entry(bsp, TRUE), Entry(ap1, TRUE), Entry(ap2, TRUE)>>,
           <<Entry(bsp, TRUE), Entry(ap1, FALSE), Entry(ap2, TRUE)>>}}
=============================================================================
