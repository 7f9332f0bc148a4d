------------------------------- MODULE MCPmm -------------------------------
(***************************************************************************)
(* A machine of 14 pages of 4 units laid out in the order of the real one: *)
(* null page, low pages (boot page among them), low free RAM, the BIOS     *)
(* hole, the kernel image, the bitmap, free RAM, the heap, free RAM.       *)
(***************************************************************************)
EXTENDS Pmm

MCTotalPages == 14

MCPageSize == 4

MCE820 == {[base |-> 0,  length |-> 22, usable |-> TRUE],
           [base |-> 22, length |-> 2,  usable |-> FALSE],
           [base |-> 28, length |-> 28, usable |-> TRUE]}

MCKernelImage == {7, 8}
=============================================================================
