------------------------------ MODULE MCKHeap ------------------------------
(***************************************************************************)
(* The real header size and alignment, a heap of five smallest blocks.     *)
(***************************************************************************)
EXTENDS KHeap

\* A header that has left the list is written before it is read again: states
\* that differ only in such headers are explored once.
MCView == <<[a \in Blocks |-> hdr[a]], heap_used, held, pc, current, block, panicked>>
=============================================================================
