--------------------------- MODULE MCAddressSpace ---------------------------
(***************************************************************************)
(* Three slots, two-page regions, programs of one and two pages and files  *)
(* that cannot be loaded.                                                  *)
(***************************************************************************)
EXTENDS AddressSpace

MCPages == 0 .. 18

File(found, header, entry, pages) ==
    [found |-> found, header |-> header, entry |-> entry, pages |-> pages]

MCPrograms ==
    {File(TRUE, TRUE, TRUE, {1}), File(TRUE, TRUE, TRUE, {0, 1}),
     File(FALSE, FALSE, FALSE, {0}), File(TRUE, FALSE, TRUE, {0})}

\* Which page serves which use makes no difference to what the system does
\* next, as long as no page serves two uses and none is lost; states that
\* differ only in that are explored once.
MCView == <<[p \in Procs |-> Present(p)], status, heap_start, heap_end,
            panicked, FramesExclusive, NoPageLost>>

\* An executable whose header gives no entry point.
MCProgramsNoEntry ==
    {File(TRUE, TRUE, TRUE, {0, 1}), File(TRUE, TRUE, FALSE, {0})}
=============================================================================
