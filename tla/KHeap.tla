------------------------------- MODULE KHeap -------------------------------
(***************************************************************************)
(* The kernel heap: kmalloc and kfree over a linked list of block headers  *)
(* (kernel/memory/mem.c).                                                  *)
(*                                                                         *)
(* hdr[a] is the header last written at offset a of the heap; the list     *)
(* starts at offset 0.  Every caller but one runs with interrupts off or   *)
(* with IRQ0 in service, so that its call is not interleaved with another: *)
(* Kernel stands for all of these.  The exception is the kfree of sys_wait *)
(* (syscall.c), which has executed 'sti': the Waiters may be suspended in  *)
(* mid-kfree while the others use the heap.                                *)
(***************************************************************************)
EXTENDS Integers, FiniteSets, FiniteSetsExt

CONSTANTS
    HEAP_SIZE,
    HEADER_SIZE,
    Requests,       \* sizes passed to kmalloc, none of them 0
    Waiters,        \* processes that may be in sys_wait's kfree
    Kernel          \* all the uninterrupted callers

ASSUME HeapConstants ==
    /\ HEADER_SIZE \in Nat \ {0} /\ HEAP_SIZE \in Nat /\ HEAP_SIZE > HEADER_SIZE
    /\ Requests \subseteq Nat \ {0} /\ Kernel \notin Waiters

Null == -1
Callers == Waiters \cup {Kernel}
Offsets == 0 .. HEAP_SIZE - 1
Header == [size : Nat, free : BOOLEAN, next : Int]

VARIABLES
    hdr,
    heap_used,
    held,           \* ghost: what kmalloc has returned and nobody has freed yet
    pc, current,    \* where each caller is in kfree, and its walking pointer
    block,          \* the block it is freeing
    panicked

vars == <<hdr, heap_used, held, pc, current, block, panicked>>

\* mem_init: one free block.
Init ==
    /\ hdr = [a \in Offsets |-> [size |-> IF a = 0 THEN HEAP_SIZE - HEADER_SIZE ELSE 0,
                                 free |-> a = 0, next |-> Null]]
    /\ heap_used = 0
    /\ held = {}
    /\ pc = [c \in Callers |-> "idle"]
    /\ current = [c \in Callers |-> Null] /\ block = [c \in Callers |-> Null]
    /\ panicked = FALSE
-----------------------------------------------------------------------------
\* The n-th block of the list, Null past its end.
Nth[n \in Nat] ==
    IF n = 0 THEN 0
    ELSE LET b == Nth[n - 1] IN IF b \in Offsets THEN hdr[b].next ELSE Null

MaxBlocks == HEAP_SIZE \div HEADER_SIZE
Listed == {n \in 0 .. MaxBlocks : Nth[n] \in Offsets}

\* The CPU is c's: no uninterrupted caller is inside kfree.
MayRun(c) == ~panicked /\ (c # Kernel => pc[Kernel] = "idle")

Aligned(size) == IF size % 4 # 0 THEN size + 4 - (size % 4) ELSE size

\* Mutant: takes the header for usable space.
FitsWithHeader(size) ==
    {n \in Listed : hdr[Nth[n]].free /\ hdr[Nth[n]].size + HEADER_SIZE >= size}

Fits(size) == {n \in Listed : hdr[Nth[n]].free /\ hdr[Nth[n]].size >= size}

\* The headers after b has been cut to size, the rest becoming a free block.
Split(b, size) ==
    LET rest == b + HEADER_SIZE + size
    IN  [hdr EXCEPT ![rest] = [size |-> hdr[b].size - size - HEADER_SIZE, free |-> TRUE,
                               next |-> hdr[b].next],
                    ![b] = [size |-> size, free |-> FALSE, next |-> rest]]

Splits(b, size) == hdr[b].size > size + HEADER_SIZE + 4

\* Mutant: counts the block before it is split.
TakeCountedEarly(b, size) ==
    /\ hdr' = IF Splits(b, size) THEN Split(b, size) ELSE [hdr EXCEPT ![b].free = FALSE]
    /\ heap_used' = heap_used + hdr[b].size

Take(b, size) ==
    /\ hdr' = IF Splits(b, size) THEN Split(b, size) ELSE [hdr EXCEPT ![b].free = FALSE]
    /\ heap_used' = heap_used + hdr'[b].size

\* First fit.
kmalloc(request) ==
    LET size == Aligned(request)
        b    == Nth[Min(Fits(size))]
    IN  /\ MayRun(Kernel) /\ pc[Kernel] = "idle"
        /\ Fits(size) # {}
        /\ Take(b, size)
        /\ held' = held \cup {[at |-> b + HEADER_SIZE, size |-> request]}
        /\ UNCHANGED <<pc, current, block, panicked>>

kmalloc_panic(request) ==
    /\ MayRun(Kernel) /\ pc[Kernel] = "idle"
    /\ Fits(Aligned(request)) = {}
    /\ panicked' = TRUE
    /\ UNCHANGED <<hdr, heap_used, held, pc, current, block>>
-----------------------------------------------------------------------------
\* kfree, statement by statement.
kfree_mark(c, h) ==
    /\ MayRun(c) /\ pc[c] = "idle"
    /\ block' = [block EXCEPT ![c] = h.at - HEADER_SIZE]
    /\ hdr' = [hdr EXCEPT ![block'[c]].free = TRUE]
    /\ held' = held \ {h}
    /\ pc' = [pc EXCEPT ![c] = "count"]
    /\ UNCHANGED <<heap_used, current, panicked>>

kfree_count(c) ==
    /\ MayRun(c) /\ pc[c] = "count"
    /\ heap_used' = heap_used - hdr[block[c]].size
    /\ current' = [current EXCEPT ![c] = 0]
    /\ pc' = [pc EXCEPT ![c] = "walk"]
    /\ UNCHANGED <<hdr, held, block, panicked>>

AtEnd(c) == current[c] # Null => hdr[current[c]].next = Null
MayMerge(c) == hdr[current[c]].free /\ hdr[hdr[current[c]].next].free

kfree_advance(c) ==
    /\ MayRun(c) /\ pc[c] = "walk" /\ ~AtEnd(c) /\ ~MayMerge(c)
    /\ current' = [current EXCEPT ![c] = hdr[@].next]
    /\ UNCHANGED <<hdr, heap_used, held, pc, block, panicked>>

kfree_merge(c) ==
    /\ MayRun(c) /\ pc[c] = "walk" /\ ~AtEnd(c) /\ MayMerge(c)
    /\ pc' = [pc EXCEPT ![c] = "size"]
    /\ UNCHANGED <<hdr, heap_used, held, current, block, panicked>>

\* Mutant: the absorbed header is not counted.
AbsorbedDataOnly(b) == hdr[b].size + hdr[hdr[b].next].size

Absorbed(b) == hdr[b].size + HEADER_SIZE + hdr[hdr[b].next].size

kfree_size(c) ==
    /\ MayRun(c) /\ pc[c] = "size"
    /\ hdr' = [hdr EXCEPT ![current[c]].size = Absorbed(current[c])]
    /\ pc' = [pc EXCEPT ![c] = "link"]
    /\ UNCHANGED <<heap_used, held, current, block, panicked>>

\* Mutant: goes on after a merge.
LinkAndAdvance(c) ==
    /\ MayRun(c) /\ pc[c] = "link"
    /\ hdr' = [hdr EXCEPT ![current[c]].next = hdr[@].next]
    /\ current' = [current EXCEPT ![c] = hdr'[@].next]
    /\ pc' = [pc EXCEPT ![c] = "walk"]
    /\ UNCHANGED <<heap_used, held, block, panicked>>

\* "merging might allow another merge": current stays.
kfree_link(c) ==
    /\ MayRun(c) /\ pc[c] = "link"
    /\ hdr' = [hdr EXCEPT ![current[c]].next = hdr[@].next]
    /\ pc' = [pc EXCEPT ![c] = "walk"]
    /\ UNCHANGED <<heap_used, held, current, block, panicked>>

kfree_return(c) ==
    /\ MayRun(c) /\ pc[c] = "walk" /\ AtEnd(c)
    /\ pc' = [pc EXCEPT ![c] = "idle"]
    /\ current' = [current EXCEPT ![c] = Null] /\ block' = [block EXCEPT ![c] = Null]
    /\ UNCHANGED <<hdr, heap_used, held, panicked>>

Halted == panicked /\ UNCHANGED vars
Next ==
    \/ \E r \in Requests : kmalloc(r) \/ kmalloc_panic(r)
    \/ \E c \in Callers : \E h \in held : kfree_mark(c, h)
    \/ \E c \in Callers :
          \/ kfree_count(c) \/ kfree_advance(c) \/ kfree_merge(c)
          \/ kfree_size(c)  \/ kfree_link(c)    \/ kfree_return(c)
    \/ Halted

Spec == Init /\ [][Next]_vars
-----------------------------------------------------------------------------
Quiet == \A c \in Callers : pc[c] = "idle"
Blocks == {Nth[n] : n \in Listed}
After(b) == b + HEADER_SIZE + hdr[b].size

\* "[header][data][header][data]..." (mem.c): between calls the list tiles the
\* heap, each block ending where the next header is and the last one at the
\* end of the heap, whatever was split and merged before.
Layout ==
    Quiet => \A b \in Blocks :
        hdr[b].next = IF After(b) = HEAP_SIZE THEN Null ELSE After(b)

\* What two callers hold never overlaps, nor does it reach into a header of
\* the list: first fit hands out free blocks, and a split or a merge never
\* touches one in use.
HeldDisjoint ==
    \A h \in held :
        /\ \A g \in held : g # h => g.at + g.size <= h.at \/ h.at + h.size <= g.at
        /\ \A b \in Blocks : b + HEADER_SIZE <= h.at \/ h.at + h.size <= b

\* heap_used is the number of bytes in blocks that are in use.
UsedIsExact ==
    Quiet => heap_used = MapThenSumSet(LAMBDA b : hdr[b].size, {b \in Blocks : ~hdr[b].free})

\* One walk of kfree is enough: between calls no two free blocks are next to
\* each other, so that a heap whose memory has all been freed is one block.
Coalesced ==
    Quiet => \A b \in Blocks : hdr[b].free /\ hdr[b].next # Null => ~hdr[hdr[b].next].free
=============================================================================
