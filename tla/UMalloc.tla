------------------------------ MODULE UMalloc ------------------------------
(***************************************************************************)
(* The user-space allocator: malloc and free over one list of blocks, fed  *)
(* by the heap_grow system call (libc/src/malloc.c).  A process has one    *)
(* thread, so the calls are steps.  hdr[a] is the header last written at   *)
(* offset a from the process's heap_start.                                 *)
(***************************************************************************)
EXTENDS Integers, FiniteSets, FiniteSetsExt

CONSTANTS
    HeaderSize,     \* sizeof(block_header_t)
    ChunkSize,      \* MALLOC_CHUNK_SIZE
    MaxHeap,        \* bound on the heap of one process
    Requests        \* sizes passed to malloc, none of them 0

Null == -1

VARIABLES
    hdr,            \* offset -> [size, free, next]
    heap_head,
    heap_end,       \* what heap_grow has mapped so far
    held            \* ghost: pointers malloc has returned and the program not freed

vars == <<hdr, heap_head, heap_end, held>>

Init == hdr = <<>> /\ heap_head = Null /\ heap_end = 0 /\ held = {}
-----------------------------------------------------------------------------
Set(h, a, size, free, next) ==
    [x \in DOMAIN h \cup {a} |->
        IF x = a THEN [size |-> size, free |-> free, next |-> next] ELSE h[x]]

\* The n-th block of the list.
Nth[n \in Nat] ==
    IF n = 0 THEN heap_head
    ELSE LET b == Nth[n - 1] IN IF b = Null THEN Null ELSE hdr[b].next

Listed == {n \in 0 .. MaxHeap \div HeaderSize : Nth[n] # Null}

Rounded(size) == 8 * ((size + 7) \div 8)

\* The headers after b, in use, has been cut to size where that pays.
split_block(h, b, size) ==
    LET remaining == h[b].size - HeaderSize
        new_block == b + HeaderSize + size
    IN  IF h[b].size < size + HeaderSize + 1
        THEN Set(h, b, h[b].size, FALSE, h[b].next)
        ELSE Set(Set(h, new_block, remaining, TRUE, h[b].next), b, size, FALSE, new_block)

Fits(size) == {n \in Listed : hdr[Nth[n]].free /\ hdr[Nth[n]].size >= size}

malloc(request) ==
    LET size == Rounded(request)
        b    == Nth[Min(Fits(size))]
    IN  /\ Fits(size) # {}
        /\ hdr' = split_block(hdr, b, size)
        /\ held' = held \cup {b + HeaderSize}
        /\ UNCHANGED <<heap_head, heap_end>>

\* No block is large enough: a new one at the end of the heap.
malloc_grow(request) ==
    LET size   == Rounded(request)
        needed == Max({size + HeaderSize, ChunkSize})
        fresh  == Set(hdr, heap_end, needed - HeaderSize, FALSE, Null)
        last   == Nth[Max(Listed)]
        linked == IF heap_head = Null THEN fresh ELSE [fresh EXCEPT ![last].next = heap_end]
    IN  /\ Fits(size) = {} /\ heap_end + needed <= MaxHeap
        /\ heap_end' = heap_end + needed
        /\ heap_head' = IF heap_head = Null THEN heap_end ELSE heap_head
        /\ hdr' = split_block(linked, heap_end, size)
        /\ held' = held \cup {heap_end + HeaderSize}

\* free merges forward once.
free(ptr) ==
    LET b    == ptr - HeaderSize
        next == hdr[b].next
    IN  /\ hdr' = IF next # Null /\ hdr[next].free
                  THEN Set(hdr, b, hdr[b].size + HeaderSize + hdr[next].size, TRUE, hdr[next].next)
                  ELSE Set(hdr, b, hdr[b].size, TRUE, next)
        /\ held' = held \ {ptr}
        /\ UNCHANGED <<heap_head, heap_end>>

Next ==
    \/ \E r \in Requests : malloc(r) \/ malloc_grow(r)
    \/ \E ptr \in held : free(ptr)

Spec == Init /\ [][Next]_vars
-----------------------------------------------------------------------------
\* "'next' is always the block physically immediatley after this one - there
\* are never gaps" (malloc.c): each block ends where the next one starts, and
\* the last at the end of the heap.
NeverGaps ==
    \A n \in Listed :
        LET b   == Nth[n]
            end == b + HeaderSize + hdr[b].size
        IN  IF hdr[b].next = Null THEN end = heap_end ELSE end = hdr[b].next
=============================================================================
