-------------------------------- MODULE Pmm --------------------------------
(***************************************************************************)
(* The physical page allocator (kernel/memory/pmm.c): one bit per 4 KB     *)
(* page, set = used, and the counter used_pages that the statistics, the   *)
(* shell's 'mem' and /process/meminfo report.                              *)
(*                                                                         *)
(* Owners are what pages are allocated for: a process (its stack, tables   *)
(* and program), a file.  pmm_alloc is always called with interrupts off,  *)
(* or by the shell, which is not interrupted there (Processes), so it is   *)
(* one step.  So is pmm_free, except when sys_wait frees a dead child: it  *)
(* has executed 'sti', and an interrupt may land between the two           *)
(* read-modify-write instructions of pmm_free, bitmap_clear and            *)
(* used_pages--.                                                           *)
(***************************************************************************)
EXTENDS Integers, FiniteSets, FiniteSetsExt

CONSTANTS
    TotalPages,     \* highest_ram / PAGE_SIZE
    PageSize,       \* PAGE_SIZE, scaled down
    E820,           \* set of [base, length, usable]: the BIOS memory map
    BootPage,       \* 0x7C00 / PAGE_SIZE
    LowEnd,         \* 0x20000 / PAGE_SIZE: end of the range called "our kernel"
    BitmapBase,     \* PMM_BITMAP_PHYSICAL / PAGE_SIZE
    BitmapPages,    \* bitmap_pages
    HeapBase,       \* HEAP_PHYSICAL_BASE / PAGE_SIZE
    HeapPages,      \* HEAP_SIZE / PAGE_SIZE
    KernelImage,    \* pages stage 2 copies the kernel and hello.elf to
    Owners

Pages == 0 .. TotalPages - 1

ASSUME PmmConstants ==
    /\ TotalPages \in Nat /\ PageSize \in Nat \ {0}
    /\ IsFiniteSet(E820)
    /\ \A e \in E820 : /\ e.base \in Nat /\ e.length \in Nat
                       /\ e.usable \in BOOLEAN
    /\ BootPage \in Nat /\ LowEnd \in Nat
    /\ BitmapBase \in Nat /\ BitmapPages \in Nat
    /\ HeapBase \in Nat /\ HeapPages \in Nat
    /\ KernelImage \subseteq Pages
    /\ IsFiniteSet(Owners)

VARIABLES
    bitmap,         \* the pages whose bit is 1
    used_pages,
    held,           \* held[o]: pages allocated for o and not yet freed
    uncounted,      \* owners in whose pmm_free used_pages-- is still to come
    panicked        \* kpanic was called: the machine is halted

vars == <<bitmap, used_pages, held, uncounted, panicked>>
-----------------------------------------------------------------------------
\* A usable entry frees length / PAGE_SIZE pages from base / PAGE_SIZE on.
UsableEntries == {e \in E820 : e.usable}

EntryPages(e) ==
    LET first == e.base \div PageSize
    IN  first .. first + (e.length \div PageSize) - 1

ReservedAtBoot ==
    UNION {{0}, {BootPage}, 1 .. LowEnd - 1,
           BitmapBase .. BitmapBase + BitmapPages - 1,
           HeapBase .. HeapBase + HeapPages - 1}

\* The counter follows the loops of pmm_init, not the bits: every page a
\* loop visits is counted, whether or not its bit changes.
UsedAfterInit ==
    TotalPages - MapThenSumSet(LAMBDA e : e.length \div PageSize, UsableEntries)
    + 1 + 1 + (LowEnd - 1) + BitmapPages + HeapPages

\* The sum over the E820 entries is a number.
ASSUME UsedAfterInitIsInt == UsedAfterInit \in Int

BitmapAfterInit ==
    (Pages \ UNION {EntryPages(e) : e \in UsableEntries}) \cup ReservedAtBoot

pmm_init ==
    /\ bitmap = BitmapAfterInit
    /\ used_pages = UsedAfterInit

Init ==
    /\ pmm_init
    /\ held = [o \in Owners |-> {}]
    /\ uncounted = {}
    /\ panicked = FALSE
-----------------------------------------------------------------------------
bitmap_test(p) == p \notin bitmap

\* The first page, in address order, whose bit is clear.
FirstFree(p) ==
    /\ p \in Pages /\ bitmap_test(p)
    /\ \A q \in Pages : bitmap_test(q) => p <= q

Ready(o) == ~panicked /\ o \notin uncounted

\* Mutant: the page's bit is not set.
TakePageUnmarked(o, p) ==
    /\ bitmap' = bitmap
    /\ used_pages' = used_pages + 1
    /\ held' = [held EXCEPT ![o] = @ \cup {p}]

\* Mutant: the page after the one found is returned.
TakePageOffByOne(o, p) ==
    /\ bitmap' = bitmap \cup {p}
    /\ used_pages' = used_pages + 1
    /\ held' = [held EXCEPT ![o] = @ \cup {p + 1}]

\* bitmap_set, used_pages++, return the page.
TakePage(o, p) ==
    /\ bitmap' = bitmap \cup {p}
    /\ used_pages' = used_pages + 1
    /\ held' = [held EXCEPT ![o] = @ \cup {p}]

pmm_alloc(o) ==
    /\ Ready(o)
    /\ \E p \in Pages : FirstFree(p) /\ TakePage(o, p)
    /\ UNCHANGED <<uncounted, panicked>>

pmm_alloc_panic(o) ==
    /\ Ready(o)
    /\ ~\E p \in Pages : bitmap_test(p)
    /\ panicked' = TRUE
    /\ UNCHANGED <<bitmap, used_pages, held, uncounted>>

\* Mutant: no test for the null page.
Clears0(o, p) ==
    /\ p \in held[o] \cup {0}
    /\ held' = [held EXCEPT ![o] = @ \ {p}]
    /\ bitmap' = bitmap \ {p}

\* Callers pass a page of theirs or a null pointer; pmm_free ignores the null
\* page, checks nothing else, and clears the bit.
Clears(o, p) ==
    /\ p \in held[o] \cup {0} /\ p # 0
    /\ held' = [held EXCEPT ![o] = @ \ {p}]
    /\ bitmap' = bitmap \ {p}

pmm_free(o) ==
    /\ Ready(o)
    /\ \E p \in Pages : Clears(o, p)
    /\ used_pages' = used_pages - 1
    /\ UNCHANGED <<uncounted, panicked>>

\* The same call from sys_wait, in two steps.
pmm_free_clear(o) ==
    /\ Ready(o)
    /\ \E p \in Pages : Clears(o, p)
    /\ uncounted' = uncounted \cup {o}
    /\ UNCHANGED <<used_pages, panicked>>

\* Mutant: the counter is not decremented.
FreeUncounted(o) ==
    /\ ~panicked /\ o \in uncounted
    /\ uncounted' = uncounted \ {o}
    /\ UNCHANGED <<bitmap, used_pages, held, panicked>>

pmm_free_count(o) ==
    /\ ~panicked /\ o \in uncounted
    /\ used_pages' = used_pages - 1
    /\ uncounted' = uncounted \ {o}
    /\ UNCHANGED <<bitmap, held, panicked>>

Halted == panicked /\ UNCHANGED vars

Next ==
    \/ \E o \in Owners :
          \/ pmm_alloc(o)
          \/ pmm_alloc_panic(o)
          \/ pmm_free(o)
          \/ pmm_free_clear(o)
          \/ pmm_free_count(o)
    \/ Halted

Spec == Init /\ [][Next]_vars
-----------------------------------------------------------------------------
TypeOK ==
    /\ bitmap \subseteq Nat
    /\ used_pages \in Int
    /\ held \in [Owners -> SUBSET Pages]
    /\ uncounted \subseteq Owners
    /\ panicked \in BOOLEAN

\* pmm_alloc hands out a *free* page (pmm.h): no page belongs to two owners,
\* and the bit of every page in use is set, so that the next pmm_alloc cannot
\* return it again.
PagesExclusive ==
    /\ \A o \in Owners : held[o] \subseteq bitmap
    /\ \A o, w \in Owners : o # w => held[o] \cap held[w] = {}

\* Nobody is ever given a page that pmm_init set aside (step 5): the null
\* page, the boot pages, the bitmap's own pages, the kernel heap; and no
\* sequence of frees makes one of them allocatable.
ReservedStaysReserved ==
    /\ ReservedAtBoot \subseteq bitmap
    /\ \A o \in Owners : held[o] \cap ReservedAtBoot = {}

\* What pmm_init counted too much (a page its loops visit twice, a page no
\* E820 entry had freed); alloc and free never change it.
InitExcess == UsedAfterInit - Cardinality(BitmapAfterInit)

\* used_pages moves in step with the bits: after any sequence of pmm_alloc
\* and pmm_free, interrupted between the bit and the counter or not, it is
\* off by what it was off at boot and the pages just being freed, no more.
CounterDoesNotDrift ==
    used_pages = Cardinality(bitmap) + InitExcess + Cardinality(uncounted)

\* used_pages is the number of pages in use: "Pages currently allocated"
\* (pmm.c), "How many pages are in use?" (pmm.h).
UsedPagesIsExact == used_pages = Cardinality(bitmap)

\* docs/memory_map.md lists 0x100000 - 0x1FFFFF, the kernel binary, among
\* the regions reserved "before PMM allocates a single page": nobody is given
\* a page of the kernel's image.
KernelImageNeverAllocated ==
    \A o \in Owners : held[o] \cap KernelImage = {}
=============================================================================
