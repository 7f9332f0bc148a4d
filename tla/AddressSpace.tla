---------------------------- MODULE AddressSpace ----------------------------
(***************************************************************************)
(* Which process owns which physical page: address spaces, kernel stacks   *)
(* and heaps through process_spawn, fork, exec, heap growth, exit and the  *)
(* reaping wait (kernel/architecture/x86_64/paging.c, kernel/core/elf.c,   *)
(* process.c, syscall.c).                                                  *)
(*                                                                         *)
(* A process uses pages for its kernel stack, its PML4, the tables of each *)
(* region it maps something in (PDPT, PD and PT are one table here), and   *)
(* its program, heap and user stack.  frame[p][use] is the page, None when *)
(* the entry is not present.  System calls run with interrupts off and are *)
(* one step; the frees of sys_wait, which has executed 'sti', are one step *)
(* a page.                                                                 *)
(***************************************************************************)
EXTENDS Integers, FiniteSets, FiniteSetsExt, Functions

CONSTANTS
    Procs,          \* slots of the process table
    Pages,          \* the pages pmm_init leaves free, a set of numbers
    RegionSize,     \* pages one page table maps (512)
    LastVa,         \* bound: user pages are 0 .. LastVa, the last is the stack
    PageSize,       \* PAGE_SIZE, scaled down
    Programs,       \* files: [found, header, entry : BOOLEAN, pages : vas]
    Increments,     \* arguments of heap_grow
    None

Vas == 0 .. LastVa
StackVa == LastVa
RegionOf(v) == v \div RegionSize
Regions == {RegionOf(v) : v \in Vas}

kstack == <<"kstack", 0>>
pml4 == <<"pml4", 0>>
Page(v) == <<"page", v>>
Table(r) == <<"table", r>>
Uses == {kstack, pml4} \cup {Page(v) : v \in Vas} \cup {Table(r) : r \in Regions}

ASSUME AddressSpaceConstants ==
    /\ RegionSize \in Nat \ {0} /\ LastVa \in Nat /\ PageSize \in Nat \ {0}
    /\ Pages \subseteq Nat /\ None \notin Nat
    /\ Increments \subseteq Nat \ {0}
    /\ Programs \subseteq [found : BOOLEAN, header : BOOLEAN, entry : BOOLEAN,
                           pages : (SUBSET (Vas \ {StackVa})) \ {{}}]

VARIABLES
    free,           \* pages whose bit is clear
    frame,
    status,         \* "none", "live", or "dead" (exited, until reaped)
    heap_start, heap_end,
    panicked

vars == <<free, frame, status, heap_start, heap_end, panicked>>

Init ==
    /\ free = Pages
    /\ frame = [p \in Procs |-> [u \in Uses |-> None]]
    /\ status = [p \in Procs |-> "none"]
    /\ heap_start = [p \in Procs |-> 0] /\ heap_end = [p \in Procs |-> 0]
    /\ panicked = FALSE
-----------------------------------------------------------------------------
\* The order in which paging_free_directory and the pmm_free after it visit
\* what a process uses: a table after the pages it maps, the PML4 after the
\* tables, the kernel stack last.
Position(u) ==
    CASE u[1] = "page"   -> RegionOf(u[2]) * (RegionSize + 1) + (u[2] % RegionSize)
      [] u[1] = "table"  -> u[2] * (RegionSize + 1) + RegionSize
      [] u[1] = "pml4"   -> (LastVa + 1) * (RegionSize + 1)
      [] u[1] = "kstack" -> (LastVa + 1) * (RegionSize + 1) + 1

\* pmm_alloc takes the lowest free page each time; which use gets which of
\* them does not matter.
FirstFit(uses) ==
    [u \in uses |->
        CHOOSE f \in free :
            Cardinality({g \in free : g < f}) =
            Cardinality({w \in uses : Position(w) < Position(u)})]

\* There is a free page for each of them.
Enough(uses) == Cardinality(uses) <= Cardinality(free)
Allocated(f) == IsInjective(f) /\ \A u \in DOMAIN f : f[u] \in free

Present(p) == {u \in Uses : frame[p][u] # None}

\* The tables get_pt_entry has to create to map the pages vs.
TablesFor(vs) == {Table(RegionOf(v)) : v \in vs}

\* Entries set in a directory: map_page_in overwrites what was there.
Mapped(old, f) ==
    [u \in Uses |-> IF u \in DOMAIN f THEN f[u] ELSE old[u]]

EmptyDirectory == [u \in Uses |-> None]

\* Everything elf_load and its caller allocate for a program.
NewImage == {kstack, pml4}
Image(prog) ==
    LET vs == prog.pages \cup {StackVa}
    IN  NewImage \cup {Page(v) : v \in vs} \cup TablesFor(vs)

\* elf_load goes through to the end; its result is the entry point, and 0
\* means failure to the callers.
Built(prog) == prog.found /\ prog.header
Loads(prog) == Built(prog) /\ prog.entry

\* The pages taken before elf_load_from_path returns.
TakenFor(prog) == IF Built(prog) THEN Image(prog) ELSE NewImage

\* The heap starts after the highest page of the program.
HeapStart(prog) == PageSize * (Max(prog.pages) + 1)
-----------------------------------------------------------------------------
process_spawn(p, prog) ==
    LET f == FirstFit(Image(prog))
    IN  /\ ~panicked /\ status[p] = "none" /\ Loads(prog)
        /\ Enough(Image(prog)) /\ Allocated(f)
        /\ free' = free \ Range(f)
        /\ frame' = [frame EXCEPT ![p] = Mapped(EmptyDirectory, f)]
        /\ status' = [status EXCEPT ![p] = "live"]
        /\ heap_start' = [heap_start EXCEPT ![p] = HeapStart(prog)]
        /\ heap_end' = [heap_end EXCEPT ![p] = HeapStart(prog)]
        /\ UNCHANGED panicked

\* The half-built process is torn down again.
process_spawn_fail(p, prog) ==
    LET f == FirstFit(TakenFor(prog))
    IN  /\ ~panicked /\ status[p] = "none" /\ ~Loads(prog)
        /\ Enough(TakenFor(prog)) /\ Allocated(f)
        /\ free' = (free \ Range(f)) \cup Range(f)
        /\ UNCHANGED <<frame, status, heap_start, heap_end, panicked>>

\* Mutant: the child's directory refers to the parent's pages.
ForkShared(p, c) ==
    /\ ~panicked /\ status[p] = "live" /\ status[c] = "none"
    /\ frame' = [frame EXCEPT ![c] = frame[p]]
    /\ status' = [status EXCEPT ![c] = "live"]
    /\ heap_start' = [heap_start EXCEPT ![c] = heap_start[p]]
    /\ heap_end' = [heap_end EXCEPT ![c] = heap_end[p]]
    /\ UNCHANGED <<free, panicked>>

\* process_fork, paging_deep_copy_directory: a page for each of the parent's.
process_fork(p, c) ==
    LET f == FirstFit(Present(p))
    IN  /\ ~panicked /\ status[p] = "live" /\ status[c] = "none"
        /\ Enough(Present(p)) /\ Allocated(f)
        /\ free' = free \ Range(f)
        /\ frame' = [frame EXCEPT ![c] = Mapped(EmptyDirectory, f)]
        /\ status' = [status EXCEPT ![c] = "live"]
        /\ heap_start' = [heap_start EXCEPT ![c] = heap_start[p]]
        /\ heap_end' = [heap_end EXCEPT ![c] = heap_end[p]]
        /\ UNCHANGED panicked

\* The old image is freed once the new one is complete.
process_exec(p, prog) ==
    LET f   == FirstFit(Image(prog))
        old == {frame[p][u] : u \in Present(p)}
    IN  /\ ~panicked /\ status[p] = "live" /\ Loads(prog)
        /\ Enough(Image(prog)) /\ Allocated(f)
        /\ free' = (free \ Range(f)) \cup old
        /\ frame' = [frame EXCEPT ![p] = Mapped(EmptyDirectory, f)]
        /\ heap_start' = [heap_start EXCEPT ![p] = HeapStart(prog)]
        /\ heap_end' = [heap_end EXCEPT ![p] = HeapStart(prog)]
        /\ UNCHANGED <<status, panicked>>

\* Mutant: the rollback forgets the new kernel stack.
ExecFailLeaks(p, prog) ==
    LET f == FirstFit(TakenFor(prog))
    IN  /\ ~panicked /\ status[p] = "live" /\ ~Loads(prog)
        /\ Enough(TakenFor(prog)) /\ Allocated(f)
        /\ free' = free \ {f[kstack]}
        /\ UNCHANGED <<frame, status, heap_start, heap_end, panicked>>

\* process_exec restores the stack and the directory and frees the new ones.
\* What elf_load has written into the PCB before it returned 0 stays.
process_exec_fail(p, prog) ==
    LET f == FirstFit(TakenFor(prog))
    IN  /\ ~panicked /\ status[p] = "live" /\ ~Loads(prog)
        /\ Enough(TakenFor(prog)) /\ Allocated(f)
        /\ free' = (free \ Range(f)) \cup Range(f)
        /\ IF Built(prog)
           THEN /\ heap_start' = [heap_start EXCEPT ![p] = HeapStart(prog)]
                /\ heap_end' = [heap_end EXCEPT ![p] = HeapStart(prog)]
           ELSE UNCHANGED <<heap_start, heap_end>>
        /\ UNCHANGED <<frame, status, panicked>>

RoundUpDown(addr) == addr \div PageSize   \* mutant: rounds down

\* The number of the first page not below addr.
RoundUp(addr) == (addr + PageSize - 1) \div PageSize

\* The pages sys_heap_grow maps.
HeapPages(p, inc) == RoundUp(heap_end[p]) .. RoundUp(heap_end[p] + inc) - 1

GrowthUses(p, inc) ==
    {Page(v) : v \in HeapPages(p, inc)}
    \cup (TablesFor(HeapPages(p, inc)) \ Present(p))

\* The heap stays below the stack: the bound LastVa.
sys_heap_grow(p, inc) ==
    LET f == FirstFit(GrowthUses(p, inc))
    IN  /\ ~panicked /\ status[p] = "live"
        /\ HeapPages(p, inc) \subseteq Vas \ {StackVa}
        /\ Enough(GrowthUses(p, inc)) /\ Allocated(f)
        /\ free' = free \ Range(f)
        /\ frame' = [frame EXCEPT ![p] = Mapped(@, f)]
        /\ heap_end' = [heap_end EXCEPT ![p] = @ + inc]
        /\ UNCHANGED <<status, heap_start, panicked>>

sys_exit(p) ==
    /\ ~panicked /\ status[p] = "live"
    /\ status' = [status EXCEPT ![p] = "dead"]
    /\ UNCHANGED <<free, frame, heap_start, heap_end, panicked>>

\* Mutant: tables are freed before the pages they map.
FreesNextTopDown(p, u) ==
    /\ u \in Present(p)
    /\ \A w \in Present(p) : Position(w) <= Position(u)

\* Mutant: the present bit is not tested.
FreesNextAny(p, u) ==
    \A w \in Present(p) : Position(u) <= Position(w)

\* The next page the wait loop frees for the dead process p.
FreesNext(p, u) ==
    /\ u \in Present(p)
    /\ \A w \in Present(p) : Position(u) <= Position(w)

\* paging_free_directory and pmm_free(stack), page by page.
wait_free(p) ==
    /\ ~panicked /\ status[p] = "dead"
    /\ \E u \in Uses :
          /\ FreesNext(p, u)
          /\ free' = free \cup {frame[p][u]}
          /\ frame' = [frame EXCEPT ![p][u] = None]
    /\ UNCHANGED <<status, heap_start, heap_end, panicked>>

\* process_table[i] = 0; kfree(child).
wait_done(p) ==
    /\ ~panicked /\ status[p] = "dead" /\ Present(p) = {}
    /\ status' = [status EXCEPT ![p] = "none"]
    /\ UNCHANGED <<free, frame, heap_start, heap_end, panicked>>

\* What p's next allocating call may ask for.
Demands(p) ==
    CASE status[p] = "none" -> {TakenFor(prog) : prog \in Programs}
      [] status[p] = "live" ->
            {Present(p)} \cup {TakenFor(prog) : prog \in Programs}
            \cup {GrowthUses(p, inc) : inc \in Increments}
      [] OTHER              -> {}

\* pmm_alloc finds no free page: kpanic.
pmm_alloc_panic ==
    /\ ~panicked
    /\ \E p \in Procs : \E uses \in Demands(p) :
          ~Enough(uses)
    /\ panicked' = TRUE
    /\ UNCHANGED <<free, frame, status, heap_start, heap_end>>

Halted == panicked /\ UNCHANGED vars

Next ==
    \/ \E p \in Procs, prog \in Programs :
          \/ process_spawn(p, prog) \/ process_spawn_fail(p, prog)
          \/ process_exec(p, prog)  \/ process_exec_fail(p, prog)
    \/ \E p, c \in Procs : process_fork(p, c)
    \/ \E p \in Procs, inc \in Increments : sys_heap_grow(p, inc)
    \/ \E p \in Procs : sys_exit(p) \/ wait_free(p) \/ wait_done(p)
    \/ pmm_alloc_panic \/ Halted

Spec == Init /\ [][Next]_vars
-----------------------------------------------------------------------------
TypeOK ==
    /\ free \subseteq Pages
    /\ frame \in [Procs -> [Uses -> Pages \cup {None}]]
    /\ status \in [Procs -> {"none", "live", "dead"}]
    /\ heap_start \in [Procs -> Nat] /\ heap_end \in [Procs -> Nat]
    /\ panicked \in BOOLEAN

\* No page is used twice, by two processes or twice by one, and no page in
\* use is free: fork really copies, exec frees the old image only, and a page
\* that sys_wait has freed is not referred to by what is still to be freed.
FramesExclusive ==
    /\ \A p \in Procs, u \in Uses : frame[p][u] \notin free
    /\ \A p, q \in Procs, u, w \in Uses :
          frame[p][u] = frame[q][w] /\ frame[p][u] # None => p = q /\ u = w

\* No page is lost: each is free or in some process's address space, so that
\* everything comes back when the last process has been waited for, after
\* failed loads too.
NoPageLost ==
    \A f \in Pages : f \in free \/ \E p \in Procs, u \in Uses : frame[p][u] = f

\* The page tables hang together, also while sys_wait is taking them apart
\* and may be interrupted: a mapped page has its table, a table its PML4.
TablesPresent ==
    \A p \in Procs :
        /\ \A v \in Vas : Page(v) \in Present(p) => Table(RegionOf(v)) \in Present(p)
        /\ \A r \in Regions : Table(r) \in Present(p) => pml4 \in Present(p)

\* What heap_grow has given to malloc is mapped, whatever the sizes asked for.
HeapIsMapped ==
    \A p \in Procs : status[p] = "live" =>
        \A v \in Vas : heap_start[p] <= PageSize * v /\ PageSize * v < heap_end[p]
            => Page(v) \in Present(p)

\* "a failed load leaves the calling process exactly as it was" (process.c).
FailedExecChangesNothing ==
    [][\A p \in Procs, prog \in Programs :
            process_exec_fail(p, prog) => UNCHANGED <<frame, heap_start, heap_end>>]_vars
=============================================================================
