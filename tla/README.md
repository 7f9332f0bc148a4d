# A TLA+ verification of AcornOS

AcornOS is a small 64-bit operating system for one x86 CPU: boot loader, kernel,
drivers, four file systems, a libc and two programs. This directory holds TLA+
modules that model its kernel and parts of its libc, TLC configurations that check
small instances, and theorems checked by TLAPS for every instance. Definitions are
named after the functions they translate; `PROJECT.json` gives the source lines of
each definition, the hazards the properties answer to, and for every property a
mutation of the code that breaks it.

## The system and its parts

One CPU, no threads inside the kernel: what runs concurrently is a process in the
kernel and the interrupts that land in it. Three facts decide what can interleave
with what, and every module builds on them:

* A system call (`syscall`) and an interrupt handler run with
  interrupts off. `sys_exit`, `sys_wait` and `process_wait` turn them on again
  (`sti`) before they yield or free; nothing else does.
* `switch_context` does not restore the interrupt flag. A process that is resumed
  inside `scheduler_yield` goes on with the flag of the process it was switched
  from, not with its own.
* `irq_handler` sends the end-of-interrupt (EOI) to the interrupt controller after
  `scheduler_tick` has returned. When the tick switches to a process that did not
  leave the CPU through an interrupt, the EOI is not sent, and the controller holds
  back the timer and the keyboard until someone else sends it.

| part | source | what it does | module |
| --- | --- | --- | --- |
| processes, scheduler | `kernel/processes/process.c`, `scheduler.c` | table, run queue, switch, create, fork, wait, exec | Processes, YieldWindow, AddressSpace, Context |
| system calls | `kernel/processes/syscall.c` | exit, fork, wait, sleep, exec, files, heap | Processes, AddressSpace, Vfs |
| interrupts | `kernel/architecture/x86_64/` `idt.c`, `isr.asm`, `switch.asm`, `usermode.asm`, `syscall_entry.asm`, `pic.c`, `tss.c` | entry, EOI, context switch, kernel stacks | Processes, YieldWindow, Context, Machines |
| timer, keyboard | `drivers/timer`, `drivers/input` | ticks; one pending key, one waiter | Processes |
| kernel shell, idle | `apps/shell`, `kernel/core/kernel.c` | key loop, `run`, `hlt` | Processes |
| page allocator | `kernel/memory/pmm.c` | bitmap from the E820 map | Pmm |
| kernel heap | `kernel/memory/mem.c` | `kmalloc`, `kfree` | KHeap |
| paging, ELF loader | `paging.c`, `kernel/core/elf.c` | page tables, program images | AddressSpace |
| VFS | `file_system/vfs` | mounts, paths, descriptors | Vfs |
| shadowFS | `file_system/shadowfs` | files in RAM with a quota | Shadowfs |
| devFS, procFS | `file_system/devfs`, `file_system/procfs` | device files; files about processes | Devfs, Procfs |
| real-time clock | `drivers/rtc` | reading and converting the CMOS clock | Rtc, Calendar |
| libc | `libc/src/malloc.c`, `stdio.c` | user heap; buffered files | UMalloc, Stdio |
| display, serial, random, null | `drivers/` | output, stateless devices | none |
| boot loader, GDT, printf, strings | `boot/`, `gdt.c`, `kprintf.c`, ... | sequential set-up and formatting | none |

The timer interrupt drives the scheduler and wakes sleepers; the keyboard interrupt
wakes its one waiter; `fork`, `spawn`, `exec` and `wait` take pages from the page
allocator and PCBs from the kernel heap; a file's blocks are pages too; `fwrite`
reaches shadowFS through the system calls, and `malloc` the page allocator through
`heap_grow`.

## The modules

**Processes** is the core. `process_table`, `queue` (the ring of `next` pointers,
from `run_queue_head` on), `run_queue_tail`, `current`, `next_pid` and `pcb` are the kernel's
variables; `iflag` is the CPU's interrupt flag and `isr0` the controller's
in-service bit; `now` is the tick counter modulo `TickModulus`; `pending_key` and
`keyboard_waiting` are the keyboard driver's. `pc[p]` is where process `p` is in
the kernel, `local[p]` what `wait` or `spawn` has in its hands there. Each stretch
of code that no interrupt can enter is one action. `scheduler_remove`, which `wait` calls
with interrupts on, is a step per iteration of its walk (`walk[p]` holds `prev`, `node` and
`i`), one for `prev->next = node->next` and one for `run_queue_tail = prev`; a process that
`scheduler_add` links behind a tail that is off the ring is not in `queue`. `overlapped`
records that the ring was changed while another process was inside `scheduler_remove`. `pcb[p].resume` records how the
process left the CPU (not yet started, in an interrupt, in a yield), which decides
what its next switch-in does to `iflag` and `isr0`. Programs make any system calls
in any order; the shell runs its key loop and `run` command.

**YieldWindow** extends it with the steps inside `scheduler_yield` (`yield_walk`,
`yield_commit`, `yield_switch`) so that a timer interrupt can land between them.

**Context** is where everybody's registers are. `live` is the CPU's registers, `frames`
the trap frames on each kernel stack, `cpu` the `cpu_state` in each PCB, `tss0` the stack
the TSS names. Interrupts (nested ones too), SYSCALL and SYSRET, `switch_context`,
`enter_ring3`, `iret_to_usermode`, `fork`, `exec`, `spawn`, `exit` and reaping push, copy,
restore and drop them as the assembly does. Register contents are symbolic, and one
register stands for all that the code treats alike; whom the scheduler picks is left open.
**Machines** is the abstract side: one processor per program, whose registers change
only by the program's own instructions, by the results of its calls, and by being forked
or loaded. `ProgramsAreIsolated` says that Context implements it.

**Pmm** starts from the state `pmm_init` computes from a memory map. The free in
`sys_wait`, which runs with interrupts on, is two steps.

**AddressSpace** follows the pages of each process: kernel stack, top-level
directory, page tables, program, heap, user stack. `frame[p][use]` is the page used.
Two levels of tables stand for the four of the hardware: the three lower ones are
created and freed together, in the same order, by the same loops. The frees of a
reaping `wait` are one step each.

**KHeap** and **UMalloc** are the two allocators with their headers in memory
(`hdr[offset]`), so that a wrong size is visible as two blocks on the same bytes.
In KHeap the `kfree` of `sys_wait` is a step per memory write, all other calls run
undisturbed.

**Vfs** is the mount table, the path walk, the descriptor table and the file calls.
It extends three modules with the file systems' operations: **Shadowfs** (`inodes` and the
quota account `used`), **Devfs** (the device table as boot fills it) and **Procfs** (a
process table that changes beside the file calls, and the texts made from it). Descriptors
0 to 2 are opened on the console at boot. Byte strings are short sequences, blocks are
`SHADOWFS_BLOCK_SIZE` bytes, `UINT` is the width of positions. A path is a sequence of "/"
and pieces of names: `vfs_find_mount` compares characters, so `/temperature` begins with
the mount point `/temp` and is written in two pieces. A text of procFS is a sequence of
marks that say which process each part tells of. Which calls are made is a workload,
chosen in `Init` and fixed from then on. Where the code goes on with a pointer or an index
that is not what it takes it for, `fault` records it and the behaviour ends, since anything
may follow. A call that fails leaves the state as it was and is a stuttering step, which is
why deadlock is not checked there.

**Rtc** is a clock of `N` registers that is updated one register at a time under the
update-in-progress flag, and the reader that polls the flag and reads twice.
**Calendar** holds the conversions of `rtc.c` as operators, beside the calendar and the
chip's formats as their reference.
**Stdio** is a file with limited room that one process writes and closes through a FILE
while another reads it through a FILE of its own, an iteration of `fwrite` or `fread` at a
time. The descriptor table is the kernel's, so any program may close either descriptor
(`close_elsewhere`): `fwrite` then breaks off, `fread` returns what it has and `fclose`
returns -1. That the freed descriptor is opened again on another file is left out: bytes
would go there and nobody would be told.

`MC*` modules give the constants that a configuration cannot write down, and views
that identify states which differ only in data nobody reads again.

## What the runs check

Passing runs (all states of the instance, deadlock checked unless said otherwise):

| run | instance | what it shows |
| --- | --- | --- |
| `lifecycle` | 6 PIDs, 6 slots, a program that reads the keyboard beside the shell | run queue and table agree through every interrupt inside `scheduler_remove`, until the ring is changed while another process is in there (`QueueMatchesTable`), one process runs (`OneRunning`), no exit is missed (`NoLostExit`), `hlt` ends (`IdleCanBeWoken`), the shell's unlocked allocations are not interrupted (`ShellIsNotInterrupted`) |
| `live` | 4 PIDs, ticks modulo 2 | `ReadyRuns`, `WaitReturns`, `SleeperWakes` if programs yield, across wraps of the tick counter; the shell, alone at the keyboard, does not sleep through a key (`KeyboardSleeperIsWoken`) |
| `pages` | 14 pages, 3 owners | no page has two owners, reserved pages stay reserved, the counter does not drift, also with a free interrupted half-way |
| `address_spaces` | 3 processes, 19 pages | no page is used twice or lost, tables hang together in the middle of a reaping, the granted heap is mapped |
| `kernel_heap` | 168 bytes | the list tiles the heap, allocations are disjoint, the counter is exact, one walk coalesces everything |
| `context` | 1 kernel thread, 2 programs, 4 stacks, interrupts nested once | every program sees a processor of its own (`ProgramsAreIsolated`), kernel code finds its callee-saved registers again (`LocalsAreKept`), the stack in use and the one in the TSS are the current process's (`StackIsOwn`) |
| `file_system` | 2 descriptors beside the standard ones; either 2 files or directories in `/temp` with blocks of 2 bytes, or `/devices` and `/process` over a table of 2 processes | sizes match contents, only the last block is partial, reads return what is there, `used` covers what is allocated, the tree has no dangling or duplicate entries, contents change only by truncation or by a write, which leaves the bytes before the writer's position as they were, whatever the other descriptor has written (`WriteKeepsEarlierBytes`); the standard descriptors are the console or closed (`StandardStreams`), and a descriptor on `/process/<pid>` tells of that process or of none (`ReportsOneProcess`) |
| `rtc_read` | 3 registers of 3 values, 3 updates | a reading is a time the clock has shown (`ReadsAShownTime`), and reading ends; whatever the format, the epoch computed from it counts each day of 2000-2099 and each hour (`ReadingIsDecoded`) |
| `stdio` | buffer of 3, room of 12 | bytes accepted by `fwrite` are in the file or the buffer, in order, also when another program closes the descriptor, or `fclose` returns -1; `fread` returns them in order; buffers are not overrun; calls return |

Violations: each run checks one statement that a comment or a document makes and the
code does not keep. `PROJECT.json` quotes the statement.

| run | property | what happens |
| --- | --- | --- |
| `preemption` | `ReadyRuns` | without yielding programs: the first switch made by a tick leaves the timer in service, and the program keeps the CPU |
| `nested_tick_dead` | `DeadNeverResumes` | a tick inside `scheduler_yield`: the yield resumes a process that has exited meanwhile |
| `malloc_gaps` | `NeverGaps` | `split_block` forgets the size that stays with the block |

### Other statements the code does not keep

These have a definition in the module and no run of their own. Each is refuted within
seconds by putting it in the place of the properties
of the configuration named.

| property | configuration | what happens, and where it is said otherwise |
| --- | --- | --- |
| `KeyboardSleeperIsWoken` | `Processes_lifecycle` | `keyboard_wait` (`keyboard.c:115`) overwrites the one waiter: of two readers the first is not woken; "blocks until keypress" (`keyboard.c:128`) |
| `KeyboardWaiterIsLive` | `Processes_lifecycle` | a program that reads with interrupts on (the flag is inherited) is interrupted by the key between its look at `pending_key` and `keyboard_wait`, and blocks with the key pending; the exit of a child wakes it, it takes the key and returns, and `keyboard_waiting` still names it; "Wake the process that was waiting for input" (`keyboard.c:78`) |
| `QueueIsSound` | `Processes_lifecycle` | `sys_wait` unlinks a dead child that is the tail and a tick comes before `run_queue_tail = prev` (`scheduler.c:97`, `106`); the shell runs a program, which `scheduler_add` links behind the unlinked PCB: it is in the table and never on the ring; "Adds a process to the end of the run queue" (`scheduler.c:35`) |
| `OwnContext` | `YieldWindow_dead` | a tick between `current_process = new` (`scheduler.c:231`) and `switch_context` saves one process's context in another's PCB; a C caller "is entitled to assume it survives the call" (`switch.asm:69-71`) |
| `KernelImageNeverAllocated` | `Pmm_alloc` | `pmm.c:139` reserves 0x0-0x1FFFF as the kernel, which is at 1 MB; `docs/memory_map.md:552-573` lists 0x100000 as reserved |
| `UsedPagesIsExact` | `Pmm_alloc` | `pmm.c:134` counts each page a loop visits, some twice; "Pages currently allocated" (`pmm.c:19`) |
| `FailedExecChangesNothing` (PROPERTY) | `AddressSpace_pages`, `Procs = {1, 2}`, `LastVa = 5`, `Programs <- MCProgramsNoEntry` | entry point 0 is taken for a failed load after `elf_load` has set the heap limits (`process.c:682`); "a failed load leaves the calling process exactly as it was" (`process.c:627`) |
| `Layout` | `KHeap_calls`, `Waiters = {w}`, `Requests = {8, 20}`, no VIEW | the `kfree` of `sys_wait` runs with interrupts on (`syscall.c:219`): when a tick suspends it inside the merge (`mem.c:159-162`) and another process allocates, it goes on to link a block that is no longer free to the wrong successor; "Both this block and the next are free" (`mem.c:156`) |
| `ProgramsAreIsolated` | `Context_isolation`, with `Lost` in Context reduced to `{"r8"}` | `sys_fork` does not copy r12 to r15 (`syscall.c:165-174`), and `switch_context`, which starts the child, does not load rdi: the child loses rdi, r8 to r10 and r12 to r15; "SYSCALL clobbers RCX (return RIP) and R11 (saved RFLAGS)" (`libc/include/acorn/syscall.h:25`), and the clobber lists below it name no others |
| `StdioForEveryProcess` | `Vfs_temp` | the table is the kernel's, so a `close(1)` of one program (`vfs.c:545`) closes it for all; "Set up fd 0/1/2 (stdin/stdout/stderr) for every process" (`kernel.c:278`) |
| `SeekSetIsAbsolute` | `Vfs_temp` | `SEEK_SET` adds to the position (`vfs.c:606`); "Seek from the start of the file" (`vfs.h:31`) |
| `WritesAtPosition` | `Vfs_temp` | writes append (`shadowfs.c:567`); "Write size bytes to file at current position" (`vfs.h:80`) |
| `DataWithinQuota` | `Vfs_temp`, `SHADOWFS_BLOCK_SIZE = 8`, `UINT = 64` | a block charges its header and not its page (`shadowfs.c:621`); "Maximum bytes this mount can use" (`shadowfs.h:106`) |
| `UsedIsExact` | `Vfs_temp` | delete refunds no block (`shadowfs.c:407`); "Bytes currently in use including block overhead" (`shadowfs.h:110`) |
| `WriteOnlyIsNotRead` | `Vfs_temp` | the flag word is compared as a whole (`vfs.c:567`); "Open for writing only" (`vfs.h:23`) |
| `UnionFollowsType` | `Vfs_temp` | a file can be created below a file (`vfs.c:382`); "Used when inode->type == VFS_TYPE_DIR" (`shadowfs.h:94`) |
| `DescriptorHasInode` | `Vfs_temp` | delete frees an inode that is open (`shadowfs.c:404`); "Which file does this descriptor refer to" (`vfs.h:137`) |
| `ClosedMeansWritten` | `Stdio_buffers`, `Room = 4`, `MaxAccepted = 7` | a short write counts as complete (`stdio.c:250`); "Returns 0 on success, -1 on failure" (`stdio.h:24`) |

Three more are plain from the code: in 12-hour mode `rtc.c:120` exchanges 12 AM and 12 PM
(`ReadingIsDecoded` leaves these two hours out); `kmalloc` panics when no block fits
(`mem.c:129`), where `mem.h:19` says that it returns 0; and the index in `process_table` is
not the PID once a slot has been reused, as `process.h:95` says it is.

### Bounds

* Processes: six slots hold the three boot processes and three more, so a program can
  reap its child while the shell starts another program, slots are reused, and the table
  can fill up. Programs make the calls that change the ring or the table in
  `lifecycle`, all calls in `live`. A time slice of 2 has a tick that
  ends it and one that does not; `TickModulus` 2 makes the counter wrap while someone
  sleeps.
* Pmm: the 14 pages have every kind of range `pmm_init` knows, partly overlapping and
  not page-aligned; memory runs out.
* AddressSpace: 19 pages do not suffice for three processes with heaps; regions of two
  pages and odd increments put page and region boundaries inside programs and heaps.
* KHeap: real header size; requests that need rounding, that leave a rest just too
  small to split, and that only fit a coalesced block.
* Context: four stacks let a program exec while everybody else lives, and a freed stack be
  used again; a program can be interrupted in a system call, and a kernel thread once. The
  proofs have no bound on the nesting (`MaxFrames` is any number).
* Vfs, in `/temp`: a file can be longer than a block, the quota is reached, a position can
  lie past the end and near the wrap of the position's width, both descriptors can refer to
  one file, an inode's memory is reused. In `/devices` and `/process`: three PIDs over two
  slots, so a slot is used again while a descriptor is open on its former process; texts
  are longer and shorter than a read; standard descriptor 1 is closed and others opened.
* Rtc: the reader is delayed by at most `MaxUpdates` updates. Delayed by a full cycle of
  a register, it could read the same value twice and be wrong; the real registers cycle
  in a minute at least.
* Stdio: items shorter and longer than the buffer, reads that end inside it.

### Fairness

`KernelFairness` (Processes): a process that gets the CPU again and again executes its
kernel code, since many instructions run between two ticks, and the controller keeps a
timer request until it can deliver it, hence strong fairness. Nothing is assumed of
programs, and `preemption` shows that this is not enough. `Cooperation` adds that every
program yields from time to time; the `live` run needs it. `Rtc` assumes that the reader
and the clock's updates go on; `Stdio` that a loop that has been entered is executed.

## What is proved

The theorems hold for every value of the constants that satisfies the modules' named
assumptions (`ProcessesConstants`, `PmmConstants` with `UsedAfterInitIsInt`,
`AddressSpaceConstants`, `ContextConstants`, `HeapConstants`, `RtcConstants`,
`StdioConstants`), which TLC evaluates in the runs as well. Where a theorem needs more, it says so in its statement; those hypotheses
are explained below, each with what TLC finds without it.

**ProcessesProofs**: `TypeCorrect`, `OnlyCurrentRuns`, `NoExitIsLost`, `IdleIsWoken`.
None of these is inductive. `NoLostExit`, for instance,
needs to know that whoever is about to block in `wait` has interrupts off, that a dying process
finds its parent in the table, and that a process being created or reaped is in the
hands of exactly one other. The inductive invariant `IInv` therefore adds:

* `QueueInv`: the queue is injective, holds the idle process and the current one, and
  is part of the table;
* `IdleInv`, `ShellInv`: how the idle process and the shell can have left the CPU, and
  so what their next switch-in does to the interrupt flag and the in-service bit;
* `FamilyInv`: parents and PIDs that are not yet in use;
* `HandInv`: what a process between two steps of `spawn` or `wait` holds;
* `CurrentInv`: the current process is not RUNNING only on its way into a yield.

There is a lemma for each action or group of alike actions; the tick and the yield
share `RescheduleInv`, which rests on `WalkFinds` (the walk around the ring ends at a
runnable process, and comes back to its start only in the idle process). These theorems
are about `Processes`, where `scheduler_yield` is not interrupted. That a dead process
never runs again is not among them: `nested_tick_dead` refutes it.

**ProcessesTable**: `QueueFollowsTable`, `ShellRunsUninterrupted`,
`KeyIsNotMissed`, `WaiterIsLive`. That the queue and the table agree rests, of all things,
on the shell not being interrupted: `process_create` finds a free slot in one step and
stores into it in another, and a `fork` in between would take the same slot. Nothing in
the code keeps interrupts away from the shell there; what does is the order of the run
queue. `TInv` adds to `IInv`:

* `HeadInv`: the idle process, `hello` and the shell stay the first three of the queue;
* `ServiceInv`: the shell gets the CPU only from these two, with the timer interrupt that
  took it from the idle process still in service, and keeps it so until `keyboard_wait`
  sends the EOI;
* `SlotInv`, `DeadInv`, `TableInv`: the slot a process has in hand is its child's, what is
  unlinked is dead, each process has one slot, and what is off the queue is in hand.

`QueueFollowsTable` needs `RingInv` besides: as long as nothing has overlapped, nobody else
is inside `scheduler_remove` when the ring changes, so that

* `WalkInv`: the walk's `prev` and `node` are neighbours on the ring, the `i`-th ones, and
  what it looks for is still ahead (so it ends before `MaxProcesses` iterations:
  `NeverGivesUp` counts the ring against the table's slots);
* `TailInv`: `run_queue_tail` is the last process of the ring, except between the two
  stores of `scheduler_remove`, where `walk.prev` is;
* `MemberInv`: what is in the table and off the ring is in the hands of one process.

The first two theorems assume `hello \notin Readers`: the program `hello` does not read
the keyboard (`apps/hello/hello.c` reads files only). If it did, it would send the EOI in
`keyboard_wait`, and TLC finds the shell interrupted between finding a slot and filling it
and a fork that takes it. The two about the keyboard assume that the shell alone reads it
(`Readers \cap Pids = {}`, no program in `apps/` does); `KbInv` says that the shell's look at
`pending_key`, its registration and its blocking are not interrupted. With a second reader
both fail, see the table above.

**PmmProofs**: `TypeCorrect`, `ReservedIsSafe`, `PagesAreExclusive`, `CounterIsStable`,
for any memory map and any number of owners. The last needs that the bitmap is finite
(`DriftInv`) and `PagesExclusive`, because freeing a page that was already free would
move the counter and not the bitmap.

**AddressSpaceProofs**: `TypeCorrect`, `PagesHaveOneUse`, `TablesHangTogether`,
`HeapStaysMapped`, `EveryPageComesBack`, for any number of processes, pages and programs.
For the first three, the inductive invariant joins the three with
`LiveHasDirectory` (a live process has its top-level directory, so a mapping has
something to hang from). `MapExclusive` and `MapTables` say what a successful mapping
does to exclusiveness and to the tables; each operation is then one lemma. `HeapIsMapped`
is inductive beside these. `EveryPageComesBack` needs `KInv`, which adds that the break of a
live process is above all its pages but the stack (`HeapIsAbove`, so that growth overwrites no
mapping) and that a free slot holds no page (`FreeSlotIsEmpty`). It assumes `EntryGiven`: every
program names an entry point, as the linker scripts' `ENTRY(_start)` makes it. A program with
entry point 0 is loaded to the end and then refused; its heap limits stay with the old
directory, the next `heap_grow` maps over pages in use, and TLC finds those lost.

**KHeapProofs**: `BlocksTile`, `MemoryIsApart`, `UsageIsExact`, `OneWalkCoalesces`, for every
heap, header and request size, if nobody is suspended inside `kfree` (`Waiters = {}`), and
`SoundWhenAlone`, all four for any number of processes in `sys_wait`, as long as no other
process runs while one is in `kfree` (`Alone`). Without that `Layout` fails, see the table
above. The invariant names the set `S` of block offsets instead of following the list:
`Chain(hdr, S)` says that each block's `next` is in `S` (or none) and that no block of `S` lies
inside another, and `BlocksAre` that then the list, walked from offset 0, is `S`. `HeapInv`
says for the steps of `kfree`, too, what sizes add up to, which free pairs can be left
(none before `current`), and which block `heap_used` still counts. `ChainSplit` and `ChainMerge`
are what `kmalloc` and `kfree` do to the list.

**ContextProofs**: `LocalsSurvive` and `StacksAreOwn`, for any number of processes, stacks,
register contents and nested interrupts. The inductive invariant `IInv` adds to the types:

* `CurrentInv`: the CPU is on the current process's stack, the TSS names it if that process
  is a program, and a program is in ring 3 exactly when its stack is empty;
* `StackInv`: processes that exist have stacks of their own;
* `FramesInv`: a stack holds at its bottom the program's way back to ring 3 and above it only
  frames of interrupts in the kernel, each with the locals of the code it interrupted;
* `AwayInv`: a process that is ready and not running left in its `cpu_state` what its way
  of being resumed needs;
* `CallInv`: in a system call `user_esp` is the caller's stack pointer.

Its second part proves `Isolation`, that is `Spec => ProgramsAreIsolated`. A program's
registers are looked up where they are: in the CPU, in the bottom frame of its stack, or,
for one not yet started, in what `switch_context` will load (`RegsOf`; `ModeOf` says which).
The two views depend only on a process's own life, stack, frames and context (`Views`), so a
step that touches none of these is a stutter for it (`OtherKept`), whoever runs. What is left is
one lemma per action: a trap or a switch changes no view, and a call, a return, a fork, an
exec, a spawn, a start, an exit and a reaping are each the step of Machines of that name.
Registers are the ones that the abstract side promises: a forked child is promised nothing
about those in `Lost`.

**RtcProofs**: `StableReading`, for any number of registers and any radix, if the clock does
not advance `Radix` times while `rtc_read` runs (`MaxUpdates < Radix`; the seconds, which
cycle fastest, take a minute). `IInv` says that there is a history `t` of the times since
the call, in which a register counts at most once per update (`Counts`), and an update `b`
at which the second pass began: what the first pass has read was shown at some time up to
`b`, what the second has read at some time from `b` on. During an update a register has its
old or its new value (`RegsInv`), and no pass begins in one. A register that was equal in both
passes has not counted in between, unless it went once around, so it had that value at
`b`, and the reading is the time at `b`. The run goes one update beyond the hypothesis.

**StdioProofs**: `BuffersNeverOverrun` and `ReadsAreInOrder`, for every buffer size, every
item and every size of a read, and also when writes are short; `WritesAreKept`, if the quota has
room for what is written (`MaxAccepted <= Room`). Without that the last fails: `fwrite` takes
the buffer to be empty after a short write. `ReadInOrder` needs `FileInv`, that no
position is past the end of the file, since a file that only grows keeps its beginning
(`BeginningStays`); `AcceptedIsKept` needs that what the current `fwrite` has yet to copy is
within the room too, and that nothing is written once `fclose` has begun (`KeptInv`), so that
each `write` takes the whole buffer (`WriteFacts`) or fails and leaves it where it is.

## What is only model-checked

* Liveness (`ReadyRuns`, `WaitReturns`, `SleeperWakes`, `Returns`, `CallsReturn`):
  fairness is out of the prover's reach.
* Properties of lists and byte strings that are computed by recursion or folds: UMalloc,
  Shadowfs, Vfs, Procfs, Calendar. The library's induction theorems take an operator as a
  parameter, which the installed provers cannot instantiate. KHeapProofs gets around it
  where one number is enough: `Induct` is induction over a set of naturals, from which come
  functions defined by recursion (`IteratesExist`), sums over a finite set (`SumExists`) and
  what the walk along the list reaches.

## What is not modelled

* What a device's read and write return (the keyboard is in Processes, the clock in Rtc), the
  wording of procFS's texts, and the length of the buffer for one path component.
* The heap that devFS's and procFS's inodes take: every lookup allocates one and none is freed.
* Memory below the trap frames: nested interrupts deepen a kernel stack without a limit in
  the code, and a stack is one page; Context counts frames and not bytes.
* The shell's line editing and its printing commands; the display and the uptime in it.
* `kmalloc` failing: it panics, so the error paths of its callers cannot be reached.
* Programs whose segments share a page (the linker scripts here do not make any) and,
  outside `MCProgramsNoEntry`, programs with entry point 0.
* Boot loader, descriptor tables, serial port, `printf`, string functions: sequential code
  without state that a property relates to another part.

## Plan

1. Shell line editing over the display's cursor, with the clock drawn by the timer.
2. Composition: `wait` reaping through Processes, AddressSpace and KHeap in one module;
   Stdio over Vfs; an abstract allocator that Pmm implements.
3. Proofs: the parts of Vfs that do not depend on folds.
