------------------------------ MODULE Context ------------------------------
(***************************************************************************)
(* Who has the CPU, and where everybody else's registers are: trap frames  *)
(* on the kernel stacks (isr.asm, syscall_entry.asm), cpu_state in the PCB *)
(* (switch.asm, usermode.asm), the stack the TSS names (tss.c), and what   *)
(* fork, exec, spawn and exit make of them.                                *)
(*                                                                         *)
(* A register stands for the ones treated alike: rbx also for rbp, rsi for *)
(* rdx, r8 for r9 and r10, r12 for r13 to r15, rsp for rip.  (r11, which   *)
(* SYSCALL overwrites by contract, is left out.)  The contents of user     *)
(* registers are symbolic; in the kernel a callee-saved register holds a   *)
(* local of the code that runs, the others nothing that lives on.          *)
(*                                                                         *)
(* Whom scheduler_tick chooses is Processes' subject: here it may choose   *)
(* anybody who is ready.  A switch is one step, as scheduler_yield is      *)
(* there; YieldWindow looks inside.  A system call may do any of the steps *)
(* below in any order.  Fields whose contents nobody relies on (cpu_state  *)
(* of a running process, user_esp outside a call) are reset, to keep the   *)
(* states few; where the code reads one all the same, it reads Junk.       *)
(***************************************************************************)
EXTENDS Integers, Sequences, Functions

CONSTANTS
    Threads,        \* kernel threads: idle and the shell
    Users,          \* processes that run programs: PIDs, which are not reused
    idle, hello,    \* the first to run, and the program loaded at boot
    Stacks,         \* pages for kernel stacks
    BootStack,      \* the stack at 0x90000 that tss_init names
    First,          \* the stacks of the processes made at boot
    Files,          \* per process: the register contents its programs compute
    Results,        \* what system calls return
    MaxFrames,      \* bound, per process: trap frames on its stack
    Zero, Junk,     \* the number 0, and a value nobody relies on
    Unknown         \* for the abstract view: not determined yet

Procs == Threads \cup Users
Regs == {"rax", "rbx", "rcx", "rsi", "rdi", "r8", "r12", "rsp"}
CpuRegs == Regs \ {"r8", "rsp"}     \* those with a field in cpu_state_t
CalleeSaved == {"rbx", "r12"}

ASSUME ContextConstants ==
    /\ Threads \cap Users = {} /\ idle \in Threads /\ hello \in Users
    /\ Stacks \subseteq Nat /\ BootStack \notin Stacks
    /\ First \in [Threads \cup {hello} -> Stacks] /\ IsInjective(First)
    /\ DOMAIN Files = Users
    /\ \A p \in Users : \A file \in Files[p] : file = [r \in Regs |-> file[r]]
    /\ MaxFrames \in [Procs -> Nat]

VARIABLES
    current,        \* current_process
    ring, iflag,    \* the CPU's privilege level and interrupt flag
    isr0,           \* PIC: IRQ0 in service
    live,           \* the CPU's registers
    on,             \* the kernel stack that rsp points into, in ring 0
    tss0,           \* tss.rsp0
    life,           \* "none", "ready", "dead", "gone" (reaped)
    stack,          \* proc->stack
    frames,         \* what lies on each stack, the oldest first
    cpu,            \* proc->cpu: registers, stack, how the process goes on
    user_esp        \* proc->user_esp and user_eip

vars == <<current, ring, iflag, isr0, live, on, tss0, life, stack, frames, cpu, user_esp>>

\* The registers while the code of p with d frames above it runs in ring 0.
Kernel(p, d) == [r \in Regs |-> IF r \in CalleeSaved THEN <<"local", p, d>> ELSE Junk]

\* f where it is defined, base elsewhere.
Over(f, base) == [r \in Regs |-> IF r \in DOMAIN f THEN f[r] ELSE base[r]]

\* For a mutant: r8 is not pushed.
FrameShort(kind, regs) == [kind |-> kind, ring |-> ring, regs |-> [regs EXCEPT !["r8"] = Junk]]

\* What the stubs push, with the privilege level in the CPU's part of it.
Frame(kind, regs) == [kind |-> kind, ring |-> ring, regs |-> regs]
\* The five words iretq pops, below them RAX for iret_to_usermode.
IretFrame(regs) == [kind |-> "iret", ring |-> 3, regs |-> regs]

NoCpu == [regs |-> [r \in CpuRegs |-> Zero], on |-> BootStack, resume |-> "none"]

\* elf_load gives a process its argc and argv, and its stack a frame with the
\* entry point and the user stack.
Loaded(s, file) ==
    [regs |-> [r \in CpuRegs |-> IF r \in {"rdi", "rsi"} THEN file[r] ELSE Zero],
     on |-> s, resume |-> "ring3"]

Existing == {p \in Procs : life[p] \in {"ready", "dead"}}
Held == {stack[p] : p \in Existing}

\* pmm_alloc: the lowest free page.
pmm_alloc(s) == s \in Stacks \ Held /\ \A t \in Stacks \ Held : s <= t

Init ==
    /\ current = idle /\ ring = 0 /\ iflag = TRUE /\ isr0 = FALSE
    /\ live = Kernel(idle, 0) /\ on = First[idle] /\ tss0 = BootStack
    /\ life = [p \in Procs |-> IF p \in DOMAIN First THEN "ready" ELSE "none"]
    /\ stack = [p \in Procs |-> IF p \in DOMAIN First THEN First[p] ELSE BootStack]
    /\ \E file \in Files[hello] :
          /\ frames = [s \in Stacks |->
                         IF s = First[hello] THEN <<IretFrame(Restrict(file, {"rsp"}))>>
                                             ELSE <<>>]
          /\ cpu = [p \in Procs |->
                      CASE p = hello -> Loaded(First[p], file)
                        [] p \in Threads \ {idle} ->
                               [NoCpu EXCEPT !.on = First[p], !.resume = "entry"]
                        [] OTHER -> NoCpu]
    /\ user_esp = [p \in Procs |-> Zero]
-----------------------------------------------------------------------------
(***************************************************************************)
(* Traps.                                                                  *)
(***************************************************************************)
\* A program runs.
Compute ==
    /\ ring = 3
    /\ live' \in Files[current]
    /\ UNCHANGED <<current, ring, iflag, isr0, on, tss0, life, stack, frames, cpu, user_esp>>

\* What is on top of the stack in use tells which code runs.
Depth == Len(frames[on])
Top == IF Depth = 0 THEN "thread" ELSE frames[on][Depth].kind
InCall == ring = 0 /\ Top = "call" /\ life[current] = "ready"
InThread == ring = 0 /\ Top = "thread" /\ current \in Threads

Deliverable == iflag /\ ~isr0

\* IRQ0 in ring 3: the CPU loads rsp from the TSS; irq_common_stub.
irq_user ==
    /\ ring = 3 /\ Deliverable
    /\ on' = tss0
    /\ frames' = [frames EXCEPT ![tss0] = <<Frame("irq", live)>>]
    /\ live' = Kernel(current, 1)
    /\ ring' = 0 /\ iflag' = FALSE /\ isr0' = TRUE
    /\ UNCHANGED <<current, tss0, life, stack, cpu, user_esp>>

\* IRQ0 in ring 0: the frame goes below what is there.
irq_kernel ==
    /\ ring = 0 /\ Deliverable /\ Depth < MaxFrames[current]
    /\ frames' = [frames EXCEPT ![on] = Append(@, Frame("irq", live))]
    /\ live' = Kernel(current, Depth + 1)
    /\ iflag' = FALSE /\ isr0' = TRUE
    /\ UNCHANGED <<current, ring, on, tss0, life, stack, cpu, user_esp>>

\* irq_handler comes to its end: a tick that switched returns here later, with
\* whatever interrupt flag it was switched in with.
pic_send_eoi ==
    /\ ring = 0 /\ Top = "irq"
    /\ frames' = [frames EXCEPT ![on][Depth].kind = "tail"]
    /\ isr0' = FALSE
    /\ UNCHANGED <<current, ring, iflag, live, on, tss0, life, stack, cpu, user_esp>>

\* The pops of irq_common_stub, iret_to_usermode and enter_ring3, and iretq.
iretq ==
    /\ ring = 0 /\ Top \in {"tail", "iret"}
    /\ live' = Over(frames[on][Depth].regs, live)
    /\ ring' = frames[on][Depth].ring
    /\ frames' = [frames EXCEPT ![on] = SubSeq(@, 1, Depth - 1)]
    /\ iflag' = TRUE
    /\ UNCHANGED <<current, isr0, on, tss0, life, stack, cpu, user_esp>>

\* SYSCALL leaves the return address in RCX, clears IF and keeps RSP;
\* syscall_entry changes to the process's own stack, syscall_handler notes
\* where the program will go on.
syscall_entry ==
    /\ ring = 3
    /\ user_esp' = [user_esp EXCEPT ![current] = live["rsp"]]
    /\ on' = stack[current]
    /\ frames' = [frames EXCEPT ![stack[current]] =
                    <<Frame("call", [live EXCEPT !["rcx"] = live["rsp"]])>>]
    /\ live' = Kernel(current, 1)
    /\ ring' = 0 /\ iflag' = FALSE
    /\ UNCHANGED <<current, isr0, tss0, life, stack, cpu>>

\* The handler has stored its result in the frame, or left RAX as it was.
sysret ==
    /\ InCall
    /\ LET regs == frames[on][Depth].regs
       IN  \E v \in Results \cup {regs["rax"]} : live' = [regs EXCEPT !["rax"] = v]
    /\ frames' = [frames EXCEPT ![on] = SubSeq(@, 1, Depth - 1)]
    /\ user_esp' = [user_esp EXCEPT ![current] = Zero]
    /\ ring' = 3 /\ iflag' = TRUE
    /\ UNCHANGED <<current, isr0, on, tss0, life, stack, cpu>>
-----------------------------------------------------------------------------
(***************************************************************************)
(* The context switch.                                                     *)
(***************************************************************************)
\* What switch_context stores: RAX as 0, and no r8.
Saved(regs) == [r \in CpuRegs |-> IF r = "rax" THEN Zero ELSE regs[r]]

\* For a mutant: r12 to r15 are left out too.
RestoredLess(regs, base) == Over(Restrict(regs, CpuRegs \ {"rdi", "r12"}), base)

\* The ring 0 restore leaves out rdi.
Restored(regs, base) == Over(Restrict(regs, CpuRegs \ {"rdi"}), base)

\* A kernel thread's first instructions set up its own locals.
Resumed(new) ==
    CASE cpu[new].resume = "entry"  -> Kernel(new, 0)
      [] cpu[new].resume = "ring0"  -> Restored(cpu[new].regs, live)
      [] cpu[new].resume = "ring3"  -> Over(cpu[new].regs, live)

\* For a mutant: the TSS keeps the stack it names.
tss_left_alone(s) == UNCHANGED tss0

tss_set_kernel_stack(s) == tss0' = s

\* The end of scheduler_tick: in a tick, or in a call or a thread that yields,
\* a dying process's call included.
switch_context(new) ==
    /\ (ring = 0 /\ Top \in {"irq", "call"}) \/ InThread
    /\ new # current /\ life[new] = "ready"
    /\ current' = new
    /\ tss_set_kernel_stack(stack[new])
    /\ cpu' = [cpu EXCEPT ![current] = [regs |-> Saved(live), on |-> on, resume |-> "ring0"],
                          ![new] = NoCpu]
    /\ live' = Resumed(new)
    /\ on' = cpu[new].on
    /\ UNCHANGED <<ring, iflag, isr0, life, stack, frames, user_esp>>

\* sti in sys_wait and process_wait, before they yield or go on.
sti ==
    /\ InCall \/ InThread
    /\ ~iflag /\ iflag' = TRUE
    /\ UNCHANGED <<current, ring, isr0, live, on, tss0, life, stack, frames, cpu, user_esp>>

\* keyboard_wait, before it yields.
keyboard_wait ==
    /\ InCall \/ InThread
    /\ isr0 /\ isr0' = FALSE
    /\ UNCHANGED <<current, ring, iflag, live, on, tss0, life, stack, frames, cpu, user_esp>>
-----------------------------------------------------------------------------
(***************************************************************************)
(* Processes come and go.                                                  *)
(***************************************************************************)
\* What sys_fork copies into the parent's cpu_state, and process_fork from there:
\* r12 to r15 are what they were when the parent was last switched out.
ForkCpu(regs) == [r \in CpuRegs |-> CASE r = "rax" -> Zero
                                      [] r = "r12" -> Junk
                                      [] OTHER     -> regs[r]]

\* sys_fork, process_fork: the child's PCB is a copy, and on its stack is a
\* frame for iret_to_usermode.  The call goes on to sysret.
sys_fork ==
    /\ InCall
    /\ \E c \in Users, s \in Stacks :
          /\ life[c] = "none" /\ pmm_alloc(s)
          /\ life' = [life EXCEPT ![c] = "ready"]
          /\ stack' = [stack EXCEPT ![c] = s]
          /\ frames' = [frames EXCEPT ![s] =
                <<IretFrame([r \in {"rax", "rsp"} |->
                                IF r = "rax" THEN Zero ELSE user_esp[current]])>>]
          /\ cpu' = [cpu EXCEPT ![c] = [regs |-> ForkCpu(frames[on][Depth].regs), on |-> s,
                                        resume |-> "ring0"]]
    /\ UNCHANGED <<current, ring, iflag, isr0, live, on, tss0, user_esp>>

\* process_exec that succeeds: a new stack, named in the TSS, the old one
\* freed, and enter_ring3, which loads argc, argv and what cpu_state still has.
\* (One that fails puts everything back and returns.)
process_exec ==
    /\ InCall
    /\ \E s \in Stacks, file \in Files[current] :
          /\ pmm_alloc(s)
          /\ stack' = [stack EXCEPT ![current] = s]
          /\ frames' = [frames EXCEPT ![stack[current]] = <<>>,
                                      ![s] = <<IretFrame(Restrict(file, {"rsp"}))>>]
          /\ live' = [r \in Regs |-> IF r \in {"rdi", "rsi"} THEN file[r] ELSE Junk]
          /\ on' = s /\ tss_set_kernel_stack(s)
    /\ UNCHANGED <<current, ring, iflag, isr0, life, cpu, user_esp>>

\* The shell's process_spawn.
process_spawn ==
    /\ InThread
    /\ \E c \in Users, s \in Stacks : \E file \in Files[c] :
          /\ life[c] = "none" /\ pmm_alloc(s)
          /\ life' = [life EXCEPT ![c] = "ready"]
          /\ stack' = [stack EXCEPT ![c] = s]
          /\ frames' = [frames EXCEPT ![s] = <<IretFrame(Restrict(file, {"rsp"}))>>]
          /\ cpu' = [cpu EXCEPT ![c] = Loaded(s, file)]
    /\ UNCHANGED <<current, ring, iflag, isr0, live, on, tss0, user_esp>>

\* sys_exit, up to its yield.
sys_exit ==
    /\ InCall
    /\ life' = [life EXCEPT ![current] = "dead"]
    /\ iflag' = TRUE
    /\ UNCHANGED <<current, ring, isr0, live, on, tss0, stack, frames, cpu, user_esp>>

\* sys_wait or process_wait frees a dead child: its stack and its PCB.
wait_reap ==
    /\ InCall \/ InThread
    /\ \E c \in Users :
          /\ life[c] = "dead" /\ c # current
          /\ life' = [life EXCEPT ![c] = "gone"]
          /\ stack' = [stack EXCEPT ![c] = BootStack]
          /\ frames' = [frames EXCEPT ![stack[c]] = <<>>]
          /\ cpu' = [cpu EXCEPT ![c] = NoCpu]
          /\ user_esp' = [user_esp EXCEPT ![c] = Zero]
    /\ iflag' = TRUE
    /\ UNCHANGED <<current, ring, isr0, live, on, tss0>>

Next ==
    \/ Compute \/ irq_user \/ irq_kernel \/ pic_send_eoi \/ iretq \/ syscall_entry \/ sysret
    \/ (\E new \in Procs : switch_context(new)) \/ sti \/ keyboard_wait
    \/ sys_fork \/ process_exec \/ process_spawn \/ sys_exit \/ wait_reap

Spec == Init /\ [][Next]_vars
-----------------------------------------------------------------------------
(***************************************************************************)
(* The abstract view: every program has a processor of its own.            *)
(***************************************************************************)
\* A program's registers are the CPU's while it runs, and in the oldest frame
\* of its stack while it does not; a process that has not started finds under
\* that frame what switch_context will load, or has loaded.
NotStarted(p) == frames[stack[p]] # <<>> /\ frames[stack[p]][1].kind = "iret"
Below(p) ==
    IF Len(frames[stack[p]]) > 1 THEN frames[stack[p]][2].regs
    ELSE IF p = current THEN live ELSE cpu[p].regs

Given == {"rdi", "rsi", "rsp"}
Lost == {"rdi", "r8", "r12"}
Undetermined(f) == IF "rax" \in DOMAIN f THEN Lost ELSE Regs \ Given

RegsOf(p) ==
    IF life[p] # "ready" THEN [r \in Regs |-> Unknown]
    ELSE IF frames[stack[p]] = <<>> THEN live
    ELSE LET f == frames[stack[p]][1].regs
         IN  IF NotStarted(p)
             THEN [r \in Regs |-> IF r \in Undetermined(f) THEN Unknown
                                  ELSE IF r \in DOMAIN f THEN f[r] ELSE Below(p)[r]]
             ELSE f

ModeOf(p) ==
    IF life[p] # "ready" THEN life[p]
    ELSE IF NotStarted(p) THEN "new"
    ELSE IF frames[stack[p]] # <<>> /\ frames[stack[p]][1].kind = "call" THEN "call"
    ELSE "user"

M == INSTANCE Machines WITH regs <- [p \in Users |-> RegsOf(p)],
                            mode <- [p \in Users |-> ModeOf(p)]

\* "Per-process kernel stacks and saved user state" (README.md): whatever
\* interrupts, switches, calls and exits of others come in between, a program
\* sees its registers change only as if it had the processor to itself.
ProgramsAreIsolated == M!Spec

\* "Any C caller of scheuler_yield() may have a live local variable in one of
\* these, and is entitled to assume it survives the call" (switch.asm): whenever
\* code of a process runs in the kernel, its callee-saved registers hold its own
\* locals of that level of nesting.
LocalsAreKept ==
    ring = 0 /\ Top # "iret" => \A r \in CalleeSaved : live[r] = Kernel(current, Depth)[r]

\* The stack the CPU uses in ring 0, and the one it would change to on an
\* interrupt from ring 3, is the current process's own, and nobody else's: not
\* freed by an exec or a reaping, not left behind by a switch.
StackIsOwn ==
    /\ ring = 0 => on = stack[current]
    /\ ring = 3 => tss0 = stack[current] /\ frames[tss0] = <<>>
    /\ \A p, q \in Existing : p # q => stack[p] # stack[q]
=============================================================================
