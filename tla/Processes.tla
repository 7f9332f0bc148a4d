----------------------------- MODULE Processes -----------------------------
(***************************************************************************)
(* Process lifecycle and scheduling on the one CPU: the process table, the *)
(* run queue, scheduler_tick and scheduler_yield, the timer and keyboard   *)
(* interrupts, exit, fork, wait, sleep, the blocking keyboard read, and    *)
(* the shell's process_spawn / process_wait (kernel/processes/*.c,         *)
(* drivers/input/keyboard.c, kernel/core/kernel.c, apps/shell/shell.c).    *)
(*                                                                         *)
(* Only current_process executes.  Code that runs with interrupts off is   *)
(* one step.  Where the code may run with interrupts on (after an 'sti',   *)
(* or because switch_context does not restore RFLAGS) the step is cut,     *)
(* pc[p] names the place, and an interrupt may land there.                 *)
(* scheduler_remove is a step per statement that reads or writes the ring; *)
(* freeing what it has unlinked is one step (the allocators: Pmm, KHeap).  *)
(* scheduler_yield is one step here although its caller may have           *)
(* interrupts on: a timer interrupt inside it is modelled in YieldWindow.  *)
(*                                                                         *)
(* queue is the ring of next pointers, from run_queue_head once around.    *)
(* The head is the idle process, which is never removed.  A PCB that is    *)
(* off the ring is reached only by a scheduler_remove that was interrupted *)
(* on it, or by scheduler_add if it is the tail.                           *)
(*                                                                         *)
(* isr0 is the PIC's in-service bit for IRQ0: while it is set the PIC      *)
(* delivers neither the timer nor the (lower priority) keyboard.           *)
(***************************************************************************)
EXTENDS Integers, Sequences, Functions

CONSTANTS
    MaxPid,         \* bound: PIDs are 0 .. MaxPid - 1
    MaxProcesses,   \* MAX_PROCESSES
    TimeSlice,      \* the 10 ticks process_create gives (the idle process: 1)
    TickModulus,    \* 2^32, the range of the timer's uint32_t ticks
    SleepTicks,     \* the tick counts programs sleep for
    Calls,          \* the system calls programs make
    Readers,        \* the programs that read /devices/keyboard
    None            \* null pointer, empty slot

Pids == 0 .. MaxPid - 1
Slots == 0 .. MaxProcesses - 1
idle == 0
hello == 1
shell == 2

Syscalls == {"exit", "yield", "fork", "wait", "sleep"}
Places == {"hlt", "user", "sysret", "sys_yield", "exit_yield", "getchar",
           "kb_wait", "kb_block", "kb_eoi", "kb_yield", "wait", "wait_yield",
           "unlink", "walk", "tail", "reap", "spawn", "create", "load"}
States == {"READY", "RUNNING", "BLOCKED", "DEAD", "SLEEPING"}

ASSUME ProcessesConstants ==
    /\ MaxPid \in Nat /\ MaxPid > shell
    /\ MaxProcesses \in Nat /\ MaxProcesses > shell
    /\ TimeSlice \in Nat \ {0}
    /\ TickModulus \in Nat \ {0}
    /\ SleepTicks \subseteq Nat \ {0}
    /\ Calls \subseteq Syscalls
    /\ Readers \subseteq Nat
    /\ None \notin Nat

VARIABLES
    process_table,      \* [Slots -> PID or None]
    queue,              \* the ring, head first
    run_queue_tail,     \* the tail pointer, which may be off the ring
    walk,               \* locals of scheduler_remove: prev, node and i
    overlapped,         \* history: the ring was changed while another process
                        \* was inside scheduler_remove
    current,            \* current_process
    next_pid,
    pcb,                \* per PID: state, parent, ticks, wake_at, and
                        \* resume: how switch_context will resume it
    pc,                 \* where each process is in the code
    local,              \* locals across a cut: slot index and child
    iflag,              \* the CPU's interrupt flag
    isr0,               \* PIC: IRQ0 in service
    now,                \* timer.c: ticks
    pending_key,        \* keyboard.c: a key is stored
    keyboard_waiting,
    panicked

vars == <<process_table, queue, run_queue_tail, walk, overlapped, current,
          next_pid, pcb, pc, local, iflag, isr0, now, pending_key,
          keyboard_waiting, panicked>>
removal == <<run_queue_tail, walk, overlapped>>
keyboard == <<pending_key, keyboard_waiting>>
-----------------------------------------------------------------------------
\* process_create's view of a new PCB, before it is queued.
NewPcb(parent) ==
    [state |-> "READY", parent |-> parent, ticks |-> TimeSlice,
     wake_at |-> 0, resume |-> "start"]

NoPcb == [state |-> "FREE", parent |-> 0, ticks |-> 0,
          wake_at |-> 0, resume |-> "start"]
NoLocal == [slot |-> None, child |-> None]
NoWalk == [prev |-> None, node |-> None, i |-> 0]

time_slice(p) == IF p = idle THEN 1 ELSE TimeSlice

\* Mutant: the time slice is not renewed.
NotRenewed(proc, p) == proc

Renewed(proc, p) == [proc EXCEPT !.ticks = time_slice(p)]

SwitchedIn(proc, p) == [Renewed(proc, p) EXCEPT !.state = "RUNNING"]

\* kernel_main creates idle, hello and shell; scheduler_start jumps to the
\* head of the queue, idle, whose first instruction is 'sti'.
Init ==
    /\ process_table = [i \in Slots |-> IF i <= shell THEN i ELSE None]
    /\ queue = <<idle, hello, shell>> /\ run_queue_tail = shell
    /\ walk = [p \in Pids |-> NoWalk] /\ overlapped = FALSE
    /\ current = idle
    /\ next_pid = shell + 1
    /\ pcb = [p \in Pids |->
                IF p = idle THEN SwitchedIn(NewPcb(0), idle)
                ELSE IF p <= shell THEN NewPcb(0) ELSE NoPcb]
    /\ pc = [p \in Pids |-> IF p = idle THEN "hlt"
                            ELSE IF p = shell THEN "getchar" ELSE "user"]
    /\ local = [p \in Pids |-> NoLocal]
    /\ iflag = TRUE /\ isr0 = FALSE
    /\ now = 0
    /\ pending_key = FALSE /\ keyboard_waiting = None
    /\ panicked = FALSE
-----------------------------------------------------------------------------
Queued == {queue[i] : i \in 1 .. Len(queue)}
Tabled == {process_table[i] : i \in Slots} \ {None}

\* The kernel has panicked, or follows a pointer to a PCB that has been freed:
\* what it does from then on is not modelled.
Stopped == panicked \/ ~(Queued \cup {run_queue_tail} \subseteq Tabled)

\* kpanic: cli, hlt for ever.
kpanic ==
    /\ panicked' = TRUE
    /\ UNCHANGED <<process_table, queue, removal, current, next_pid, pcb, pc, local,
                   iflag, isr0, now, keyboard>>

\* Another process is inside scheduler_remove.
Overlaps == \E p \in Pids \ {current} : pc[p] \in {"walk", "tail"}

\* Link a process behind the tail, its own next pointer to the head.  Behind a
\* tail that is off the ring it is not on the ring either.
scheduler_add(p) ==
    /\ queue' = IF run_queue_tail \in Queued THEN Append(queue, p) ELSE queue
    /\ run_queue_tail' = p
    /\ overlapped' = (overlapped \/ Overlaps)

\* The first free slot, in index order.
FreeSlot(s) ==
    /\ s \in Slots /\ process_table[s] = None
    /\ \A t \in Slots : process_table[t] = None => s <= t

TableFull == \A s \in Slots : process_table[s] # None
-----------------------------------------------------------------------------
(***************************************************************************)
(* The scheduler.                                                          *)
(***************************************************************************)
\* Mutant: wakes only after the deadline has passed.
WakeSleepersLate(p, tick) ==
    IF p \in Tabled /\ pcb[p].state = "SLEEPING" /\ tick > pcb[p].wake_at
    THEN [pcb[p] EXCEPT !.state = "READY"] ELSE pcb[p]

scheduler_wake_sleepers(p, tick) ==
    IF p \in Tabled /\ pcb[p].state = "SLEEPING" /\ tick >= pcb[p].wake_at
    THEN [pcb[p] EXCEPT !.state = "READY"] ELSE pcb[p]

\* The PCBs after scheduler_tick has woken the sleepers and taken a tick
\* from the current process.
Ticked(tick, ticks) ==
    [p \in Pids |->
        IF p = current
        THEN [scheduler_wake_sleepers(p, tick) EXCEPT !.ticks = ticks]
        ELSE scheduler_wake_sleepers(p, tick)]

\* Mutant: the walk starts at the head of the queue, not after old.
SuccessorFromHead(old, k) == queue[k]

\* The k-th process after old in the circular queue.
Successor(old, k) ==
    LET at == CHOOSE i \in 1 .. Len(queue) : queue[i] = old
    IN  IF at + k <= Len(queue) THEN queue[at + k] ELSE queue[at + k - Len(queue)]

Runnable(procs, p, old) ==
    procs[p].state = "READY" \/ (procs[p].state = "RUNNING" /\ p # old)

\* The walk from old->next: the first runnable process, or old again.
WalkStopsAt(procs, old, new) ==
    \E k \in 1 .. Len(queue) :
        /\ new = Successor(old, k)
        /\ k < Len(queue) => Runnable(procs, new, old)
        /\ \A j \in 1 .. k - 1 : ~Runnable(procs, Successor(old, j), old)

\* switch_context, ring 0 restore: RFLAGS are not restored, so a process
\* that yielded goes on with the interrupt flag of the one switched away
\* from.  One that a timer interrupt suspended returns into irq_handler,
\* which sends the EOI, and iretq sets IF.  A user process enters ring 3
\* by iretq: IF is set, no EOI is sent.
SwitchedIF(new, flag) ==
    CASE pcb[new].resume = "irq"                     -> TRUE
      [] pcb[new].resume = "start" /\ new # shell    -> TRUE
      [] OTHER                                       -> flag

\* Mutant: a process suspended by an interrupt is resumed without an EOI.
SwitchedNoEoi(new, isr) == isr

SwitchedIsr0(new, isr) == isr /\ pcb[new].resume # "irq"

\* Mutant: the outgoing process keeps its state.
SwitchedOutRunning(proc, how) == [proc EXCEPT !.resume = how]

Suspended(proc, how) == [proc EXCEPT !.resume = how]

\* A process that was RUNNING becomes READY; BLOCKED, DEAD, SLEEPING stay.
SwitchedOut(proc, how) ==
    [Suspended(proc, how) EXCEPT !.state = IF @ = "RUNNING" THEN "READY" ELSE @]

\* From the walk to the end of scheduler_tick: procs are the PCBs so far,
\* how says who called (a timer interrupt or scheduler_yield), flag and isr
\* are the interrupt state at the call.  If the walk comes back to old the
\* call returns: an interrupt then sends its EOI and re-enables.
Reschedule(procs, how, flag, isr) ==
    \E new \in Pids :
        /\ WalkStopsAt(procs, current, new)
        /\ \/ /\ new = current
              /\ pcb' = [p \in Pids |-> IF p = current THEN Renewed(procs[p], p)
                                        ELSE procs[p]]
              /\ iflag' = (flag \/ how = "irq")
              /\ isr0' = (isr /\ how # "irq")
              /\ UNCHANGED current
           \/ /\ new # current
              /\ pcb' = [p \in Pids |->
                           CASE p = current -> SwitchedOut(procs[p], how)
                             [] p = new     -> SwitchedIn(procs[p], p)
                             [] OTHER       -> procs[p]]
              /\ current' = new
              /\ iflag' = SwitchedIF(new, flag)
              /\ isr0' = SwitchedIsr0(new, isr)

\* An interrupt is delivered.
Interruptible == ~Stopped /\ iflag /\ ~isr0

\* Mutant: the EOI is sent before scheduler_tick.
TimerIRQEarlyEoi ==
    LET tick  == (now + 1) % TickModulus
        procs == Ticked(tick, pcb[current].ticks - 1)
    IN  /\ Interruptible
        /\ now' = tick
        /\ Reschedule(procs, "irq", FALSE, FALSE)
        /\ UNCHANGED <<process_table, queue, removal, next_pid, pc, local, keyboard,
                       panicked>>

\* IRQ0: timer_handler, scheduler_tick, EOI.
TimerIRQ ==
    LET tick  == (now + 1) % TickModulus
        procs == Ticked(tick, pcb[current].ticks - 1)
        goes_on == /\ procs[current].ticks > 0 /\ current # idle
                   /\ procs[current].state = "RUNNING"
    IN  /\ Interruptible
        /\ now' = tick
        /\ \/ goes_on /\ pcb' = procs /\ UNCHANGED <<current, iflag, isr0>>
           \/ ~goes_on /\ Reschedule(procs, "irq", FALSE, TRUE)
        /\ UNCHANGED <<process_table, queue, removal, next_pid, pc, local, keyboard,
                       panicked>>

\* The place a process reaches when its scheduler_yield returns.
AfterYield(place) ==
    CASE place = "sys_yield"  -> "sysret"
      [] place = "wait_yield" -> "wait"
      [] place = "kb_yield"   -> "getchar"
      [] place = "exit_yield" -> "sysret"

YieldPlaces == {"sys_yield", "wait_yield", "kb_yield", "exit_yield"}

scheduler_yield ==
    /\ ~Stopped /\ pc[current] \in YieldPlaces
    /\ Reschedule(Ticked(now, -1), "yield", iflag, isr0)
    /\ pc' = [pc EXCEPT ![current] = AfterYield(@)]
    /\ UNCHANGED <<process_table, queue, removal, next_pid, local, now, keyboard,
                   panicked>>
-----------------------------------------------------------------------------
(***************************************************************************)
(* The keyboard.                                                           *)
(***************************************************************************)
process_wake(procs, p) ==
    IF procs[p].state = "BLOCKED" THEN [procs EXCEPT ![p].state = "READY"]
                                  ELSE procs

\* Mutant: the waiter is cleared and not woken.
KeyboardIRQNoWake ==
    /\ Interruptible
    /\ pending_key' = TRUE /\ keyboard_waiting' = None
    /\ UNCHANGED <<process_table, queue, removal, current, next_pid, pcb, pc, local,
                   iflag, isr0, now, panicked>>

\* IRQ1 for a printable key press: keyboard_handler, EOI.
KeyboardIRQ ==
    /\ Interruptible
    /\ pending_key' = TRUE
    /\ pcb' = IF keyboard_waiting = None THEN pcb
              ELSE process_wake(pcb, keyboard_waiting)
    /\ keyboard_waiting' = None
    /\ UNCHANGED <<process_table, queue, removal, current, next_pid, pc, local, iflag,
                   isr0, now, panicked>>

Goto(place) == pc' = [pc EXCEPT ![current] = place]
At(place) == ~Stopped /\ pc[current] = place

\* keyboard_getchar, a key is there: take it.  dev_keyboard_read returns to
\* its program or reads on; the shell handles the key, and Enter may start
\* cmd_run.
getchar_take ==
    /\ At("getchar") /\ pending_key
    /\ pending_key' = FALSE
    /\ \E place \in {"getchar", IF current = shell THEN "spawn" ELSE "sysret"} :
          Goto(place)
    /\ UNCHANGED <<process_table, queue, removal, current, next_pid, pcb, local, iflag,
                   isr0, now, keyboard_waiting, panicked>>

\* keyboard_getchar, no key: call keyboard_wait.
getchar_wait ==
    /\ At("getchar") /\ ~pending_key
    /\ Goto("kb_wait")
    /\ UNCHANGED <<process_table, queue, removal, current, next_pid, pcb, local, iflag,
                   isr0, now, keyboard, panicked>>

\* keyboard_wait: register, block, EOI, yield.
keyboard_wait_register ==
    /\ At("kb_wait")
    /\ keyboard_waiting' = current
    /\ Goto("kb_block")
    /\ UNCHANGED <<process_table, queue, removal, current, next_pid, pcb, local, iflag,
                   isr0, now, pending_key, panicked>>

keyboard_wait_block ==
    /\ At("kb_block")
    /\ pcb' = [pcb EXCEPT ![current].state = "BLOCKED"]
    /\ Goto("kb_eoi")
    /\ UNCHANGED <<process_table, queue, removal, current, next_pid, local, iflag,
                   isr0, now, keyboard, panicked>>

\* pic_send_eoi(1) is a non-specific EOI: it ends the service of the highest
\* priority interrupt in service, IRQ0.
keyboard_wait_eoi ==
    /\ At("kb_eoi")
    /\ isr0' = FALSE
    /\ Goto("kb_yield")
    /\ UNCHANGED <<process_table, queue, removal, current, next_pid, pcb, local, iflag,
                   now, keyboard, panicked>>
-----------------------------------------------------------------------------
(***************************************************************************)
(* System calls.  The SYSCALL instruction clears IF (FMASK), SYSRET        *)
(* restores the program's RFLAGS, in which IF is set.                      *)
(***************************************************************************)
sysret ==
    /\ At("sysret")
    /\ Goto("user") /\ iflag' = TRUE
    /\ UNCHANGED <<process_table, queue, removal, current, next_pid, pcb, local, isr0,
                   now, keyboard, panicked>>

Invokes(call) == At("user") /\ call \in Calls

sys_yield ==
    /\ Invokes("yield")
    /\ Goto("sys_yield") /\ iflag' = FALSE
    /\ UNCHANGED <<process_table, queue, removal, current, next_pid, pcb, local, isr0,
                   now, keyboard, panicked>>

\* wake_at_tick is a uint32_t and wraps with the tick counter.
WakeAt(proc, tick) == [proc EXCEPT !.wake_at = tick]
sys_sleep ==
    /\ Invokes("sleep")
    /\ \E ticks \in SleepTicks :
          pcb' = [pcb EXCEPT ![current] =
                    [WakeAt(@, (now + ticks) % TickModulus)
                        EXCEPT !.state = "SLEEPING"]]
    /\ Goto("sys_yield") /\ iflag' = FALSE
    /\ UNCHANGED <<process_table, queue, removal, current, next_pid, local, isr0, now,
                   keyboard, panicked>>

\* sys_read on /devices/keyboard.
sys_read ==
    /\ At("user") /\ current \in Readers
    /\ Goto("getchar") /\ iflag' = FALSE
    /\ UNCHANGED <<process_table, queue, removal, current, next_pid, pcb, local, isr0,
                   now, keyboard, panicked>>

\* Mutant: the parent is not woken.
ExitWithoutWake ==
    /\ Invokes("exit")
    /\ pcb' = [pcb EXCEPT ![current].state = "DEAD"]
    /\ Goto("exit_yield") /\ iflag' = TRUE
    /\ UNCHANGED <<process_table, queue, removal, current, next_pid, local, isr0,
                   now, keyboard, panicked>>

\* cli; DEAD; wake the parent if it is BLOCKED; sti.
sys_exit ==
    LET parent == pcb[current].parent
        dead   == [pcb EXCEPT ![current].state = "DEAD"]
    IN  /\ Invokes("exit")
        /\ pcb' = IF parent > 0 /\ parent \in Tabled
                  THEN process_wake(dead, parent) ELSE dead
        /\ Goto("exit_yield") /\ iflag' = TRUE
        /\ UNCHANGED <<process_table, queue, removal, current, next_pid, local, isr0,
                       now, keyboard, panicked>>

\* process_fork, then sysret; next_pid < MaxPid is the model's bound.
sys_fork ==
    LET child == next_pid
    IN  /\ Invokes("fork") /\ next_pid < MaxPid
        /\ \E s \in Slots :
              /\ FreeSlot(s)
              /\ process_table' = [process_table EXCEPT ![s] = child]
        /\ next_pid' = next_pid + 1
        /\ pcb' = [pcb EXCEPT ![child] = NewPcb(current)]
        /\ scheduler_add(child)
        /\ UNCHANGED <<current, pc, walk, local, iflag, isr0, now, keyboard, panicked>>

sys_fork_panic == Invokes("fork") /\ TableFull /\ kpanic

sys_wait ==
    /\ Invokes("wait")
    /\ Goto("wait") /\ iflag' = FALSE
    /\ UNCHANGED <<process_table, queue, removal, current, next_pid, pcb, local, isr0,
                   now, keyboard, panicked>>
-----------------------------------------------------------------------------
(***************************************************************************)
(* The loops of sys_wait (any child) and process_wait (the shell, for the  *)
(* PID it has just spawned).                                               *)
(***************************************************************************)
Awaited(p) ==
    IF p = shell THEN {local[p].child} \cap Tabled
                 ELSE {c \in Tabled : pcb[c].parent = p}

DeadChildAt(s) ==
    /\ process_table[s] \in Awaited(current)
    /\ pcb[process_table[s]].state = "DEAD"

\* cli; a DEAD child is found, the lowest slot first; sti.
wait_found ==
    /\ At("wait")
    /\ \E s \in Slots :
          /\ DeadChildAt(s) /\ \A t \in Slots : DeadChildAt(t) => s <= t
          /\ local' = [local EXCEPT ![current] =
                            [slot |-> s, child |-> process_table[s]]]
    /\ Goto("unlink") /\ iflag' = TRUE
    /\ UNCHANGED <<process_table, queue, removal, current, next_pid, pcb, isr0, now,
                   keyboard, panicked>>

\* cli; no child at all: sys_wait returns -1.  process_wait has no such test.
wait_no_children ==
    /\ At("wait") /\ current # shell /\ Awaited(current) = {}
    /\ Goto("sysret") /\ iflag' = TRUE
    /\ UNCHANGED <<process_table, queue, removal, current, next_pid, pcb, local, isr0,
                   now, keyboard, panicked>>

\* cli; block; sti.
wait_block ==
    /\ At("wait") /\ ~\E s \in Slots : DeadChildAt(s)
    /\ current = shell \/ Awaited(current) # {}
    /\ pcb' = [pcb EXCEPT ![current].state = "BLOCKED"]
    /\ Goto("wait_yield") /\ iflag' = TRUE
    /\ UNCHANGED <<process_table, queue, removal, current, next_pid, local, isr0, now,
                   keyboard, panicked>>

\* The queue without the process at position i.
Spliced(i) ==
    [j \in 1 .. Len(queue) - 1 |-> IF j < i THEN queue[j] ELSE queue[j + 1]]

\* scheduler_remove(child), entered with interrupts on.  What follows in the
\* code for the only process of the queue, or its head, is never done: the
\* idle process is both or neither.
remove_begin ==
    /\ At("unlink")
    /\ walk' = [walk EXCEPT ![current] =
                  [prev |-> run_queue_tail, node |-> queue[1], i |-> 0]]
    /\ Goto("walk")
    /\ UNCHANGED <<process_table, queue, run_queue_tail, overlapped, current,
                   next_pid, pcb, local, iflag, isr0, now, keyboard, panicked>>

\* An iteration that has not found the child: prev = node; node = node->next.
\* A node that someone else has unlinked meanwhile may have been freed and be
\* anything by now.
remove_step ==
    LET w == walk[current]
    IN  /\ At("walk") /\ w.i < MaxProcesses /\ w.node # local[current].child
        /\ \E next \in IF w.node \in Queued THEN {Successor(w.node, 1)} ELSE Pids :
              walk' = [walk EXCEPT ![current] =
                          [prev |-> w.node, node |-> next, i |-> w.i + 1]]
        /\ UNCHANGED <<process_table, queue, run_queue_tail, overlapped, current,
                       next_pid, pcb, pc, local, iflag, isr0, now, keyboard,
                       panicked>>

\* The child is found: prev->next = node->next.  If prev has been unlinked
\* meanwhile, the store goes to a PCB that is off the ring.
remove_splice ==
    LET w == walk[current]
        child == local[current].child
    IN  /\ At("walk") /\ w.i < MaxProcesses /\ w.node = child
        /\ \/ \E i \in 2 .. Len(queue) :
                 queue[i - 1] = w.prev /\ queue[i] = child /\ queue' = Spliced(i)
           \/ w.prev \notin Queued /\ UNCHANGED queue
        /\ overlapped' = (overlapped \/ Overlaps)
        /\ Goto("tail")
        /\ UNCHANGED <<process_table, run_queue_tail, walk, current, next_pid, pcb,
                       local, iflag, isr0, now, keyboard, panicked>>

\* Mutant: the tail is left on the removed process.
TailStays ==
    /\ At("tail") /\ Goto("reap")
    /\ walk' = [walk EXCEPT ![current] = NoWalk]
    /\ UNCHANGED <<process_table, queue, run_queue_tail, overlapped, current,
                   next_pid, pcb, local, iflag, isr0, now, keyboard, panicked>>

\* If the child was the tail, prev becomes it.
remove_tail ==
    /\ At("tail")
    /\ run_queue_tail' = IF run_queue_tail = local[current].child
                         THEN walk[current].prev ELSE run_queue_tail
    /\ walk' = [walk EXCEPT ![current] = NoWalk]
    /\ Goto("reap")
    /\ UNCHANGED <<process_table, queue, overlapped, current, next_pid, pcb, local,
                   iflag, isr0, now, keyboard, panicked>>

\* MAX_PROCESSES iterations have not found the child.
remove_gives_up ==
    /\ At("walk") /\ walk[current].i = MaxProcesses
    /\ walk' = [walk EXCEPT ![current] = NoWalk]
    /\ Goto("reap")
    /\ UNCHANGED <<process_table, queue, run_queue_tail, overlapped, current,
                   next_pid, pcb, local, iflag, isr0, now, keyboard, panicked>>

\* Free the child's address space and stack, its slot and its PCB.
Release(slot, child) ==
    /\ process_table' = [process_table EXCEPT ![slot] = None]
    /\ pcb' = [pcb EXCEPT ![child] = NoPcb]
    /\ local' = [local EXCEPT ![current] = NoLocal]

wait_reap ==
    /\ At("reap")
    /\ Release(local[current].slot, local[current].child)
    /\ Goto(IF current = shell THEN "getchar" ELSE "sysret")
    /\ UNCHANGED <<queue, removal, current, next_pid, iflag, isr0, now, keyboard,
                   panicked>>
-----------------------------------------------------------------------------
(***************************************************************************)
(* The shell's cmd_run.                                                    *)
(***************************************************************************)
\* No path on the command line.
cmd_run_usage ==
    /\ At("spawn")
    /\ Goto("getchar")
    /\ UNCHANGED <<process_table, queue, removal, current, next_pid, pcb, local, iflag,
                   isr0, now, keyboard, panicked>>

\* process_create up to the store into process_table.
process_create_pcb ==
    /\ At("spawn") /\ next_pid < MaxPid
    /\ \E s \in Slots :
          /\ FreeSlot(s)
          /\ local' = [local EXCEPT ![current] = [slot |-> s, child |-> next_pid]]
    /\ pcb' = [pcb EXCEPT ![next_pid] = NewPcb(current)]
    /\ next_pid' = next_pid + 1
    /\ Goto("create")
    /\ UNCHANGED <<process_table, queue, removal, current, iflag, isr0, now, keyboard,
                   panicked>>

process_create_panic == At("spawn") /\ TableFull /\ kpanic

process_create_store ==
    /\ At("create")
    /\ process_table' = [process_table EXCEPT
                            ![local[current].slot] = local[current].child]
    /\ Goto("load")
    /\ UNCHANGED <<queue, removal, current, next_pid, pcb, local, iflag, isr0, now,
                   keyboard, panicked>>

\* elf_load_from_path succeeds: scheduler_add, then process_wait.
process_spawn_add ==
    /\ At("load")
    /\ scheduler_add(local[current].child)
    /\ pcb' = [pcb EXCEPT ![local[current].child].state = "READY"]
    /\ Goto("wait")
    /\ UNCHANGED <<process_table, walk, current, next_pid, local, iflag, isr0, now,
                   keyboard, panicked>>

\* It fails: the half-built process is torn down.
process_spawn_fail ==
    /\ At("load")
    /\ Release(local[current].slot, local[current].child)
    /\ Goto("getchar")
    /\ UNCHANGED <<queue, removal, current, next_pid, iflag, isr0, now, keyboard,
                   panicked>>
-----------------------------------------------------------------------------
Kernel ==
    \/ getchar_take \/ getchar_wait \/ keyboard_wait_register
    \/ keyboard_wait_block \/ keyboard_wait_eoi \/ scheduler_yield \/ sysret
    \/ wait_found \/ wait_no_children \/ wait_block
    \/ remove_begin \/ remove_step \/ remove_splice \/ remove_tail
    \/ remove_gives_up \/ wait_reap
    \/ cmd_run_usage \/ process_create_pcb \/ process_create_panic
    \/ process_create_store \/ process_spawn_add \/ process_spawn_fail

User ==
    \/ sys_exit \/ sys_yield \/ sys_fork \/ sys_fork_panic
    \/ sys_wait \/ sys_sleep \/ sys_read

Halted == Stopped /\ UNCHANGED vars

Next == TimerIRQ \/ KeyboardIRQ \/ Kernel \/ User \/ Halted

Spec == Init /\ [][Next]_vars

\* A process that gets the CPU again and again executes its kernel code (10
\* ms pass between two ticks), and the PIC keeps a timer request until it can
\* be delivered.  Nothing is assumed of programs.
KernelFairness ==
    /\ \A p \in Pids : SF_vars(current = p /\ Kernel)
    /\ SF_vars(TimerIRQ)

\* Programs that give up the CPU from time to time.
Cooperation == \A p \in Pids : SF_vars(current = p /\ sys_yield)

FairSpec == Spec /\ KernelFairness
CooperativeSpec == FairSpec /\ Cooperation
-----------------------------------------------------------------------------
Pcb == [state : States \cup {"FREE"}, parent : Pids, ticks : -1 .. TimeSlice,
        wake_at : 0 .. TickModulus - 1, resume : {"start", "irq", "yield"}]

CoreType ==
    /\ process_table \in [Slots -> Pids \cup {None}]
    /\ queue \in Seq(Pids)
    /\ current \in Pids
    /\ next_pid \in 0 .. MaxPid
    /\ pcb \in [Pids -> Pcb]
    /\ pc \in [Pids -> Places]
    /\ local \in [Pids -> [slot : Slots \cup {None}, child : Pids \cup {None}]]
    /\ iflag \in BOOLEAN /\ isr0 \in BOOLEAN
    /\ now \in 0 .. TickModulus - 1
    /\ pending_key \in BOOLEAN
    /\ keyboard_waiting \in Pids \cup {None}
    /\ panicked \in BOOLEAN

TypeOK ==
    /\ CoreType
    /\ run_queue_tail \in Pids
    /\ walk \in [Pids -> [prev : Pids \cup {None}, node : Pids \cup {None},
                          i : 0 .. MaxProcesses]]
    /\ overlapped \in BOOLEAN

\* The process is between two steps of someone's process_spawn or of a
\* wait that reaps it.
InHandOf(parent, p, places) == local[parent].child = p /\ pc[parent] \in places

\* The ring holds each process once, its PCBs and the tail are in the process
\* table, and a PCB of the table is off it only while process_spawn is still loading
\* it or its parent has unlinked it to free it.
QueueIsSound ==
    /\ IsInjective(queue) /\ current \in Queued
    /\ Queued \cup {run_queue_tail} \subseteq Tabled
    /\ \A p \in Tabled \ Queued :
          \E parent \in Queued : InHandOf(parent, p, {"load", "tail", "reap"})

\* The scheduler never walks into freed memory and never forgets a process,
\* through every interrupt that falls between two statements of
\* scheduler_remove, as long as no process is added or unlinked while another
\* one is inside it.
QueueMatchesTable == ~overlapped => QueueIsSound

\* Two contexts never believe they own the CPU: only current_process is
\* RUNNING, through every switch, wake-up and interrupt.
OneRunning == \A p \in Pids : pcb[p].state = "RUNNING" => p = current

\* process_wait / sys_wait against sys_exit: a process asleep in a wait loop
\* has no child it could reap.  (The comments of both functions call the
\* opposite "a classic lost-wake up race".)
NoLostExit ==
    \A p \in Tabled :
        pcb[p].state = "BLOCKED" /\ pc[p] \in {"wait", "wait_yield"} =>
            \A c \in Awaited(p) : pcb[c].state # "DEAD"

\* The machine cannot sleep for ever in hlt: whenever the idle process is
\* running, interrupts are on and the PIC can deliver the next one, however
\* the idle process was switched in.
IdleCanBeWoken == current = idle /\ ~Stopped => iflag /\ ~isr0

\* The shell runs process_create, kmalloc and pmm_alloc, which take no lock
\* and do not disable interrupts, with IF set once process_wait has executed
\* 'sti'.  It is nevertheless not interrupted there: whoever dispatches it has
\* left IRQ0 in service, until keyboard_wait sends the EOI.
ShellIsNotInterrupted ==
    current = shell /\ Interruptible => pc[shell] = "kb_yield"

\* keyboard_handler never touches a PCB that is gone: the process registered
\* in keyboard_waiting is alive and still inside keyboard_getchar.
KeyboardWaiterIsLive ==
    keyboard_waiting # None =>
        /\ keyboard_waiting \in Queued
        /\ pcb[keyboard_waiting].state # "DEAD"
        /\ pc[keyboard_waiting] \in {"kb_wait", "kb_block", "kb_eoi",
                                       "kb_yield", "getchar"}

\* keyboard_getchar blocks "if none available" (keyboard.c): a process asleep
\* in it is the one the next key press will wake, and no key is waiting.
KeyboardSleeperIsWoken ==
    \A p \in Tabled :
        pcb[p].state = "BLOCKED" /\ pc[p] \in {"kb_eoi", "kb_yield", "getchar"} =>
            keyboard_waiting = p /\ ~pending_key

\* "this call never returns" (sys_exit): no switch, wake-up or late interrupt
\* makes a DEAD process run again; all that is left to it is to lose the CPU.
DeadNeverResumes ==
    [][\A p \in Pids : pcb[p].state = "DEAD" =>
            /\ pcb'[p].state \in {"DEAD", "FREE"}
            /\ current = p => current' # p \/ pc'[p] = pc[p]]_vars
-----------------------------------------------------------------------------
\* Round robin: every process that is ready to run gets the CPU.
ReadyRuns ==
    \A p \in Pids : pcb[p].state = "READY" /\ p \in Queued ~>
                        current = p \/ Stopped

\* A wait for which a child is already dead, or dies later, comes to an end:
\* sys_wait returns to its program, process_wait to the shell.
WaitReturns ==
    \A p, c \in Pids :
        c \in Awaited(p) /\ pcb[c].state = "DEAD" /\ pc[p] \in {"wait", "wait_yield"}
            ~> pc[p] \in {"user", "getchar"} \/ Stopped

\* A sleeping process wakes up.
SleeperWakes ==
    \A p \in Pids : pcb[p].state = "SLEEPING" ~>
                        pcb[p].state # "SLEEPING" \/ Stopped
=============================================================================
