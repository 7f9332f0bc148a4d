-------------------------- MODULE ProcessesProofs ---------------------------
(****************************************************************************)
(* What is proved of Processes, for every number of PIDs and slots, every   *)
(* time slice, every set of system calls and every set of keyboard readers. *)
(****************************************************************************)
EXTENDS Processes, TLAPS

\* The queue holds PIDs already given out, each once, the idle process and
\* current_process among them.
QueueInv ==
    /\ next_pid > shell
    /\ IsInjective(queue)
    /\ idle \in Queued /\ current \in Queued
    /\ \A p \in Queued : p < next_pid

\* The idle process never leaves its hlt loop, is always runnable, and can
\* only have lost the CPU to a timer interrupt.
IdleInv ==
    /\ pc[idle] = "hlt"
    /\ pcb[idle].state \in {"READY", "RUNNING"}
    /\ current = idle => iflag /\ ~isr0
    /\ current # idle => pcb[idle].resume = "irq"

\* The shell never executes program code.
ShellInv == pc[shell] \notin {"hlt", "user", "sysret", "sys_yield", "exit_yield"}

\* A process with a parent came from fork or process_create.
FamilyInv ==
    /\ \A q \in Pids : pcb[q].parent # 0 =>
            shell < q /\ q < next_pid /\ pcb[q].parent # q
    /\ \A q \in Pids : q >= next_pid => pcb[q].state = "FREE"

\* The child a process has in hand is its own.
InHand(p) ==
    \/ pc[p] \in {"create", "load", "unlink", "walk", "tail", "reap"}
    \/ p = shell /\ pc[p] \in {"wait", "wait_yield"}

HandInv ==
    /\ \A p \in Pids : InHand(p) =>
            /\ local[p].child \in Pids /\ pcb[local[p].child].parent = p
            /\ local[p].slot \in Slots
    /\ \A p \in Pids : pc[p] \in {"create", "load"} =>
            /\ local[p].child \notin Queued
            /\ pcb[local[p].child].state = "READY"

\* current_process is RUNNING except on its way into the scheduler, and has
\* a part of its time slice left.
CurrentInv ==
    /\ pcb[current].ticks > 0
    /\ pcb[current].state # "RUNNING" => pc[current] \in YieldPlaces \cup {"kb_eoi"}
    /\ pcb[current].state = "DEAD" => pc[current] = "exit_yield"

IInv ==
    /\ CoreType /\ QueueInv /\ IdleInv /\ ShellInv /\ FamilyInv
    /\ HandInv /\ CurrentInv /\ OneRunning /\ NoLostExit
-----------------------------------------------------------------------------
\* The walk of scheduler_tick ends at a queued process that is runnable; it
\* comes back to the process it started from only if that is the idle process.
LEMMA WalkFinds ==
    ASSUME queue \in Seq(Pids), IsInjective(queue), idle \in Queued,
           NEW old \in Queued, NEW new, NEW procs,
           old # idle => Runnable(procs, idle, old),
           WalkStopsAt(procs, old, new)
    PROVE  /\ new \in Queued
           /\ new # old => Runnable(procs, new, old)
           /\ new = old => old = idle
<1> DEFINE L == Len(queue)
           at == CHOOSE i \in 1 .. Len(queue) : queue[i] = old
           succ(k) == IF at + k <= L THEN queue[at + k] ELSE queue[at + k - L]
<1>1. L \in Nat /\ \A i \in 1 .. L : queue[i] \in Queued
  BY DEF Queued
<1>2. at \in 1 .. L /\ queue[at] = old
  BY DEF Queued
<1>3. \A i, j \in 1 .. L : queue[i] = queue[j] => i = j
  BY DEF IsInjective
<1>4. PICK k \in 1 .. L : /\ new = succ(k)
                          /\ k < L => Runnable(procs, new, old)
                          /\ \A j \in 1 .. k - 1 : ~Runnable(procs, succ(j), old)
  BY Zenon DEF WalkStopsAt, Successor
<1> HIDE DEF at
<1>5. new \in Queued
  BY <1>1, <1>2, <1>4
<1>6. CASE k < L
  <2>1. new # old
    BY <1>1, <1>2, <1>3, <1>4, <1>6
  <2> QED BY <1>4, <1>5, <1>6, <2>1
<1>7. CASE k = L
  <2>1. new = old
    BY <1>1, <1>2, <1>4, <1>7
  <2>2. ASSUME old # idle PROVE FALSE
    <3>1. PICK b \in 1 .. L : queue[b] = idle
      BY DEF Queued
    <3>2. b # at
      BY <1>2, <2>2, <3>1
    <3>3. CASE b > at
      <4>1. b - at \in 1 .. L - 1 /\ succ(b - at) = idle
        BY <1>1, <1>2, <3>1, <3>3
      <4> QED BY <1>4, <1>7, <2>2, <4>1
    <3>4. CASE b < at
      <4>1. b - at + L \in 1 .. L - 1 /\ succ(b - at + L) = idle
        BY <1>1, <1>2, <3>1, <3>4
      <4> QED BY <1>4, <1>7, <2>2, <4>1, Zenon
    <3> QED BY <1>1, <1>2, <3>2, <3>3, <3>4
  <2> QED BY <1>5, <2>1, <2>2
<1> QED BY <1>1, <1>4, <1>6, <1>7
-----------------------------------------------------------------------------
\* What the PCB updates do, field by field.
LEMMA PcbUpdates ==
    ASSUME NEW proc \in Pcb, NEW p \in Pids
    PROVE  /\ /\ Renewed(proc, p) \in Pcb
              /\ Renewed(proc, p).state = proc.state
              /\ Renewed(proc, p).parent = proc.parent
              /\ Renewed(proc, p).resume = proc.resume
              /\ Renewed(proc, p).ticks > 0
           /\ /\ SwitchedIn(proc, p) \in Pcb
              /\ SwitchedIn(proc, p).state = "RUNNING"
              /\ SwitchedIn(proc, p).parent = proc.parent
              /\ SwitchedIn(proc, p).resume = proc.resume
              /\ SwitchedIn(proc, p).ticks > 0
           /\ \A how \in {"irq", "yield"} :
              /\ SwitchedOut(proc, how) \in Pcb
              /\ SwitchedOut(proc, how).state
                    = IF proc.state = "RUNNING" THEN "READY" ELSE proc.state
              /\ SwitchedOut(proc, how).parent = proc.parent
              /\ SwitchedOut(proc, how).resume = how
           /\ \A t \in 0 .. TickModulus - 1 :
              /\ WakeAt(proc, t) \in Pcb
              /\ WakeAt(proc, t).state = proc.state
              /\ WakeAt(proc, t).parent = proc.parent
              /\ WakeAt(proc, t).resume = proc.resume
              /\ WakeAt(proc, t).ticks = proc.ticks
<1> USE DEF Pcb
<1>1. time_slice(p) \in -1 .. TimeSlice /\ time_slice(p) > 0
  BY ProcessesConstants DEF time_slice
<1>2. /\ Renewed(proc, p) \in Pcb
      /\ Renewed(proc, p).state = proc.state
      /\ Renewed(proc, p).parent = proc.parent
      /\ Renewed(proc, p).resume = proc.resume
      /\ Renewed(proc, p).ticks > 0
  BY <1>1 DEF Renewed
<1>3. /\ SwitchedIn(proc, p) \in Pcb
      /\ SwitchedIn(proc, p).state = "RUNNING"
      /\ SwitchedIn(proc, p).parent = proc.parent
      /\ SwitchedIn(proc, p).resume = proc.resume
      /\ SwitchedIn(proc, p).ticks > 0
  BY <1>2 DEF SwitchedIn, States
<1>4. ASSUME NEW how \in {"irq", "yield"}
      PROVE  /\ SwitchedOut(proc, how) \in Pcb
             /\ SwitchedOut(proc, how).state
                    = IF proc.state = "RUNNING" THEN "READY" ELSE proc.state
             /\ SwitchedOut(proc, how).parent = proc.parent
             /\ SwitchedOut(proc, how).resume = how
  <2>1. /\ Suspended(proc, how) \in Pcb
        /\ Suspended(proc, how).state = proc.state
        /\ Suspended(proc, how).parent = proc.parent
        /\ Suspended(proc, how).resume = how
    BY DEF Suspended
  <2> QED BY <2>1 DEF SwitchedOut, States
<1>5. ASSUME NEW t \in 0 .. TickModulus - 1
      PROVE  /\ WakeAt(proc, t) \in Pcb
             /\ WakeAt(proc, t).state = proc.state
             /\ WakeAt(proc, t).parent = proc.parent
             /\ WakeAt(proc, t).resume = proc.resume
             /\ WakeAt(proc, t).ticks = proc.ticks
  BY DEF WakeAt
<1> QED BY <1>2, <1>3, <1>4, <1>5, Zenon

\* scheduler_add makes a READY process READY.
LEMMA ReadySame ==
    ASSUME NEW procs \in [Pids -> Pcb], NEW c \in Pids, procs[c].state = "READY"
    PROVE  [procs EXCEPT ![c].state = "READY"] = procs
<1>1. [procs[c] EXCEPT !.state = "READY"] = procs[c]
  BY DEF Pcb
<1> QED BY <1>1

LEMMA InitInv == Init => IInv
<1> SUFFICES ASSUME Init PROVE IInv
  OBVIOUS
<1>0. idle \in Pids /\ \A p \in Pids : p \in Nat
  BY ProcessesConstants DEF Pids, idle, shell
<1>3. /\ pcb \in [Pids -> Pcb]
      /\ pcb[idle].state = "RUNNING" /\ pcb[idle].parent = 0
      /\ pcb[idle].ticks > 0
      /\ \A p \in Pids \ {idle} :
            /\ pcb[p].parent = 0
            /\ pcb[p].state \in {"READY", "FREE"}
            /\ p > shell => pcb[p].state = "FREE"
  <2>1. NewPcb(0) \in Pcb /\ NoPcb \in Pcb
    BY ProcessesConstants DEF Pcb, States, NewPcb, NoPcb, Pids, shell
  <2>2. /\ NewPcb(0).parent = 0 /\ NewPcb(0).state = "READY"
        /\ NoPcb.parent = 0 /\ NoPcb.state = "FREE"
    BY DEF NewPcb, NoPcb
  <2>3. /\ SwitchedIn(NewPcb(0), idle) \in Pcb
        /\ SwitchedIn(NewPcb(0), idle).state = "RUNNING"
        /\ SwitchedIn(NewPcb(0), idle).parent = 0
        /\ SwitchedIn(NewPcb(0), idle).ticks > 0
    BY <1>0, <2>1, <2>2, PcbUpdates, ZenonT(60)
  <2>4. pcb = [p \in Pids |->
                IF p = idle THEN SwitchedIn(NewPcb(0), idle)
                ELSE IF p <= shell THEN NewPcb(0) ELSE NoPcb]
    BY DEF Init
  <2>5. \A p \in Pids : p > shell => ~(p <= shell)
    BY <1>0 DEF shell
  <2> QED BY <1>0, <2>1, <2>2, <2>3, <2>4, <2>5
<1> USE ProcessesConstants DEF Init, Pids, Slots, idle, hello, shell
<1>1. /\ Len(queue) = 3 /\ queue[1] = 0 /\ queue[2] = 1 /\ queue[3] = 2
      /\ DOMAIN queue = 1 .. 3 /\ queue \in Seq(Pids)
  OBVIOUS
<1>2. Queued = {0, 1, 2}
  BY <1>1 DEF Queued
<1>4. CoreType
  <2>1. process_table \in [Slots -> Pids \cup {None}]
    OBVIOUS
  <2>2. pc \in [Pids -> Places]
    BY DEF Places
  <2>3. local \in [Pids -> [slot : Slots \cup {None}, child : Pids \cup {None}]]
    BY DEF NoLocal
  <2>4. /\ current \in Pids /\ next_pid \in 0 .. MaxPid
        /\ now \in 0 .. TickModulus - 1
    OBVIOUS
  <2>5. /\ iflag \in BOOLEAN /\ isr0 \in BOOLEAN /\ pending_key \in BOOLEAN
        /\ keyboard_waiting \in Pids \cup {None} /\ panicked \in BOOLEAN
    BY Zenon
  <2> HIDE DEF Init
  <2> QED BY <1>1, <1>3, <2>1, <2>2, <2>3, <2>4, <2>5 DEF CoreType
<1>5. QueueInv
  BY <1>1, <1>2 DEF QueueInv, IsInjective
<1>6. HandInv
  BY DEF HandInv, InHand
<1>7. /\ pc[idle] = "hlt" /\ pc[shell] = "getchar" /\ current = idle
      /\ iflag /\ ~isr0 /\ next_pid = shell + 1
  OBVIOUS
<1> HIDE DEF Init
<1>8. IdleInv /\ ShellInv
  BY <1>3, <1>7 DEF IdleInv, ShellInv
<1>9. FamilyInv
  BY <1>3, <1>7 DEF FamilyInv
<1>10. CurrentInv /\ OneRunning
  BY <1>3, <1>7 DEF CurrentInv, OneRunning
<1>11. NoLostExit
  <2>1. \A p \in Tabled : p \in Pids
    BY <1>4, SMTT(30) DEF CoreType, Tabled
  <2> QED BY <1>3, <2>1 DEF NoLostExit
<1> QED BY <1>4, <1>5, <1>6, <1>8, <1>9, <1>10, <1>11 DEF IInv
-----------------------------------------------------------------------------
\* From the DEAD child that a wait has found to its PCB that is freed.
RemovalPlaces == {"unlink", "walk", "tail", "reap"}

\* A step of the current process from one place to another that leaves the
\* tables, the PCBs and the queue alone.
LEMMA MoveInv ==
    ASSUME IInv, NEW from, NEW to \in Places,
           pc[current] = from, pc' = [pc EXCEPT ![current] = to],
           UNCHANGED <<process_table, queue, current, next_pid, pcb, local>>,
           from # "hlt",
           \/ from \notin YieldPlaces \cup {"kb_eoi"}
           \/ from = "kb_eoi" /\ to = "kb_yield",
           to \notin {"hlt", "create", "load"},
           to \in RemovalPlaces => from \in RemovalPlaces,
           current = shell => to \notin {"user", "sysret", "sys_yield",
                                         "exit_yield", "wait", "wait_yield"},
           iflag' \in BOOLEAN, isr0' \in BOOLEAN, now' \in 0 .. TickModulus - 1,
           pending_key' \in BOOLEAN, keyboard_waiting' \in Pids \cup {None},
           panicked' \in BOOLEAN
    PROVE  IInv'
<1> USE ProcessesConstants DEF IInv
<1>1. current \in Pids /\ current # idle
  BY Zenon DEF CoreType, IdleInv
<1>2. pcb[current].state # "BLOCKED" \/ to = "kb_yield"
  BY <1>1 DEF CurrentInv
<1>3. pcb[current].state = "RUNNING" \/ to = "kb_yield"
  BY <1>1 DEF CurrentInv
<1>4. CoreType'
  BY <1>1 DEF CoreType
<1>5. QueueInv' /\ FamilyInv' /\ OneRunning'
  BY DEF QueueInv, FamilyInv, OneRunning, Queued
<1>6. IdleInv' /\ ShellInv'
  BY <1>1 DEF IdleInv, ShellInv, CoreType, Pids, idle, shell
<1>7. HandInv'
  <2>1. \A p \in Pids : InHand(p)' => InHand(p)
    BY <1>1 DEF InHand, CoreType, RemovalPlaces
  <2> QED BY <1>1, <2>1 DEF HandInv, Queued, CoreType
<1>8. CurrentInv'
  BY <1>1, <1>3 DEF CurrentInv, CoreType, YieldPlaces
<1>9. NoLostExit'
  BY <1>1, <1>2 DEF NoLostExit, Tabled, Awaited, CoreType
<1> QED BY <1>4, <1>5, <1>6, <1>7, <1>8, <1>9

\* The steps of that kind.
Moves ==
    \/ getchar_take \/ getchar_wait \/ keyboard_wait_register
    \/ keyboard_wait_eoi \/ sysret \/ wait_no_children \/ cmd_run_usage
    \/ sys_yield \/ sys_wait \/ sys_read
    \/ remove_begin \/ remove_step \/ remove_tail \/ remove_gives_up

LEMMA MovesInv == IInv /\ Moves => IInv'
<1> SUFFICES ASSUME IInv, Moves PROVE IInv'
  OBVIOUS
<1> USE DEF At, Goto, keyboard, Places, YieldPlaces, RemovalPlaces
<1>0. CoreType /\ current \in Pids /\ ShellInv
  BY DEF IInv, CoreType
<1>1. CASE getchar_take
  BY <1>0, <1>1, MoveInv, ZenonT(60), Zenon DEF getchar_take, CoreType
<1>2. CASE getchar_wait
  BY <1>0, <1>2, MoveInv, Zenon DEF getchar_wait, CoreType
<1>3. CASE keyboard_wait_register
  BY <1>0, <1>3, MoveInv, Zenon DEF keyboard_wait_register, CoreType
<1>4. CASE keyboard_wait_eoi
  BY <1>0, <1>4, MoveInv, Zenon DEF keyboard_wait_eoi, CoreType
<1>5. CASE sysret
  BY <1>0, <1>5, MoveInv, Zenon DEF sysret, CoreType, ShellInv
<1>6. CASE wait_no_children
  BY <1>0, <1>6, MoveInv, Zenon DEF wait_no_children, CoreType
<1>7. CASE cmd_run_usage
  BY <1>0, <1>7, MoveInv, Zenon DEF cmd_run_usage, CoreType
<1>8. CASE sys_yield
  BY <1>0, <1>8, MoveInv, Zenon DEF sys_yield, Invokes, CoreType, ShellInv
<1>9. CASE sys_wait
  BY <1>0, <1>9, MoveInv, Zenon DEF sys_wait, Invokes, CoreType, ShellInv
<1>10. CASE sys_read
  BY <1>0, <1>10, MoveInv, Zenon DEF sys_read, CoreType, ShellInv
<1>11. CASE remove_begin
  BY <1>0, <1>11, MoveInv, Zenon DEF remove_begin, CoreType
<1>12. CASE remove_step
  <2>1. pc' = [pc EXCEPT ![current] = "walk"]
    BY <1>0, <1>12, Zenon DEF remove_step, CoreType
  <2> QED BY <1>0, <1>12, <2>1, MoveInv, Zenon DEF remove_step, CoreType
<1>13. CASE remove_tail
  BY <1>0, <1>13, MoveInv, Zenon DEF remove_tail, CoreType
<1>14. CASE remove_gives_up
  BY <1>0, <1>14, MoveInv, Zenon DEF remove_gives_up, CoreType
<1> QED BY <1>1, <1>2, <1>3, <1>4, <1>5, <1>6, <1>7, <1>8, <1>9, <1>10, <1>11,
           <1>12, <1>13, <1>14 DEF Moves
-----------------------------------------------------------------------------
\* What the invariant says of PIDs and of the child a process has in hand.
LEMMA Basics ==
    ASSUME IInv
    PROVE  /\ Pids \subseteq Nat /\ idle \in Pids /\ shell \in Pids
           /\ current \in Pids /\ Tabled \subseteq Pids /\ Queued \subseteq Pids
           /\ pc[current] # "hlt" => current # idle
           /\ \A p \in Pids : InHand(p) =>
                /\ p # idle /\ local[p].child \in Pids /\ local[p].slot \in Slots
                /\ pcb[local[p].child].parent = p
                /\ local[p].child \notin {idle, shell, p}
                /\ local[p].child < next_pid
<1> USE DEF IInv
<1>1. Pids \subseteq Nat /\ idle \in Pids /\ shell \in Pids
  BY ProcessesConstants DEF Pids, idle, shell
<1>2. current \in Pids /\ Tabled \subseteq Pids /\ Queued \subseteq Pids
  BY DEF CoreType, Tabled, Queued
<1>3. pc[current] # "hlt" => current # idle
  BY DEF IdleInv
<1>4. ASSUME NEW p \in Pids, InHand(p)
      PROVE  /\ p # idle /\ local[p].child \in Pids /\ local[p].slot \in Slots
             /\ pcb[local[p].child].parent = p
             /\ local[p].child \notin {idle, shell, p}
             /\ local[p].child < next_pid
  <2>1. p # idle
    BY <1>4 DEF InHand, IdleInv, idle, shell
  <2>2. /\ local[p].child \in Pids /\ local[p].slot \in Slots
        /\ pcb[local[p].child].parent = p
    BY <1>4 DEF HandInv
  <2>3. /\ shell < local[p].child /\ local[p].child < next_pid
        /\ local[p].child # p
    BY <2>1, <2>2 DEF FamilyInv, idle
  <2> QED BY <2>1, <2>2, <2>3 DEF idle, shell
<1> QED BY <1>1, <1>2, <1>3, <1>4, Zenon

\* The current process changes state on its way to the scheduler.
\* A step that puts nobody in hand, and leaves those in hand as they are.
LEMMA HandSame ==
    ASSUME HandInv, queue' = queue, local' = local,
           \A p \in Pids : InHand(p)' => InHand(p),
           \A q \in Pids : pcb'[q].parent = pcb[q].parent,
           \A p \in Pids : pc'[p] \in {"create", "load"} =>
               /\ pc[p] \in {"create", "load"}
               /\ pcb[local[p].child].state = "READY" =>
                      pcb'[local[p].child].state = "READY"
    PROVE  HandInv'
<1>1. Queued' = Queued
  BY Zenon DEF Queued
<1>2. ASSUME NEW p \in Pids, InHand(p)'
      PROVE  /\ local'[p].child \in Pids /\ pcb'[local'[p].child].parent = p
             /\ local'[p].slot \in Slots
  BY <1>2, Zenon DEF HandInv
<1>3. ASSUME NEW p \in Pids, pc'[p] \in {"create", "load"}
      PROVE  /\ local'[p].child \notin Queued'
             /\ pcb'[local'[p].child].state = "READY"
  BY <1>1, <1>3, Zenon DEF HandInv
<1> QED BY <1>2, <1>3, Zenon DEF HandInv

LEMMA SuspendInv ==
    ASSUME IInv, NEW to \in {"kb_eoi", "sys_yield", "wait_yield"},
           NEW s \in {"BLOCKED", "SLEEPING"}, NEW proc \in Pcb,
           proc.state = s, proc.parent = pcb[current].parent,
           proc.resume = pcb[current].resume, proc.ticks = pcb[current].ticks,
           pc[current] \notin {"hlt"} \cup YieldPlaces,
           pcb' = [pcb EXCEPT ![current] = proc],
           pc' = [pc EXCEPT ![current] = to],
           current = shell => to # "sys_yield",
           to = "wait_yield" => /\ pc[current] = "wait"
                                /\ \A c \in Awaited(current) : pcb[c].state # "DEAD",
           iflag' \in BOOLEAN,
           UNCHANGED <<process_table, queue, current, next_pid, local, isr0,
                       now, keyboard, panicked>>
    PROVE  IInv'
<1> USE DEF keyboard
<1>0. /\ current \in Pids /\ current # idle /\ Tabled \subseteq Pids
      /\ idle \in Pids /\ shell \in Pids
  BY Basics, Zenon
<1> USE DEF IInv
<1>1. CoreType'
  BY <1>0, Zenon DEF CoreType, Places
<1>2. /\ \A p \in Pids : pcb'[p].parent = pcb[p].parent
      /\ \A p \in Pids : p # current => pcb'[p] = pcb[p] /\ pc'[p] = pc[p]
      /\ pcb'[current] = proc /\ pc'[current] = to
  BY <1>0, Zenon DEF CoreType
<1>3. QueueInv'
  BY Zenon DEF QueueInv, Queued
<1>4. IdleInv' /\ ShellInv'
  BY <1>0, <1>2, Zenon DEF IdleInv, ShellInv
<1>5. FamilyInv'
  <2>1. current < next_pid
    BY Zenon DEF QueueInv
  <2> QED BY <1>0, <1>1, <1>2, <2>1, SMTT(30) DEF FamilyInv, CoreType, Pids
<1>6. HandInv'
  <2>1. \A p \in Pids : InHand(p)' => InHand(p)
    BY <1>0, <1>2, SMTT(30) DEF InHand
  <2>2. \A p \in Pids : pc'[p] \in {"create", "load"} =>
            pc[p] \in {"create", "load"} /\ local[p].child # current
    BY <1>0, <1>2, Zenon DEF HandInv, InHand, QueueInv
  <2> QED BY <1>2, <2>1, <2>2 DEF HandInv, InHand, Queued
<1>7. CurrentInv' /\ OneRunning'
  BY <1>0, <1>2 DEF CurrentInv, OneRunning, YieldPlaces
<1>8. NoLostExit'
  <2>1. Tabled' = Tabled
    BY SMTT(30) DEF Tabled
  <2>2. \A p \in Pids : \A c \in Awaited(p)' : c \in Awaited(p) /\ c \in Pids
    BY <1>0, <1>2, <2>1, Zenon DEF Awaited
  <2> QED BY <1>0, <1>2, <2>1, <2>2, SMTT(30) DEF NoLostExit
<1> QED BY <1>1, <1>3, <1>4, <1>5, <1>6, <1>7, <1>8

LEMMA SuspendsInv ==
    IInv /\ (keyboard_wait_block \/ wait_block \/ sys_sleep) => IInv'
<1> SUFFICES ASSUME IInv, keyboard_wait_block \/ wait_block \/ sys_sleep
             PROVE  IInv'
  OBVIOUS
<1> USE DEF At, Goto, YieldPlaces
<1>0. /\ current \in Pids /\ pcb \in [Pids -> Pcb] /\ pcb[current] \in Pcb
      /\ iflag \in BOOLEAN /\ Tabled \subseteq Pids /\ now \in Nat
  BY Basics DEF IInv, CoreType
<1>1. CASE keyboard_wait_block
  <2> DEFINE proc == [pcb[current] EXCEPT !.state = "BLOCKED"]
  <2>1. /\ proc \in Pcb /\ proc.state = "BLOCKED"
        /\ proc.parent = pcb[current].parent /\ proc.ticks = pcb[current].ticks
        /\ proc.resume = pcb[current].resume
    BY <1>0 DEF Pcb, States
  <2>2. pcb' = [pcb EXCEPT ![current] = proc]
    BY <1>1 DEF keyboard_wait_block
  <2> HIDE DEF proc
  <2> QED BY <1>0, <1>1, <2>1, <2>2, SuspendInv, Zenon DEF keyboard_wait_block
<1>2. CASE wait_block
  <2> DEFINE proc == [pcb[current] EXCEPT !.state = "BLOCKED"]
  <2>1. /\ proc \in Pcb /\ proc.state = "BLOCKED"
        /\ proc.parent = pcb[current].parent /\ proc.ticks = pcb[current].ticks
        /\ proc.resume = pcb[current].resume
    BY <1>0 DEF Pcb, States
  <2>2. pcb' = [pcb EXCEPT ![current] = proc]
    BY <1>2 DEF wait_block
  <2>3. \A c \in Awaited(current) : pcb[c].state # "DEAD"
    <3>1. \A c \in Awaited(current) : \E s \in Slots : process_table[s] = c
      BY DEF Awaited, Tabled
    <3> QED BY <1>2, <3>1 DEF wait_block, DeadChildAt
  <2> HIDE DEF proc
  <2> QED BY <1>0, <1>2, <2>1, <2>2, <2>3, SuspendInv, Zenon DEF wait_block
<1>3. CASE sys_sleep
  <2>1. PICK ticks \in SleepTicks :
            pcb' = [pcb EXCEPT ![current] =
                        [WakeAt(pcb[current], (now + ticks) % TickModulus)
                            EXCEPT !.state = "SLEEPING"]]
    BY <1>3, Zenon DEF sys_sleep
  <2> DEFINE t == (now + ticks) % TickModulus
             proc == [WakeAt(pcb[current], t) EXCEPT !.state = "SLEEPING"]
  <2>2. t \in 0 .. TickModulus - 1
    BY <1>0, ProcessesConstants
  <2> HIDE DEF t
  <2>3. /\ proc \in Pcb /\ proc.state = "SLEEPING"
        /\ proc.parent = pcb[current].parent /\ proc.ticks = pcb[current].ticks
        /\ proc.resume = pcb[current].resume
    BY <1>0, <2>2, PcbUpdates DEF Pcb, States
  <2>4. pcb' = [pcb EXCEPT ![current] = proc]
    BY <2>1 DEF t
  <2>5. current # shell
    BY <1>3 DEF sys_sleep, Invokes, IInv, ShellInv
  <2> HIDE DEF proc
  <2> QED BY <1>0, <1>3, <2>3, <2>4, <2>5, SuspendInv, Zenon DEF sys_sleep, Invokes
<1> QED BY <1>1, <1>2, <1>3
-----------------------------------------------------------------------------
\* process_wake changes the state of one process, BLOCKED to READY.
LEMMA WakeFacts ==
    ASSUME NEW procs \in [Pids -> Pcb], NEW p \in Pids
    PROVE  /\ process_wake(procs, p) \in [Pids -> Pcb]
           /\ \A q \in Pids :
                LET woken == process_wake(procs, p)[q]
                IN  /\ woken.parent = procs[q].parent
                    /\ woken.ticks = procs[q].ticks
                    /\ woken.resume = procs[q].resume
                    /\ IF q = p /\ procs[q].state = "BLOCKED"
                       THEN woken.state = "READY"
                       ELSE woken.state = procs[q].state
<1>1. CASE procs[p].state = "BLOCKED"
  <2>1. process_wake(procs, p) = [procs EXCEPT ![p].state = "READY"]
    BY <1>1 DEF process_wake
  <2>2. [procs EXCEPT ![p].state = "READY"] \in [Pids -> Pcb]
    BY DEF Pcb, States
  <2> QED BY <1>1, <2>1, <2>2 DEF Pcb
<1>2. CASE procs[p].state # "BLOCKED"
  BY <1>2 DEF process_wake
<1> QED BY <1>1, <1>2, Zenon

\* No exit is lost when nobody goes to sleep in a wait and nobody dies.
LEMMA LostSame ==
    ASSUME NoLostExit,
           \A p \in Tabled' :
                pcb'[p].state = "BLOCKED" /\ pc'[p] \in {"wait", "wait_yield"} =>
                    /\ p \in Tabled /\ pcb[p].state = "BLOCKED"
                    /\ pc[p] \in {"wait", "wait_yield"}
                    /\ \A c \in Awaited(p)' : pcb'[c].state = "DEAD" =>
                            c \in Awaited(p) /\ pcb[c].state = "DEAD"
    PROVE  NoLostExit'
<1> QED BY Zenon DEF NoLostExit

LEMMA KeyboardInv == IInv /\ KeyboardIRQ => IInv'
<1> SUFFICES ASSUME IInv, KeyboardIRQ PROVE IInv'
  OBVIOUS
<1>0. /\ current \in Pids /\ Tabled \subseteq Pids /\ idle \in Pids
      /\ shell \in Pids /\ pcb \in [Pids -> Pcb]
  BY Basics, Zenon DEF IInv, CoreType
<1>1. /\ pcb' \in [Pids -> Pcb]
      /\ \A q \in Pids : /\ pcb'[q].parent = pcb[q].parent
                         /\ pcb'[q].ticks = pcb[q].ticks
                         /\ pcb'[q].resume = pcb[q].resume
                         /\ \/ pcb'[q].state = pcb[q].state
                            \/ pcb[q].state = "BLOCKED" /\ pcb'[q].state = "READY"
  <2>1. CASE keyboard_waiting = None
    BY <1>0, <2>1 DEF KeyboardIRQ
  <2>2. CASE keyboard_waiting # None
    <3>1. keyboard_waiting \in Pids /\ pcb' = process_wake(pcb, keyboard_waiting)
      BY <2>2, Zenon DEF KeyboardIRQ, IInv, CoreType
    <3> QED BY <1>0, <3>1, WakeFacts
  <2> QED BY <2>1, <2>2, Zenon
<1> USE DEF IInv
<1>2. /\ UNCHANGED <<process_table, queue, current, next_pid, pc, local, iflag,
                     isr0, now, panicked>>
      /\ pending_key' = TRUE /\ keyboard_waiting' = None
  BY DEF KeyboardIRQ
<1>3. CoreType'
  BY <1>1, <1>2, SMTT(30) DEF CoreType
<1>4. QueueInv' /\ ShellInv'
  BY <1>2, Zenon DEF QueueInv, Queued, ShellInv
<1>5. IdleInv'
  BY <1>0, <1>1, <1>2, SMTT(30) DEF IdleInv
<1>6. FamilyInv' /\ HandInv'
  <2>1. FamilyInv'
    BY <1>1, <1>2 DEF FamilyInv
  <2>2. \A p \in Pids : InHand(p)' => InHand(p)
    BY <1>2, Zenon DEF InHand
  <2>3. \A p \in Pids : pc'[p] \in {"create", "load"} =>
            pc[p] \in {"create", "load"} /\ local[p].child \in Pids
    BY <1>2, Zenon DEF HandInv, InHand
  <2>4. \A q \in Pids : pcb[q].state = "READY" => pcb'[q].state = "READY"
    BY <1>1, Zenon
  <2>5. HandInv'
    BY <1>1, <1>2, <2>2, <2>3, <2>4, HandSame, Zenon
  <2> QED BY <2>1, <2>5, Zenon
<1>7. CurrentInv' /\ OneRunning'
  BY <1>0, <1>1, <1>2, Zenon DEF CurrentInv, OneRunning
<1>8. NoLostExit'
  <2>1. Tabled' = Tabled
    BY <1>2, Zenon DEF Tabled
  <2>2. \A p \in Pids : \A c \in Awaited(p)' : c \in Awaited(p) /\ c \in Pids
    BY <1>0, <1>1, <1>2, <2>1, Zenon DEF Awaited
  <2> QED BY <1>0, <1>1, <1>2, <2>1, <2>2 DEF NoLostExit
<1> QED BY <1>3, <1>4, <1>5, <1>6, <1>7, <1>8

LEMMA ExitInv == IInv /\ sys_exit => IInv'
<1> SUFFICES ASSUME IInv, sys_exit PROVE IInv'
  OBVIOUS
<1> DEFINE parent == pcb[current].parent
           dead   == [pcb EXCEPT ![current].state = "DEAD"]
<1>0. /\ current \in Pids /\ Tabled \subseteq Pids /\ idle \in Pids
      /\ shell \in Pids /\ pcb \in [Pids -> Pcb] /\ pc \in [Pids -> Places]
      /\ Pids \subseteq Nat
  BY Basics, Zenon DEF IInv, CoreType
<1>1. /\ pc[current] = "user" /\ pc' = [pc EXCEPT ![current] = "exit_yield"]
      /\ iflag' = TRUE
      /\ pcb' = IF parent > 0 /\ parent \in Tabled
                THEN process_wake(dead, parent) ELSE dead
      /\ UNCHANGED <<process_table, queue, current, next_pid, local, isr0,
                     now, pending_key, keyboard_waiting, panicked>>
  BY DEF sys_exit, Invokes, At, Goto, keyboard
<1>2. current # idle /\ current # shell
  BY <1>1 DEF IInv, IdleInv, ShellInv
<1>3. parent \in Pids /\ parent # current
  BY <1>0, <1>2 DEF IInv, FamilyInv, Pcb, idle
<1>4. /\ dead \in [Pids -> Pcb]
      /\ \A q \in Pids : /\ dead[q].parent = pcb[q].parent
                         /\ dead[q].ticks = pcb[q].ticks
                         /\ dead[q].resume = pcb[q].resume
                         /\ dead[q].state = IF q = current THEN "DEAD" ELSE pcb[q].state
  BY <1>0, SMTT(30) DEF Pcb, States
<1> HIDE DEF dead
<1>5. /\ pcb' \in [Pids -> Pcb]
      /\ \A q \in Pids : /\ pcb'[q].parent = pcb[q].parent
                         /\ pcb'[q].ticks = pcb[q].ticks
                         /\ pcb'[q].resume = pcb[q].resume
  BY <1>1, <1>3, <1>4, WakeFacts, SMTT(30)
<1>6. /\ pcb'[current].state = "DEAD"
      /\ \A q \in Pids \ {current} :
            \/ pcb'[q].state = pcb[q].state
            \/ pcb[q].state = "BLOCKED" /\ pcb'[q].state = "READY"
      /\ parent > 0 /\ parent \in Tabled => pcb'[parent].state # "BLOCKED"
  <2>1. CASE parent > 0 /\ parent \in Tabled
    <3>1. pcb' = process_wake(dead, parent)
      BY <1>1, <2>1, Zenon
    <3>2. \A q \in Pids : IF q = parent /\ dead[q].state = "BLOCKED"
                          THEN pcb'[q].state = "READY"
                          ELSE pcb'[q].state = dead[q].state
      BY <1>3, <1>4, <3>1, WakeFacts, Zenon
    <3> HIDE DEF parent
    <3> QED BY <1>0, <1>3, <1>4, <3>2, Zenon
  <2>2. CASE ~(parent > 0 /\ parent \in Tabled)
    BY <1>0, <1>1, <1>4, <2>2, Zenon
  <2> QED BY <2>1, <2>2, Zenon
<1> HIDE DEF parent
<1> USE DEF IInv
<1>8. CoreType'
  BY <1>0, <1>1, <1>5, Zenon DEF CoreType, Places
<1>9. QueueInv'
  BY <1>1, Zenon DEF QueueInv, Queued
<1>10. IdleInv' /\ ShellInv'
  BY <1>0, <1>1, <1>2, <1>5, <1>6, Zenon DEF IdleInv, ShellInv
<1>11. FamilyInv'
  <2>1. current < next_pid
    BY DEF QueueInv
  <2>2. next_pid \in Nat
    BY ProcessesConstants DEF CoreType
  <2>3. \A q \in Pids : q >= next_pid => q # current
    BY <1>0, <2>1, <2>2, SMTT(30)
  <2> QED BY <1>0, <1>1, <1>5, <1>6, <2>3 DEF FamilyInv
<1>12. HandInv'
  <2>1. \A p \in Pids : InHand(p)' => InHand(p)
    BY <1>0, <1>1, SMTT(30) DEF InHand
  <2>2. \A p \in Pids : pc'[p] \in {"create", "load"} =>
            /\ pc[p] \in {"create", "load"} /\ local[p].child # current
            /\ local[p].child \in Pids
    BY <1>0, <1>1, Zenon DEF HandInv, InHand, QueueInv
  <2>3. \A q \in Pids \ {current} : pcb[q].state = "READY" => pcb'[q].state = "READY"
    BY <1>6, Zenon
  <2> QED BY <1>1, <1>5, <2>1, <2>2, <2>3, HandSame, Zenon
<1>13. CurrentInv' /\ OneRunning'
  BY <1>0, <1>1, <1>5, <1>6, SMTT(30) DEF CurrentInv, OneRunning, YieldPlaces
<1>14. NoLostExit'
  <2>1. Tabled' = Tabled
    BY <1>1, Zenon DEF Tabled
  <2> SUFFICES ASSUME NEW p \in Tabled, pcb'[p].state = "BLOCKED",
                      pc'[p] \in {"wait", "wait_yield"}, NEW c \in Awaited(p)'
               PROVE  pcb'[c].state # "DEAD"
    BY <2>1, Zenon DEF NoLostExit
  <2>2. p \in Pids /\ p # current /\ p # idle
    BY <1>0, <1>1, <1>6, Zenon DEF IdleInv
  <2>3. pcb[p].state = "BLOCKED" /\ pc[p] \in {"wait", "wait_yield"}
    BY <1>0, <1>1, <1>6, <2>2, Zenon
  <2>4. c \in Awaited(p) /\ c \in Pids
    BY <1>0, <1>1, <1>5, <2>1, <2>2, Zenon DEF Awaited
  <2>5. c # current
    <3> SUFFICES ASSUME c = current PROVE FALSE
      OBVIOUS
    <3>1. parent = p
      BY <2>2, <2>3, <2>4, Zenon DEF Awaited, HandInv, InHand, parent
    <3>2. p > 0
      BY <1>0, <2>2 DEF idle
    <3> QED BY <1>6, <3>1, <3>2, Zenon
  <2> QED BY <1>6, <2>3, <2>4, <2>5, Zenon DEF NoLostExit
<1> QED BY <1>8, <1>9, <1>10, <1>11, <1>12, <1>13, <1>14
-----------------------------------------------------------------------------
\* A queue with one more process.
LEMMA AppendFacts ==
    ASSUME queue \in Seq(Pids), IsInjective(queue),
           NEW c \in Pids, c \notin Queued, queue' = Append(queue, c)
    PROVE  /\ queue' \in Seq(Pids) /\ IsInjective(queue)'
           /\ \A p : p \in Queued' <=> p \in Queued \/ p = c
<1> DEFINE L == Len(queue)
<1>1. L \in Nat /\ DOMAIN queue = 1 .. L
  OBVIOUS
<1>2. queue' \in Seq(Pids) /\ Len(queue') = L + 1
  OBVIOUS
<1>8. DOMAIN queue' = 1 .. L + 1
  BY <1>2
<1>9. queue'[L + 1] = c /\ \A i \in 1 .. L : queue'[i] = queue[i]
  BY <1>1
<1>3. \A i \in 1 .. L : queue[i] # c
  BY DEF Queued
<1>4. \A i \in 1 .. L + 1 : i \in 1 .. L \/ i = L + 1
  BY <1>1
<1>5. IsInjective(queue)'
  BY <1>1, <1>8, <1>9, <1>3, <1>4 DEF IsInjective
<1>6. L + 1 \in 1 .. L + 1 /\ \A i \in 1 .. L : i \in 1 .. L + 1
  BY <1>1
<1>7. \A p : p \in Queued' <=> p \in Queued \/ p = c
  BY <1>2, <1>9, <1>4, <1>6, Zenon DEF Queued
<1> QED BY <1>2, <1>5, <1>7

\* The queue after scheduler_add: the new process may be off it, if the tail is.
LEMMA AddFacts ==
    ASSUME queue \in Seq(Pids), IsInjective(queue),
           NEW c \in Pids, c \notin Queued, scheduler_add(c)
    PROVE  /\ queue' \in Seq(Pids) /\ IsInjective(queue)'
           /\ \A p \in Queued' : p \in Queued \/ p = c
           /\ \A p \in Queued : p \in Queued'
<1>1. CASE queue' = Append(queue, c)
  BY <1>1, AppendFacts, Zenon
<1>2. CASE queue' = queue
  BY <1>2, Zenon DEF Queued
<1> QED BY <1>1, <1>2, Zenon DEF scheduler_add
-----------------------------------------------------------------------------
\* A PCB for the next PID, with the current process as the parent.
LEMMA NewbornFacts ==
    ASSUME IInv, next_pid < MaxPid, current # idle,
           pcb' = [pcb EXCEPT ![next_pid] = NewPcb(current)],
           next_pid' = next_pid + 1
    PROVE  /\ next_pid \in Pids /\ next_pid \notin Queued
           /\ next_pid \notin {idle, shell, current}
           /\ next_pid' \in 0 .. MaxPid /\ next_pid' > shell
           /\ \A p \in Queued : p < next_pid'
           /\ \A p \in Pids : InHand(p) => local[p].child # next_pid
           /\ pcb' \in [Pids -> Pcb]
           /\ pcb'[next_pid].state = "READY" /\ pcb'[next_pid].parent = current
           /\ \A p \in Pids \ {next_pid} : pcb'[p] = pcb[p]
           /\ FamilyInv'
<1>0. /\ Pids \subseteq Nat /\ current \in Pids /\ current \in Queued
      /\ Queued \subseteq Pids /\ idle \in Pids /\ shell \in Pids
      /\ pcb \in [Pids -> Pcb] /\ next_pid \in Nat
      /\ \A p \in Queued : p < next_pid
      /\ next_pid > shell
  BY Basics, ProcessesConstants DEF IInv, CoreType, QueueInv, Pids
<1>1. /\ next_pid \in Pids /\ next_pid \notin Queued
      /\ next_pid \notin {idle, shell, current}
      /\ next_pid' \in 0 .. MaxPid /\ next_pid' > shell
  BY <1>0, ProcessesConstants DEF Pids, idle, shell
<1>2. \A p \in Queued : p < next_pid'
  BY <1>0
<1>3. \A p \in Pids : InHand(p) => local[p].child # next_pid
  <2>1. \A p \in Pids : InHand(p) => local[p].child < next_pid
    BY Basics, Zenon
  <2>2. ~(next_pid < next_pid)
    BY <1>0
  <2> QED BY <2>1, <2>2, Zenon
<1>4. /\ NewPcb(current) \in Pcb
      /\ NewPcb(current).state = "READY" /\ NewPcb(current).parent = current
  BY <1>0, ProcessesConstants DEF NewPcb, Pcb, States
<1>5. /\ pcb' \in [Pids -> Pcb]
      /\ pcb'[next_pid].state = "READY" /\ pcb'[next_pid].parent = current
      /\ \A p \in Pids \ {next_pid} : pcb'[p] = pcb[p]
  BY <1>0, <1>1, <1>4, Zenon
<1>6. FamilyInv'
  <2>1. \A q \in Pids : q >= next_pid' => q # next_pid /\ q >= next_pid
    BY <1>0
  <2>2. next_pid < next_pid' /\ shell < next_pid
    BY <1>0 DEF shell
  <2>3. \A q \in Pids : q < next_pid => q < next_pid'
    BY <1>0
  <2> QED BY <1>0, <1>1, <1>5, <2>1, <2>2, <2>3, Zenon DEF IInv, FamilyInv
<1> QED BY <1>1, <1>2, <1>3, <1>5, <1>6, SMTT(30)

LEMMA ForkInv == IInv /\ sys_fork => IInv'
<1> SUFFICES ASSUME IInv, sys_fork PROVE IInv'
  OBVIOUS
<1>0. /\ current \in Pids /\ Tabled \subseteq Pids /\ idle \in Pids
      /\ shell \in Pids /\ pc[current] = "user" /\ current # idle
  BY Basics, Zenon DEF sys_fork, Invokes, At
<1>1. /\ pcb' = [pcb EXCEPT ![next_pid] = NewPcb(current)]
      /\ next_pid' = next_pid + 1 /\ next_pid < MaxPid
      /\ scheduler_add(next_pid)
      /\ UNCHANGED <<current, pc, local, iflag, isr0, now, pending_key,
                     keyboard_waiting, panicked>>
  BY DEF sys_fork, keyboard
<1>2. PICK s \in Slots : process_table' = [process_table EXCEPT ![s] = next_pid]
  BY Zenon DEF sys_fork
<1>3. /\ next_pid \in Pids /\ next_pid \notin Queued
      /\ next_pid \notin {idle, shell, current}
      /\ next_pid' \in 0 .. MaxPid /\ next_pid' > shell
      /\ \A p \in Queued : p < next_pid'
      /\ \A p \in Pids : InHand(p) => local[p].child # next_pid
  BY <1>0, <1>1, NewbornFacts, Zenon
<1>4. /\ pcb' \in [Pids -> Pcb]
      /\ pcb'[next_pid].state = "READY" /\ pcb'[next_pid].parent = current
      /\ \A p \in Pids \ {next_pid} : pcb'[p] = pcb[p]
      /\ FamilyInv'
  BY <1>0, <1>1, NewbornFacts, Zenon
<1>5. /\ queue' \in Seq(Pids) /\ IsInjective(queue)'
      /\ \A p \in Queued' : p \in Queued \/ p = next_pid
      /\ \A p \in Queued : p \in Queued'
  BY <1>1, <1>3, AddFacts, Zenon DEF IInv, CoreType, QueueInv
<1> USE DEF IInv
<1>6. CoreType'
  BY <1>1, <1>2, <1>3, <1>4, <1>5, SMTT(30) DEF CoreType
<1>7. QueueInv'
  <2>1. next_pid < next_pid'
    BY <1>1, SMTT(30) DEF CoreType
  <2> QED BY <1>1, <1>3, <1>5, <2>1, Zenon DEF QueueInv
<1>8. IdleInv' /\ ShellInv'
  BY <1>0, <1>1, <1>3, <1>4, SMTT(30) DEF IdleInv, ShellInv
<1>9. HandInv'
  <2>1. \A p \in Pids : InHand(p)' <=> InHand(p)
    BY <1>1, Zenon DEF InHand
  <2>2. ASSUME NEW p \in Pids, InHand(p)
        PROVE  /\ local'[p] = local[p] /\ local[p].child \in Pids \ {next_pid}
               /\ pcb'[local[p].child] = pcb[local[p].child]
    <3>1. local[p].child \in Pids \ {next_pid}
      BY <1>3, <2>2, Zenon DEF HandInv
    <3> QED BY <1>1, <1>4, <3>1, Zenon
  <2>3. ASSUME NEW p \in Pids, pc'[p] \in {"create", "load"}
        PROVE  /\ local'[p].child \notin Queued'
               /\ pcb'[local'[p].child].state = "READY"
    <3>1. InHand(p) /\ pc[p] \in {"create", "load"}
      BY <1>1, <2>3, Zenon DEF InHand
    <3>2. /\ local[p].child \notin Queued /\ pcb[local[p].child].state = "READY"
      BY <3>1, Zenon DEF HandInv
    <3> QED BY <1>5, <2>2, <3>1, <3>2, Zenon
  <2>4. ASSUME NEW p \in Pids, InHand(p)
        PROVE  /\ local'[p].child \in Pids /\ pcb'[local'[p].child].parent = p
               /\ local'[p].slot \in Slots
    <3>1. pcb[local[p].child].parent = p /\ local[p].slot \in Slots
      BY <2>4, Zenon DEF HandInv
    <3> QED BY <2>2, <2>4, <3>1, Zenon
  <2> QED BY <2>1, <2>3, <2>4, Zenon DEF HandInv
<1>10. CurrentInv' /\ OneRunning'
  BY <1>0, <1>1, <1>3, <1>4, Zenon DEF CurrentInv, OneRunning
<1>11. NoLostExit'
  <2>1. \A p \in Tabled' : p = next_pid \/ p \in Tabled
    BY <1>2, SMTT(30) DEF Tabled, CoreType
  <2>2. \A p \in Pids : \A c \in Awaited(p)' : c = next_pid \/ c \in Awaited(p)
    <3>1. \A c \in Tabled' : c = next_pid \/ (c \in Tabled /\ pcb'[c] = pcb[c])
      BY <1>0, <1>4, <2>1, Zenon
    <3> QED BY <1>1, <3>1, Zenon DEF Awaited
  <2>3. \A p \in Pids : \A c \in Awaited(p) : c \in Pids
    BY <1>0, Zenon DEF Awaited
  <2> QED BY <1>0, <1>1, <1>4, <2>1, <2>2, <2>3, LostSame, Zenon
<1> QED BY <1>4, <1>6, <1>7, <1>8, <1>9, <1>10, <1>11, SMTT(30)

LEMMA CreateInv == IInv /\ process_create_pcb => IInv'
<1> SUFFICES ASSUME IInv, process_create_pcb PROVE IInv'
  OBVIOUS
<1>0. /\ current \in Pids /\ Tabled \subseteq Pids /\ idle \in Pids
      /\ shell \in Pids /\ pc[current] = "spawn" /\ current # idle
      /\ pc \in [Pids -> Places] /\ DOMAIN local = Pids
  BY Basics, Zenon DEF process_create_pcb, At, IInv, CoreType
<1>1. /\ pcb' = [pcb EXCEPT ![next_pid] = NewPcb(current)]
      /\ next_pid' = next_pid + 1 /\ next_pid < MaxPid
      /\ pc' = [pc EXCEPT ![current] = "create"]
      /\ UNCHANGED <<process_table, queue, current, iflag, isr0, now,
                     pending_key, keyboard_waiting, panicked>>
  BY Zenon DEF process_create_pcb, keyboard, Goto
<1>2. PICK s \in Slots :
         local' = [local EXCEPT ![current] = [slot |-> s, child |-> next_pid]]
  BY Zenon DEF process_create_pcb
<1>3. /\ next_pid \in Pids /\ next_pid \notin Queued
      /\ next_pid \notin {idle, shell, current}
      /\ next_pid' \in 0 .. MaxPid /\ next_pid' > shell
      /\ \A p \in Queued : p < next_pid'
      /\ \A p \in Pids : InHand(p) => local[p].child # next_pid
  BY <1>0, <1>1, NewbornFacts, Zenon
<1>4. /\ pcb' \in [Pids -> Pcb]
      /\ pcb'[next_pid].state = "READY" /\ pcb'[next_pid].parent = current
      /\ \A p \in Pids \ {next_pid} : pcb'[p] = pcb[p]
      /\ FamilyInv'
  BY <1>0, <1>1, NewbornFacts, Zenon
<1>5. /\ pc'[current] = "create"
      /\ local'[current].slot = s /\ local'[current].child = next_pid
      /\ \A p \in Pids \ {current} : pc'[p] = pc[p] /\ local'[p] = local[p]
  BY <1>0, <1>1, <1>2, SMTT(30)
<1> USE DEF IInv
<1>6. CoreType'
  BY <1>1, <1>2, <1>3, <1>4, SMTT(30) DEF CoreType, Places
<1>7. QueueInv'
  <2>1. Queued' = Queued
    BY <1>1, Zenon DEF Queued
  <2> QED BY <2>1, <1>1, <1>3, Zenon DEF QueueInv
<1>8. IdleInv' /\ ShellInv'
  <2>1. pcb'[idle] = pcb[idle] /\ pc'[idle] = pc[idle]
    BY <1>0, <1>3, <1>4, <1>5, Zenon
  <2>2. IdleInv'
    BY <1>1, <2>1, Zenon DEF IdleInv
  <2>3. ShellInv'
    BY <1>0, <1>5, Zenon DEF ShellInv
  <2> QED BY <2>2, <2>3, Zenon
<1>9. HandInv'
  <2>1. Queued' = Queued
    BY <1>1, Zenon DEF Queued
  <2>2. \A p \in Pids \ {current} : InHand(p)' => InHand(p)
    BY <1>5, Zenon DEF InHand
  <2>3. ASSUME NEW p \in Pids \ {current}, InHand(p)
        PROVE  /\ local'[p] = local[p] /\ local[p].child \in Pids
               /\ pcb'[local[p].child] = pcb[local[p].child]
    <3>1. local[p].child \in Pids \ {next_pid}
      BY <1>3, <2>3, Zenon DEF HandInv
    <3> QED BY <1>4, <1>5, <3>1, Zenon
  <2>4. ASSUME NEW p \in Pids, InHand(p)'
        PROVE  /\ local'[p].child \in Pids /\ pcb'[local'[p].child].parent = p
               /\ local'[p].slot \in Slots
    <3>1. CASE p = current
      BY <1>3, <1>4, <1>5, <3>1, Zenon
    <3>2. CASE p # current
      BY <2>2, <2>3, <2>4, <3>2, Zenon DEF HandInv
    <3> QED BY <3>1, <3>2, Zenon
  <2>5. ASSUME NEW p \in Pids, pc'[p] \in {"create", "load"}
        PROVE  /\ local'[p].child \notin Queued'
               /\ pcb'[local'[p].child].state = "READY"
    <3>1. CASE p = current
      BY <1>3, <1>4, <1>5, <2>1, <3>1, Zenon
    <3>2. CASE p # current
      <4>1. InHand(p) /\ pc[p] \in {"create", "load"}
        BY <1>5, <2>5, <3>2, Zenon DEF InHand
      <4>2. /\ local[p].child \notin Queued /\ pcb[local[p].child].state = "READY"
        BY <4>1, Zenon DEF HandInv
      <4> QED BY <2>1, <2>3, <3>2, <4>1, <4>2, Zenon
    <3> QED BY <3>1, <3>2, Zenon
  <2> QED BY <2>4, <2>5, Zenon DEF HandInv
<1>10. CurrentInv' /\ OneRunning'
  BY <1>0, <1>1, <1>3, <1>4, SMTT(30) DEF CurrentInv, OneRunning, YieldPlaces
<1>11. NoLostExit'
  <2>1. Tabled' = Tabled
    BY <1>1, SMTT(30) DEF Tabled
  <2>2. \A p \in Pids \ {current} :
            \A c \in Awaited(p)' : c = next_pid \/ (c \in Awaited(p) /\ c \in Pids)
    BY <1>0, <1>1, <1>4, <1>5, <2>1, Zenon DEF Awaited
  <2>3. \A p \in Tabled : pcb'[p].state = "BLOCKED" /\ pc'[p] \in {"wait", "wait_yield"} =>
            /\ pcb[p].state = "BLOCKED" /\ pc[p] \in {"wait", "wait_yield"}
            /\ p \in Pids \ {current}
    <3> SUFFICES ASSUME NEW p \in Tabled, pcb'[p].state = "BLOCKED",
                        pc'[p] \in {"wait", "wait_yield"}
                 PROVE  /\ pcb[p].state = "BLOCKED" /\ pc[p] \in {"wait", "wait_yield"}
                        /\ p \in Pids \ {current}
      OBVIOUS
    <3>1. p \in Pids /\ p # current /\ p # next_pid
      BY <1>0, <1>4, <1>5, Zenon
    <3> QED BY <1>4, <1>5, <3>1, Zenon
  <2>4. ASSUME NEW p \in Pids \ {current}, NEW c \in Awaited(p)', pcb'[c].state = "DEAD"
        PROVE  c \in Awaited(p) /\ pcb[c].state = "DEAD"
    BY <1>4, <2>2, <2>4, Zenon
  <2> QED BY <2>1, <2>3, <2>4, LostSame, Zenon
<1> QED BY <1>4, <1>6, <1>7, <1>8, <1>9, <1>10, <1>11
-----------------------------------------------------------------------------
LEMMA FoundInv == IInv /\ wait_found => IInv'
<1> SUFFICES ASSUME IInv, wait_found PROVE IInv'
  OBVIOUS
<1>0. /\ current \in Pids /\ Tabled \subseteq Pids /\ idle \in Pids
      /\ shell \in Pids /\ pc[current] = "wait" /\ current # idle
      /\ pc \in [Pids -> Places] /\ DOMAIN local = Pids
  BY Basics, Zenon DEF wait_found, At, IInv, CoreType
<1>1. PICK s \in Slots :
        /\ DeadChildAt(s)
        /\ local' = [local EXCEPT ![current] =
                        [slot |-> s, child |-> process_table[s]]]
  BY Zenon DEF wait_found
<1>2. /\ pc' = [pc EXCEPT ![current] = "unlink"] /\ iflag' = TRUE
      /\ UNCHANGED <<process_table, queue, current, next_pid, pcb, isr0, now,
                     pending_key, keyboard_waiting, panicked>>
  BY Zenon DEF wait_found, Goto, keyboard
<1> DEFINE c == process_table[s]
<1>3. c \in Pids /\ pcb[c].parent = current
  <2>1. c \in Awaited(current)
    BY <1>1, Zenon DEF DeadChildAt
  <2>2. CASE current = shell
    BY <1>0, <2>1, <2>2, Zenon DEF Awaited, IInv, HandInv, InHand
  <2>3. CASE current # shell
    BY <1>0, <2>1, <2>3, Zenon DEF Awaited
  <2> QED BY <2>2, <2>3
<1>4. /\ pc'[current] = "unlink"
      /\ local'[current].slot = s /\ local'[current].child = c
      /\ \A p \in Pids \ {current} : pc'[p] = pc[p] /\ local'[p] = local[p]
  BY <1>0, <1>1, <1>2, Zenon
<1> HIDE DEF c
<1> USE DEF IInv
<1>5. CoreType'
  BY <1>1, <1>2, <1>3, Zenon DEF CoreType, Places, c
<1>6. QueueInv' /\ FamilyInv' /\ OneRunning'
  BY <1>2, Zenon DEF QueueInv, Queued, FamilyInv, OneRunning
<1>7. IdleInv' /\ ShellInv'
  BY <1>0, <1>2, <1>4, Zenon DEF IdleInv, ShellInv
<1>8. HandInv'
  <2>1. Queued' = Queued
    BY <1>2, Zenon DEF Queued
  <2>2. \A p \in Pids \ {current} : InHand(p)' => InHand(p)
    BY <1>4, Zenon DEF InHand
  <2>3. ASSUME NEW p \in Pids, InHand(p)'
        PROVE  /\ local'[p].child \in Pids /\ pcb'[local'[p].child].parent = p
               /\ local'[p].slot \in Slots
    <3>1. CASE p = current
      BY <1>1, <1>2, <1>3, <1>4, <3>1, Zenon
    <3>2. CASE p # current
      <4>1. local'[p] = local[p] /\ InHand(p)
        BY <1>4, <2>2, <2>3, <3>2, Zenon
      <4>2. /\ local[p].child \in Pids /\ pcb[local[p].child].parent = p
            /\ local[p].slot \in Slots
        BY <4>1, Zenon DEF HandInv
      <4> QED BY <1>2, <4>1, <4>2, Zenon
    <3> QED BY <3>1, <3>2, Zenon
  <2>4. ASSUME NEW p \in Pids, pc'[p] \in {"create", "load"}
        PROVE  /\ local'[p].child \notin Queued'
               /\ pcb'[local'[p].child].state = "READY"
    <3>1. p # current
      BY <1>4, <2>4, Zenon
    <3> QED BY <1>2, <1>4, <2>1, <2>4, <3>1, Zenon DEF HandInv
  <2> QED BY <2>3, <2>4, Zenon DEF HandInv
<1>9. CurrentInv'
  BY <1>0, <1>2, Zenon DEF CurrentInv, YieldPlaces
<1>10. NoLostExit'
  <2>1. Tabled' = Tabled
    BY <1>2, Zenon DEF Tabled
  <2>2. \A p \in Pids \ {current} : \A d \in Awaited(p)' : d \in Awaited(p)
    BY <1>0, <1>2, <1>4, <2>1, Zenon DEF Awaited
  <2> QED BY <1>0, <1>2, <1>4, <2>1, <2>2 DEF NoLostExit
<1> QED BY <1>5, <1>6, <1>7, <1>8, <1>9, <1>10, Zenon

\* The queue without one of its processes.
LEMMA SplicedFacts ==
    ASSUME queue \in Seq(Pids), IsInjective(queue),
           NEW i \in 1 .. Len(queue), queue' = Spliced(i)
    PROVE  /\ queue' \in Seq(Pids) /\ IsInjective(queue)'
           /\ \A p : p \in Queued' <=> p \in Queued /\ p # queue[i]
<1> DEFINE L == Len(queue)
<1>1. L \in Nat /\ L > 0 /\ L - 1 \in Nat /\ DOMAIN queue = 1 .. L
      /\ \A j \in 1 .. L : queue[j] \in Pids
  OBVIOUS
<1>2. /\ queue' = [j \in 1 .. L - 1 |-> IF j < i THEN queue[j] ELSE queue[j + 1]]
      /\ DOMAIN queue' = 1 .. L - 1
  BY DEF Spliced
<1>3. \A j \in 1 .. L - 1 : j \in 1 .. L /\ j + 1 \in 1 .. L
  BY <1>1
<1>4. queue' \in Seq(Pids) /\ Len(queue') = L - 1
  BY <1>1, <1>2, <1>3
<1>5. \A j, k \in 1 .. L : queue[j] = queue[k] => j = k
  BY <1>1, Zenon DEF IsInjective
<1>6. ASSUME NEW j \in 1 .. L - 1, NEW k \in 1 .. L - 1, queue'[j] = queue'[k]
      PROVE  j = k
  BY <1>1, <1>2, <1>3, <1>5, <1>6
<1>7. IsInjective(queue)'
  BY <1>2, <1>6, Zenon DEF IsInjective
<1>8. ASSUME NEW p \in Queued' PROVE p \in Queued /\ p # queue[i]
  <2>1. PICK j \in 1 .. L - 1 : p = queue'[j]
    BY <1>4, Zenon DEF Queued
  <2>2. CASE j < i
    BY <1>1, <1>2, <1>3, <1>5, <2>1, <2>2 DEF Queued
  <2>3. CASE ~(j < i)
    <3>1. p = queue[j + 1] /\ j + 1 \in 1 .. L /\ j + 1 # i
      BY <1>1, <1>2, <1>3, <2>1, <2>3
    <3> QED BY <1>5, <3>1, Zenon DEF Queued
  <2> QED BY <2>2, <2>3
<1>9. ASSUME NEW p \in Queued, p # queue[i] PROVE p \in Queued'
  <2>1. PICK j \in 1 .. L : p = queue[j]
    BY Zenon DEF Queued
  <2>2. CASE j < i
    <3>1. j \in 1 .. L - 1 /\ queue'[j] = p
      BY <1>1, <1>2, <2>1, <2>2
    <3> QED BY <1>4, <3>1, Zenon DEF Queued
  <2>3. CASE j > i
    <3>1. j - 1 \in 1 .. L - 1 /\ ~(j - 1 < i) /\ (j - 1) + 1 = j
      BY <1>1, <2>3
    <3>2. queue'[j - 1] = p
      BY <1>2, <2>1, <3>1, Zenon
    <3> QED BY <1>4, <3>1, <3>2, Zenon DEF Queued
  <2> QED BY <1>1, <1>9, <2>1, <2>2, <2>3
<1> QED BY <1>4, <1>7, <1>8, <1>9, Zenon

LEMMA SpliceInv == IInv /\ remove_splice => IInv'
<1> SUFFICES ASSUME IInv, remove_splice PROVE IInv'
  OBVIOUS
<1> DEFINE c == local[current].child
<1>0. /\ current \in Pids /\ Tabled \subseteq Pids /\ idle \in Pids
      /\ shell \in Pids /\ pc[current] = "walk" /\ current # idle
      /\ pc \in [Pids -> Places] /\ c \notin {idle, shell, current}
  BY Basics, Zenon DEF remove_splice, At, IInv, CoreType, InHand
<1>1. /\ pc' = [pc EXCEPT ![current] = "tail"]
      /\ UNCHANGED <<process_table, current, next_pid, pcb, local, iflag, isr0,
                     now, pending_key, keyboard_waiting, panicked>>
  BY Zenon DEF remove_splice, Goto, keyboard
<1>2. /\ queue' \in Seq(Pids) /\ IsInjective(queue)'
      /\ \A p \in Queued' : p \in Queued
      /\ \A p \in Queued : p # c => p \in Queued'
  <2>0. queue \in Seq(Pids) /\ IsInjective(queue)
    BY Zenon DEF IInv, CoreType, QueueInv
  <2>1. CASE \E i \in 2 .. Len(queue) :
                 queue[i - 1] = walk[current].prev /\ queue[i] = c /\ queue' = Spliced(i)
    <3>1. PICK i \in 2 .. Len(queue) : queue[i] = c /\ queue' = Spliced(i)
      BY <2>1, Zenon
    <3>2. i \in 1 .. Len(queue)
      BY <2>0
    <3> QED BY <2>0, <3>1, <3>2, SplicedFacts, Zenon
  <2>2. CASE UNCHANGED queue
    BY <2>0, <2>2, Zenon DEF Queued
  <2> QED BY <2>1, <2>2, Zenon DEF remove_splice
<1>3. /\ pc'[current] = "tail" /\ \A p \in Pids \ {current} : pc'[p] = pc[p]
  BY <1>0, <1>1, Zenon
<1> HIDE DEF c
<1> USE DEF IInv
<1>4. CoreType'
  BY <1>1, <1>2, Zenon DEF CoreType, Places
<1>5. QueueInv'
  BY <1>0, <1>1, <1>2, Zenon DEF QueueInv
<1>6. FamilyInv' /\ OneRunning'
  BY <1>1, Zenon DEF FamilyInv, OneRunning
<1>7. IdleInv' /\ ShellInv'
  BY <1>0, <1>1, <1>3, Zenon DEF IdleInv, ShellInv
<1>8. HandInv'
  <2>1. \A p \in Pids : InHand(p)' => InHand(p)
    BY <1>0, <1>3, Zenon DEF InHand
  <2>2. \A p \in Pids : pc'[p] \in {"create", "load"} => pc[p] \in {"create", "load"}
    BY <1>0, <1>3, Zenon
  <2>3. \A p \in Pids : pc'[p] \in {"create", "load"} =>
            /\ local'[p].child \notin Queued'
            /\ pcb'[local'[p].child].state = "READY"
    BY <1>1, <1>2, <2>2, Zenon DEF HandInv
  <2> QED BY <1>1, <2>1, <2>3, Zenon DEF HandInv
<1>9. CurrentInv'
  BY <1>0, <1>1, Zenon DEF CurrentInv, YieldPlaces
<1>10. NoLostExit'
  <2>1. Tabled' = Tabled /\ \A p \in Pids : Awaited(p)' = Awaited(p)
    BY <1>1, Zenon DEF Tabled, Awaited
  <2>2. \A p \in Pids : pc'[p] \in {"wait", "wait_yield"} => pc[p] = pc'[p]
    BY <1>0, <1>3, Zenon
  <2>3. \A p \in Tabled : p \in Pids
    BY <1>0, Zenon
  <2> QED BY <1>1, <2>1, <2>2, <2>3, LostSame, Zenon
<1> QED BY <1>4, <1>5, <1>6, <1>7, <1>8, <1>9, <1>10, Zenon

\* The child in hand is freed: the end of a wait, or of a failed spawn.
LEMMA ReleaseInv ==
    ASSUME IInv, pc[current] \in {"reap", "load"}, NEW to \in {"getchar", "sysret"},
           Release(local[current].slot, local[current].child),
           pc' = [pc EXCEPT ![current] = to], current = shell => to = "getchar",
           UNCHANGED <<queue, current, next_pid, iflag, isr0, now, keyboard,
                       panicked>>
    PROVE  IInv'
<1> DEFINE c == local[current].child
           s == local[current].slot
<1>0. /\ current \in Pids /\ Tabled \subseteq Pids /\ idle \in Pids
      /\ shell \in Pids /\ current # idle /\ c \in Pids /\ s \in Slots
      /\ pc \in [Pids -> Places] /\ c \notin {idle, shell, current}
      /\ pcb[c].parent = current
  BY Basics, Zenon DEF IInv, CoreType, InHand
<1>1. /\ process_table' = [process_table EXCEPT ![s] = None]
      /\ pcb' = [pcb EXCEPT ![c] = NoPcb]
      /\ local' = [local EXCEPT ![current] = NoLocal]
      /\ UNCHANGED <<queue, current, next_pid, iflag, isr0, now, pending_key,
                     keyboard_waiting, panicked>>
  BY Zenon DEF Release, keyboard
<1>2. NoPcb \in Pcb /\ NoPcb.parent = 0 /\ NoPcb.state = "FREE"
  BY ProcessesConstants DEF Pcb, States, NoPcb, Pids, shell
<1>3. /\ pc'[current] = to /\ \A p \in Pids \ {current} : pc'[p] = pc[p]
      /\ \A p \in Pids \ {current} : local'[p] = local[p]
      /\ pcb'[c].parent = 0 /\ pcb'[c].state = "FREE"
      /\ \A p \in Pids \ {c} : pcb'[p] = pcb[p]
  BY <1>0, <1>1, <1>2, Zenon DEF IInv, CoreType
<1> HIDE DEF c, s
<1> USE DEF IInv
<1>4. CoreType'
  <2>1. pcb' \in [Pids -> Pcb] /\ process_table' \in [Slots -> Pids \cup {None}]
    BY <1>1, <1>2, ZenonT(60) DEF CoreType
  <2>2. local' \in [Pids -> [slot : Slots \cup {None}, child : Pids \cup {None}]]
    BY <1>1, Zenon DEF CoreType, NoLocal
  <2>3. pc' \in [Pids -> Places]
    BY <1>0, Zenon DEF Places
  <2> QED BY <1>1, <2>1, <2>2, <2>3, Zenon DEF CoreType
<1>5. QueueInv'
  BY <1>1, Zenon DEF QueueInv, Queued
<1>6. FamilyInv' /\ OneRunning'
  BY <1>0, <1>1, <1>3 DEF FamilyInv, OneRunning
<1>7. IdleInv' /\ ShellInv'
  BY <1>0, <1>1, <1>3, SMTT(30) DEF IdleInv, ShellInv
<1>8. HandInv'
  <2>1. Queued' = Queued
    BY <1>1, Zenon DEF Queued
  <2>2. ~InHand(current)'
    BY <1>0, <1>1, <1>3, Zenon DEF InHand
  <2>3. \A p \in Pids \ {current} : InHand(p)' => InHand(p)
    BY <1>3, Zenon DEF InHand
  <2>4. ASSUME NEW p \in Pids \ {current}, InHand(p)
        PROVE  local[p].child \in Pids \ {c}
    <3>1. local[p].child \in Pids /\ pcb[local[p].child].parent = p
      BY <2>4, Zenon DEF HandInv
    <3> QED BY <1>0, <3>1, Zenon
  <2>5. ASSUME NEW p \in Pids, InHand(p)'
        PROVE  /\ local'[p].child \in Pids /\ pcb'[local'[p].child].parent = p
               /\ local'[p].slot \in Slots
    <3>1. p # current /\ InHand(p)
      BY <2>2, <2>3, <2>5, Zenon
    <3>2. local'[p] = local[p] /\ pcb'[local[p].child] = pcb[local[p].child]
      BY <1>3, <2>4, <3>1, Zenon
    <3>3. /\ local[p].child \in Pids /\ pcb[local[p].child].parent = p
          /\ local[p].slot \in Slots
      BY <3>1, Zenon DEF HandInv
    <3> QED BY <3>2, <3>3, Zenon
  <2>6. ASSUME NEW p \in Pids, pc'[p] \in {"create", "load"}
        PROVE  /\ local'[p].child \notin Queued'
               /\ pcb'[local'[p].child].state = "READY"
    <3>1. p # current /\ pc[p] \in {"create", "load"}
      BY <1>3, <2>6, Zenon
    <3>2. InHand(p)
      BY <3>1, Zenon DEF InHand
    <3>3. local'[p] = local[p] /\ pcb'[local[p].child] = pcb[local[p].child]
      BY <1>3, <2>4, <3>1, <3>2, Zenon
    <3> QED BY <2>1, <3>1, <3>3, Zenon DEF HandInv
  <2> QED BY <2>5, <2>6, Zenon DEF HandInv
<1>9. CurrentInv'
  <2>1. pcb'[current] = pcb[current] /\ pcb[current].state = "RUNNING"
    BY <1>0, <1>3, Zenon DEF CurrentInv, YieldPlaces
  <2>2. pcb[current].ticks > 0
    BY Zenon DEF CurrentInv
  <2> QED BY <1>1, <2>1, <2>2, Zenon DEF CurrentInv
<1>10. NoLostExit'
  <2>1. \A p \in Tabled' : p \in Tabled
    BY <1>1, Zenon DEF Tabled, CoreType
  <2>2. \A p \in Pids \ {current, idle} : \A d \in Awaited(p)' :
            d \in Pids /\ (d = c \/ d \in Awaited(p))
    <3>1. \A d \in Tabled' : d \in Tabled /\ d \in Pids /\ (d = c \/ pcb'[d] = pcb[d])
      BY <1>0, <1>3, <2>1, Zenon
    <3>2. \A p \in Pids \ {current, idle} : local'[p] = local[p]
      BY <1>3, Zenon
    <3> QED BY <3>1, <3>2, Zenon DEF Awaited
  <2>3. pc'[idle] = "hlt"
    BY <1>7, Zenon DEF IdleInv
  <2> SUFFICES ASSUME NEW p \in Tabled', pcb'[p].state = "BLOCKED",
                      pc'[p] \in {"wait", "wait_yield"}, NEW d \in Awaited(p)'
               PROVE  pcb'[d].state # "DEAD"
    BY Zenon DEF NoLostExit
  <2>4. p \in Tabled /\ p \in Pids \ {current, idle, c}
    BY <1>0, <1>3, <2>1, <2>3, Zenon
  <2>5. d \in Pids /\ (d = c \/ d \in Awaited(p))
    BY <2>2, <2>4, Zenon
  <2>6. CASE d = c
    BY <1>3, <2>6, Zenon
  <2>7. CASE d # c
    <3>1. pcb[p].state = "BLOCKED" /\ pc[p] \in {"wait", "wait_yield"}
      BY <1>3, <2>4, Zenon
    <3>2. pcb[d].state # "DEAD"
      BY <2>4, <2>5, <2>7, <3>1, Zenon DEF NoLostExit
    <3> QED BY <1>3, <2>5, <2>7, <3>2, Zenon
  <2> QED BY <2>6, <2>7, Zenon
<1> QED BY <1>4, <1>5, <1>6, <1>7, <1>8, <1>9, <1>10, Zenon

LEMMA ReapInv == IInv /\ (wait_reap \/ process_spawn_fail) => IInv'
<1> SUFFICES ASSUME IInv, wait_reap \/ process_spawn_fail PROVE IInv'
  OBVIOUS
<1>1. CASE wait_reap
  BY <1>1, ReleaseInv, ZenonT(60) DEF wait_reap, At, Goto
<1>2. CASE process_spawn_fail
  BY <1>2, ReleaseInv, Zenon DEF process_spawn_fail, At, Goto
<1> QED BY <1>1, <1>2

LEMMA StoreInv == IInv /\ process_create_store => IInv'
<1> SUFFICES ASSUME IInv, process_create_store PROVE IInv'
  OBVIOUS
<1> DEFINE c == local[current].child
           s == local[current].slot
<1>0. /\ current \in Pids /\ Tabled \subseteq Pids /\ idle \in Pids
      /\ shell \in Pids /\ current # idle /\ c \in Pids /\ s \in Slots
      /\ pc \in [Pids -> Places] /\ pc[current] = "create"
  BY Basics, Zenon DEF process_create_store, At, IInv, CoreType, InHand
<1>1. /\ process_table' = [process_table EXCEPT ![s] = c]
      /\ pc' = [pc EXCEPT ![current] = "load"]
      /\ UNCHANGED <<queue, current, next_pid, pcb, local, iflag, isr0, now,
                     pending_key, keyboard_waiting, panicked>>
  BY Zenon DEF process_create_store, Goto, keyboard
<1>2. pcb[c].state = "READY"
  BY <1>0, Zenon DEF IInv, HandInv
<1>3. /\ pc'[current] = "load" /\ \A p \in Pids \ {current} : pc'[p] = pc[p]
  BY <1>0, <1>1, Zenon
<1> HIDE DEF c, s
<1> USE DEF IInv
<1>4. CoreType'
  BY <1>0, <1>1, SMTT(30) DEF CoreType, Places
<1>5. QueueInv' /\ FamilyInv' /\ OneRunning'
  BY <1>1, Zenon DEF QueueInv, Queued, FamilyInv, OneRunning
<1>6. IdleInv' /\ ShellInv'
  <2>1. pc'[idle] = pc[idle] /\ pc'[shell] \in {pc[shell], "load"}
    BY <1>0, <1>3, Zenon
  <2>2. IdleInv'
    BY <1>1, <2>1, Zenon DEF IdleInv
  <2>3. ShellInv'
    BY <2>1, Zenon DEF ShellInv
  <2> QED BY <2>2, <2>3, Zenon
<1>7. HandInv'
  <2>1. \A p \in Pids : InHand(p)' => InHand(p)
    BY <1>0, <1>3, Zenon DEF InHand
  <2>2. \A p \in Pids : pc'[p] \in {"create", "load"} => pc[p] \in {"create", "load"}
    BY <1>0, <1>3, Zenon
  <2> QED BY <1>1, <2>1, <2>2, HandSame, Zenon
<1>8. CurrentInv'
  <2>1. pcb[current].state = "RUNNING"
    BY <1>0, Zenon DEF CurrentInv, YieldPlaces
  <2> QED BY <1>1, <2>1, Zenon DEF CurrentInv
<1>9. NoLostExit'
  <2>1. \A p \in Tabled' : p = c \/ p \in Tabled
    BY <1>1, Zenon DEF Tabled, CoreType
  <2>2. \A p \in Pids : \A d \in Awaited(p)' : d = c \/ d \in Awaited(p)
    BY <1>0, <1>1, <2>1, Zenon DEF Awaited
  <2>3. \A p \in Pids : pc'[p] \in {"wait", "wait_yield"} => pc[p] = pc'[p]
    BY <1>0, <1>3, Zenon
  <2>4. \A p \in Tabled' : pcb'[p].state = "BLOCKED" => p \in Tabled /\ p \in Pids
    BY <1>0, <1>1, <1>2, <2>1, Zenon
  <2>5. \A p \in Pids : \A d \in Awaited(p)' : pcb'[d].state = "DEAD" =>
            d \in Awaited(p) /\ pcb[d].state = "DEAD"
    BY <1>1, <1>2, <2>2, Zenon
  <2> QED BY <1>1, <2>3, <2>4, <2>5, LostSame, Zenon
<1> QED BY <1>4, <1>5, <1>6, <1>7, <1>8, <1>9, Zenon

LEMMA SpawnInv == IInv /\ process_spawn_add => IInv'
<1> SUFFICES ASSUME IInv, process_spawn_add PROVE IInv'
  OBVIOUS
<1> DEFINE c == local[current].child
<1>0. /\ current \in Pids /\ Tabled \subseteq Pids /\ idle \in Pids
      /\ shell \in Pids /\ current # idle /\ c \in Pids
      /\ c \notin {idle, shell, current} /\ c < next_pid
      /\ pcb[c].parent = current
      /\ pc \in [Pids -> Places] /\ pc[current] = "load"
  BY Basics, SMTT(30) DEF process_spawn_add, At, IInv, CoreType, InHand
<1>1. /\ scheduler_add(c)
      /\ pcb' = [pcb EXCEPT ![c].state = "READY"]
      /\ pc' = [pc EXCEPT ![current] = "wait"]
      /\ UNCHANGED <<process_table, current, next_pid, local, iflag, isr0, now,
                     pending_key, keyboard_waiting, panicked>>
  BY DEF process_spawn_add, Goto, keyboard
<1>2. c \notin Queued /\ pcb[c].state = "READY"
  BY <1>0, Zenon DEF IInv, HandInv
<1>3. UNCHANGED pcb
  <2>1. pcb \in [Pids -> Pcb]
    BY Zenon DEF IInv, CoreType
  <2> QED BY <1>0, <1>1, <1>2, <2>1, ReadySame, Zenon
<1>4. /\ queue' \in Seq(Pids) /\ IsInjective(queue)'
      /\ \A p \in Queued' : p \in Queued \/ p = c
      /\ \A p \in Queued : p \in Queued'
  BY <1>0, <1>1, <1>2, AddFacts, Zenon DEF IInv, CoreType, QueueInv
<1>5. /\ pc'[current] = "wait" /\ \A p \in Pids \ {current} : pc'[p] = pc[p]
  BY <1>0, <1>1, Zenon
<1> HIDE DEF c
<1> USE DEF IInv
<1>6. CoreType'
  BY <1>1, <1>3, <1>4, Zenon DEF CoreType, Places
<1>7. QueueInv'
  BY <1>0, <1>1, <1>4 DEF QueueInv
<1>8. FamilyInv' /\ OneRunning'
  BY <1>1, <1>3, Zenon DEF FamilyInv, OneRunning
<1>9. IdleInv' /\ ShellInv'
  BY <1>0, <1>1, <1>3, <1>5, Zenon DEF IdleInv, ShellInv
<1>10. HandInv'
  <2>1. \A p \in Pids : InHand(p)' => InHand(p)
    BY <1>0, <1>5, Zenon DEF InHand
  <2>2. \A p \in Pids \ {current} : InHand(p) => local[p].child # c
    BY <1>0, Basics, Zenon
  <2> QED BY <1>1, <1>3, <1>4, <1>5, <2>1, <2>2 DEF HandInv, InHand
<1>11. CurrentInv'
  BY <1>0, <1>1, <1>3, <1>5 DEF CurrentInv, YieldPlaces
<1>12. NoLostExit'
  <2>1. pcb[current].state # "BLOCKED"
    BY <1>0, Zenon DEF CurrentInv, YieldPlaces
  <2>2. Tabled' = Tabled
    BY <1>1 DEF Tabled
  <2>3. \A p \in Pids : \A d \in Awaited(p)' : d \in Awaited(p)
    BY <1>1, <1>3, <2>2 DEF Awaited
  <2>4. \A p \in Pids : pc'[p] \in {"wait", "wait_yield"} /\ pcb[p].state = "BLOCKED" =>
            pc[p] = pc'[p]
    BY <1>0, <1>5, <2>1, Zenon
  <2> QED BY <1>0, <1>3, <2>2, <2>3, <2>4, LostSame, Zenon
<1> QED BY <1>6, <1>7, <1>8, <1>9, <1>10, <1>11, <1>12
-----------------------------------------------------------------------------
(***************************************************************************)
(* scheduler_tick keeps the invariant, called by the timer interrupt or by *)
(* scheduler_yield.                                                        *)
(***************************************************************************)
\* scheduler_tick before the walk: sleepers wake, the tick is counted.
LEMMA TickedFacts ==
    ASSUME IInv, NEW tick \in 0 .. TickModulus - 1, NEW ticks \in -1 .. TimeSlice
    PROVE  LET procs == Ticked(tick, ticks)
           IN  /\ procs \in [Pids -> Pcb]
               /\ procs[current].ticks = ticks
               /\ \A p \in Pids :
                     /\ procs[p].parent = pcb[p].parent
                     /\ procs[p].resume = pcb[p].resume
                     /\ \/ procs[p].state = pcb[p].state
                        \/ pcb[p].state = "SLEEPING" /\ procs[p].state = "READY"
<1> DEFINE procs == Ticked(tick, ticks)
           woken(p) == scheduler_wake_sleepers(p, tick)
<1>0. pcb \in [Pids -> Pcb] /\ current \in Pids
  BY DEF IInv, CoreType
<1>1. \A p \in Pids :
        /\ woken(p) \in Pcb
        /\ woken(p).parent = pcb[p].parent
        /\ woken(p).resume = pcb[p].resume
        /\ \/ woken(p).state = pcb[p].state
           \/ pcb[p].state = "SLEEPING" /\ woken(p).state = "READY"
  BY <1>0 DEF scheduler_wake_sleepers, Pcb, States
<1>2. \A p \in Pids : procs[p] = IF p = current
                                 THEN [woken(p) EXCEPT !.ticks = ticks]
                                 ELSE woken(p)
  BY DEF Ticked
<1>3. \A p \in Pids :
        LET other == [woken(p) EXCEPT !.ticks = ticks]
        IN  /\ other \in Pcb /\ other.ticks = ticks
            /\ other.parent = woken(p).parent
            /\ other.resume = woken(p).resume
            /\ other.state = woken(p).state
  <2> HIDE DEF woken
  <2> QED BY <1>1 DEF Pcb
<1>4. \A p \in Pids : procs[p] \in Pcb
  <2> HIDE DEF procs, woken
  <2> QED BY <1>1, <1>2, <1>3, Zenon
<1>5. procs \in [Pids -> Pcb]
  BY <1>4 DEF Ticked
<1> HIDE DEF procs, woken
<1>6. procs[current].ticks = ticks
  BY <1>0, <1>2, <1>3, Zenon
<1>7. \A p \in Pids :
        /\ procs[p].parent = pcb[p].parent
        /\ procs[p].resume = pcb[p].resume
        /\ \/ procs[p].state = pcb[p].state
           \/ pcb[p].state = "SLEEPING" /\ procs[p].state = "READY"
  BY <1>1, <1>2, <1>3, ZenonT(60)
<1> QED BY <1>5, <1>6, <1>7, Zenon DEF procs

\* What scheduler_tick does to the PCBs and to the interrupt state.
LEMMA RescheduleFacts ==
    ASSUME IInv, NEW tick \in 0 .. TickModulus - 1, NEW ticks \in -1 .. TimeSlice,
           NEW how \in {"irq", "yield"}, NEW flag \in BOOLEAN, NEW isr \in BOOLEAN,
           current = idle => how = "irq",
           Reschedule(Ticked(tick, ticks), how, flag, isr)
    PROVE  /\ pcb' \in [Pids -> Pcb] /\ current' \in Queued
           /\ iflag' \in BOOLEAN /\ isr0' \in BOOLEAN
           /\ current = idle \/ current' # current
           /\ pcb'[current'].state \in {"READY", "RUNNING"} /\ pcb'[current'].ticks > 0
           /\ IF current' = current THEN pcb'[current].state = pcb[current].state
                                   ELSE pcb'[current'].state = "RUNNING"
           /\ current' = idle => iflag' /\ ~isr0'
           /\ current' # idle => pcb'[idle].resume = "irq"
           /\ \A p \in Pids :
                /\ pcb'[p].parent = pcb[p].parent
                /\ pcb'[p].state = "RUNNING" => p = current'
                /\ pcb'[p].state = "BLOCKED" => pcb[p].state = "BLOCKED"
                /\ pcb'[p].state = "DEAD" <=> pcb[p].state = "DEAD"
                /\ pcb[p].state = "FREE" /\ p \notin Queued => pcb'[p].state = "FREE"
                /\ pcb[p].state \in {"READY", "RUNNING"}
                        => pcb'[p].state \in {"READY", "RUNNING"}
                /\ p \notin Queued /\ pcb[p].state = "READY" => pcb'[p].state = "READY"
<1> DEFINE procs == Ticked(tick, ticks)
<1>0. /\ current \in Pids /\ idle \in Pids /\ current \in Queued /\ idle \in Queued
      /\ Queued \subseteq Pids /\ queue \in Seq(Pids) /\ IsInjective(queue)
      /\ pcb \in [Pids -> Pcb]
  BY Basics, Zenon DEF IInv, CoreType, QueueInv
<1>1. /\ procs \in [Pids -> Pcb]
      /\ \A p \in Pids :
            /\ procs[p].parent = pcb[p].parent
            /\ procs[p].resume = pcb[p].resume
            /\ \/ procs[p].state = pcb[p].state
               \/ pcb[p].state = "SLEEPING" /\ procs[p].state = "READY"
  BY TickedFacts
<1>2. PICK new \in Pids :
        /\ WalkStopsAt(procs, current, new)
        /\ \/ /\ new = current
              /\ pcb' = [p \in Pids |-> IF p = current THEN Renewed(procs[p], p)
                                        ELSE procs[p]]
              /\ iflag' = (flag \/ how = "irq")
              /\ isr0' = (isr /\ how # "irq")
              /\ UNCHANGED current
           \/ /\ new # current
              /\ pcb' = [p \in Pids |->
                           CASE p = current -> SwitchedOut(procs[p], how)
                             [] p = new     -> SwitchedIn(procs[p], p)
                             [] OTHER       -> procs[p]]
              /\ current' = new
              /\ iflag' = SwitchedIF(new, flag)
              /\ isr0' = SwitchedIsr0(new, isr)
  BY DEF Reschedule
<1> HIDE DEF procs
<1>3. procs[idle].state \in {"READY", "RUNNING"}
  BY <1>0, <1>1 DEF IInv, IdleInv
<1>4. /\ new \in Queued
      /\ new # current => Runnable(procs, new, current)
      /\ new = current => current = idle
  <2>1. current # idle => Runnable(procs, idle, current)
    BY <1>3 DEF Runnable
  <2> QED BY <1>0, <1>2, <2>1, WalkFinds
<1>5. \A p \in Pids : procs[p].state = "RUNNING" => p = current
  BY <1>1 DEF IInv, OneRunning
<1>6. CASE new = current
  <2>1. current = idle /\ how = "irq"
    BY <1>4, <1>6, Zenon
  <2>2. /\ pcb'[current] = Renewed(procs[current], current)
        /\ \A p \in Pids \ {current} : pcb'[p] = procs[p]
        /\ iflag' /\ ~isr0' /\ current' = current
    BY <1>0, <1>2, <1>6, <2>1, Zenon
  <2>3. /\ Renewed(procs[current], current) \in Pcb
        /\ Renewed(procs[current], current).state = procs[current].state
        /\ Renewed(procs[current], current).parent = procs[current].parent
        /\ Renewed(procs[current], current).ticks > 0
    BY <1>0, <1>1, PcbUpdates
  <2>4. pcb' \in [Pids -> Pcb]
    BY <1>1, <1>2, <1>6, <2>3
  <2>5. pcb[current].state \in {"READY", "RUNNING"}
    BY <2>1 DEF IInv, IdleInv
  <2> QED BY <1>0, <1>1, <1>2, <1>3, <1>5, <1>6, <2>1, <2>2, <2>3, <2>4, <2>5
<1>7. CASE new # current
  <2>1. procs[new].state = "READY"
    BY <1>4, <1>5, <1>7, Zenon DEF Runnable
  <2>2. /\ pcb'[current] = SwitchedOut(procs[current], how)
        /\ pcb'[new] = SwitchedIn(procs[new], new)
        /\ \A p \in Pids \ {current, new} : pcb'[p] = procs[p]
        /\ current' = new
        /\ iflag' = SwitchedIF(new, flag) /\ isr0' = SwitchedIsr0(new, isr)
    BY <1>0, <1>2, <1>7
  <2>3. /\ SwitchedIn(procs[new], new) \in Pcb
        /\ SwitchedIn(procs[new], new).state = "RUNNING"
        /\ SwitchedIn(procs[new], new).parent = procs[new].parent
        /\ SwitchedIn(procs[new], new).resume = procs[new].resume
        /\ SwitchedIn(procs[new], new).ticks > 0
    BY <1>1, PcbUpdates
  <2>4. /\ SwitchedOut(procs[current], how) \in Pcb
        /\ SwitchedOut(procs[current], how).state
              = IF procs[current].state = "RUNNING" THEN "READY"
                ELSE procs[current].state
        /\ SwitchedOut(procs[current], how).parent = procs[current].parent
        /\ SwitchedOut(procs[current], how).resume = how
    BY <1>0, <1>1, PcbUpdates, ZenonT(60)
  <2>5. pcb' \in [Pids -> Pcb]
    <3>1. DOMAIN pcb' = Pids /\ pcb' = [p \in Pids |-> pcb'[p]]
      BY <1>2, <1>7
    <3>2. \A p \in Pids : pcb'[p] \in Pcb
      BY <1>0, <1>1, <2>2, <2>3, <2>4
    <3> QED BY <3>1, <3>2
  <2>6. iflag' \in BOOLEAN /\ isr0' \in BOOLEAN
    BY <2>2, Zenon DEF SwitchedIF, SwitchedIsr0
  <2>7. new = idle => iflag' /\ ~isr0'
    BY <1>7, <2>2, Zenon DEF IInv, IdleInv, SwitchedIF, SwitchedIsr0
  <2>8. new # idle => pcb'[idle].resume = "irq"
    BY <1>0, <1>1, <1>7, <2>2, <2>4 DEF IInv, IdleInv
  <2>9. ASSUME NEW p \in Pids
        PROVE  /\ pcb'[p].parent = pcb[p].parent
               /\ pcb'[p].state = "RUNNING" => p = current'
               /\ pcb'[p].state = "BLOCKED" => pcb[p].state = "BLOCKED"
               /\ pcb'[p].state = "DEAD" <=> pcb[p].state = "DEAD"
               /\ pcb[p].state = "FREE" /\ p \notin Queued => pcb'[p].state = "FREE"
               /\ pcb[p].state \in {"READY", "RUNNING"}
                        => pcb'[p].state \in {"READY", "RUNNING"}
               /\ p \notin Queued /\ pcb[p].state = "READY" => pcb'[p].state = "READY"
    <3>1. CASE p = current
      BY <1>0, <1>1, <1>7, <2>2, <2>4, <3>1
    <3>2. CASE p = new
      BY <1>1, <1>4, <2>1, <2>2, <2>3, <3>2, Zenon
    <3>3. CASE p \notin {current, new}
      BY <1>1, <1>5, <2>2, <3>3
    <3> QED BY <3>1, <3>2, <3>3, Zenon
  <2> QED BY <1>4, <1>7, <2>2, <2>3, <2>5, <2>6, <2>7, <2>8, <2>9, Zenon
<1> QED BY <1>6, <1>7, Zenon

\* scheduler_tick, called by the timer interrupt or by scheduler_yield.
LEMMA RescheduleInv ==
    ASSUME IInv, NEW tick \in 0 .. TickModulus - 1, NEW ticks \in -1 .. TimeSlice,
           NEW how \in {"irq", "yield"}, NEW flag \in BOOLEAN, NEW isr \in BOOLEAN,
           current = idle => how = "irq",
           Reschedule(Ticked(tick, ticks), how, flag, isr),
           \/ UNCHANGED pc
           \/ /\ pc[current] \in YieldPlaces
              /\ pc' = [pc EXCEPT ![current] = AfterYield(@)],
           now' \in 0 .. TickModulus - 1,
           UNCHANGED <<process_table, queue, next_pid, local, keyboard, panicked>>
    PROVE  IInv'
<1>0. /\ current \in Pids /\ idle \in Pids /\ shell \in Pids
      /\ current \in Queued /\ Queued \subseteq Pids /\ Tabled \subseteq Pids
      /\ pc \in [Pids -> Places] /\ Pids \subseteq Nat
      /\ \A p \in Queued : p < next_pid
  BY Basics, Zenon DEF IInv, CoreType, QueueInv
<1>1. /\ pcb' \in [Pids -> Pcb] /\ current' \in Queued
      /\ iflag' \in BOOLEAN /\ isr0' \in BOOLEAN
      /\ current = idle \/ current' # current
      /\ pcb'[current'].state \in {"READY", "RUNNING"} /\ pcb'[current'].ticks > 0
      /\ IF current' = current THEN pcb'[current].state = pcb[current].state
                              ELSE pcb'[current'].state = "RUNNING"
      /\ current' = idle => iflag' /\ ~isr0'
      /\ current' # idle => pcb'[idle].resume = "irq"
  BY RescheduleFacts, Zenon
<1>2. \A p \in Pids :
        /\ pcb'[p].parent = pcb[p].parent
        /\ pcb'[p].state = "RUNNING" => p = current'
        /\ pcb'[p].state = "BLOCKED" => pcb[p].state = "BLOCKED"
        /\ pcb'[p].state = "DEAD" <=> pcb[p].state = "DEAD"
        /\ pcb[p].state = "FREE" /\ p \notin Queued => pcb'[p].state = "FREE"
        /\ pcb[p].state \in {"READY", "RUNNING"}
                => pcb'[p].state \in {"READY", "RUNNING"}
        /\ p \notin Queued /\ pcb[p].state = "READY" => pcb'[p].state = "READY"
  BY RescheduleFacts
<1>3. /\ \A p \in Pids \ {current} : pc'[p] = pc[p]
      /\ \/ pc'[current] = pc[current]
         \/ /\ pc[current] \in YieldPlaces
            /\ pc'[current] = AfterYield(pc[current])
      /\ pc' \in [Pids -> Places]
  BY <1>0 DEF YieldPlaces, AfterYield, Places
<1>4. /\ Queued' = Queued /\ Tabled' = Tabled
      /\ UNCHANGED <<process_table, queue, next_pid, local, pending_key,
                     keyboard_waiting, panicked>>
  BY DEF Queued, Tabled, keyboard
<1> USE DEF IInv
<1>5. CoreType'
  BY <1>0, <1>1, <1>3, <1>4, Zenon DEF CoreType
<1>6. QueueInv'
  BY <1>1, <1>4, Zenon DEF QueueInv
<1>7. IdleInv'
  BY <1>0, <1>1, <1>2, <1>3, Zenon DEF IdleInv, YieldPlaces
<1>8. ShellInv'
  BY <1>0, <1>3, SMTT(30) DEF ShellInv, YieldPlaces, AfterYield
<1>9. FamilyInv'
  <2>1. \A q \in Pids : q >= next_pid => q \notin Queued
    BY <1>0 DEF CoreType
  <2> QED BY <1>2, <1>4, <2>1 DEF FamilyInv
<1>10. HandInv'
  <2>1. \A p \in Pids : InHand(p)' => InHand(p)
    BY <1>0, <1>3 DEF InHand, YieldPlaces, AfterYield
  <2>2. \A p \in Pids : pc'[p] \in {"create", "load"} => pc[p] \in {"create", "load"}
    BY <1>0, <1>3 DEF YieldPlaces, AfterYield
  <2>3. ASSUME NEW p \in Pids, InHand(p)'
        PROVE  /\ local'[p].child \in Pids /\ pcb'[local'[p].child].parent = p
               /\ local'[p].slot \in Slots
    <3>1. /\ local[p].child \in Pids /\ pcb[local[p].child].parent = p
          /\ local[p].slot \in Slots
      BY <2>1, <2>3, Zenon DEF HandInv
    <3> QED BY <1>2, <1>4, <3>1, Zenon
  <2>4. ASSUME NEW p \in Pids, pc'[p] \in {"create", "load"}
        PROVE  /\ local'[p].child \notin Queued'
               /\ pcb'[local'[p].child].state = "READY"
    <3>1. /\ local[p].child \in Pids /\ local[p].child \notin Queued
          /\ pcb[local[p].child].state = "READY"
      BY <2>2, <2>4, Zenon DEF HandInv, InHand
    <3> QED BY <1>2, <1>4, <3>1, Zenon
  <2> QED BY <2>3, <2>4, Zenon DEF HandInv
<1>11. CurrentInv'
  <2>1. pcb'[current'].state = "RUNNING"
    <3>1. CASE current' = current
      <4>1. current = idle /\ pc[current] = "hlt"
        BY <1>1, <3>1, Zenon DEF IdleInv
      <4>2. pcb[current].state = "RUNNING"
        BY <1>0, <4>1, Zenon DEF CurrentInv, YieldPlaces
      <4> QED BY <1>1, <3>1, <4>2, Zenon
    <3> QED BY <1>1, <3>1, Zenon
  <2> QED BY <1>1, <2>1, Zenon DEF CurrentInv
<1>12. OneRunning'
  BY <1>2, Zenon DEF OneRunning
<1>13. NoLostExit'
  <2>1. \A p \in Pids : \A c \in Awaited(p)' : c \in Awaited(p) /\ c \in Pids
    BY <1>0, <1>2, <1>4, Zenon DEF Awaited
  <2>2. \A p \in Pids : pc'[p] \in {"wait", "wait_yield"} =>
                            pc[p] \in {"wait", "wait_yield"}
    BY <1>0, <1>3, Zenon DEF YieldPlaces, AfterYield
  <2>3. ASSUME NEW p \in Tabled, pcb'[p].state = "BLOCKED",
               pc'[p] \in {"wait", "wait_yield"}, NEW c \in Awaited(p)'
        PROVE  pcb'[c].state # "DEAD"
    <3>1. p \in Pids /\ c \in Pids /\ c \in Awaited(p)
      BY <1>0, <2>1, Zenon
    <3>2. pcb[p].state = "BLOCKED" /\ pc[p] \in {"wait", "wait_yield"}
      BY <1>2, <2>2, <2>3, <3>1, Zenon
    <3>3. pcb[c].state # "DEAD"
      BY <3>1, <3>2, Zenon DEF NoLostExit
    <3> QED BY <1>2, <3>1, <3>3, Zenon
  <2> QED BY <1>4, <2>3, Zenon DEF NoLostExit
<1> QED BY <1>5, <1>6, <1>7, <1>8, <1>9, <1>10, <1>11, <1>12, <1>13

LEMMA YieldInv == IInv /\ scheduler_yield => IInv'
<1> SUFFICES ASSUME IInv, scheduler_yield PROVE IInv'
  OBVIOUS
<1>1. /\ now \in 0 .. TickModulus - 1 /\ -1 \in -1 .. TimeSlice
      /\ iflag \in BOOLEAN /\ isr0 \in BOOLEAN
  BY ProcessesConstants DEF IInv, CoreType
<1>2. current # idle
  BY Basics, Zenon DEF scheduler_yield, YieldPlaces
<1> QED BY <1>1, <1>2, RescheduleInv, Zenon DEF scheduler_yield

\* The tick of the interrupt is within the counters' types.
LEMMA TickTypes ==
    ASSUME IInv
    PROVE  /\ (now + 1) % TickModulus \in 0 .. TickModulus - 1
           /\ pcb[current].ticks - 1 \in -1 .. TimeSlice
<1>1. now \in Nat /\ pcb[current] \in Pcb /\ pcb[current].ticks > 0
  BY DEF IInv, CoreType, CurrentInv
<1>2. pcb[current].ticks \in -1 .. TimeSlice
  BY <1>1 DEF Pcb
<1>3. pcb[current].ticks - 1 \in -1 .. TimeSlice
  BY <1>1, <1>2, ProcessesConstants
<1> QED BY <1>1, <1>3, ProcessesConstants

LEMMA TimerInv == IInv /\ TimerIRQ => IInv'
<1> SUFFICES ASSUME IInv, TimerIRQ PROVE IInv'
  OBVIOUS
<1> DEFINE tick  == (now + 1) % TickModulus
           ticks == pcb[current].ticks - 1
           procs == Ticked(tick, ticks)
<1>1. tick \in 0 .. TickModulus - 1 /\ ticks \in -1 .. TimeSlice
  BY TickTypes
<1>2. /\ now' = tick
      /\ UNCHANGED <<process_table, queue, next_pid, pc, local, keyboard, panicked>>
  BY Zenon DEF TimerIRQ
<1>3. \/ /\ procs[current].ticks > 0 /\ current # idle
         /\ procs[current].state = "RUNNING"
         /\ pcb' = procs /\ UNCHANGED <<current, iflag, isr0>>
      \/ Reschedule(procs, "irq", FALSE, TRUE)
  BY Zenon DEF TimerIRQ
<1> HIDE DEF tick, ticks
<1>4. CASE Reschedule(procs, "irq", FALSE, TRUE)
  BY <1>1, <1>2, <1>4, RescheduleInv, Zenon
<1>5. CASE /\ procs[current].ticks > 0 /\ current # idle
           /\ procs[current].state = "RUNNING"
           /\ pcb' = procs /\ UNCHANGED <<current, iflag, isr0>>
  <2>1. /\ procs \in [Pids -> Pcb]
        /\ \A p \in Pids :
              /\ procs[p].parent = pcb[p].parent
              /\ procs[p].resume = pcb[p].resume
              /\ \/ procs[p].state = pcb[p].state
                 \/ pcb[p].state = "SLEEPING" /\ procs[p].state = "READY"
    BY <1>1, TickedFacts, SMTT(30)
  <2> HIDE DEF procs
  <2>2. /\ current \in Pids /\ idle \in Pids /\ Tabled \subseteq Pids
    BY Basics, Zenon
  <2> USE DEF IInv
  <2>3. CoreType'
    BY <1>1, <1>2, <1>5, <2>1, SMTT(30) DEF CoreType, keyboard
  <2>4. QueueInv' /\ ShellInv'
    BY <1>2, <1>5, Zenon DEF QueueInv, Queued, ShellInv
  <2>5. IdleInv'
    BY <1>2, <1>5, <2>1, <2>2, Zenon DEF IdleInv
  <2>6. FamilyInv' /\ HandInv'
    <3>1. Queued' = Queued /\ \A p \in Pids : InHand(p)' <=> InHand(p)
      BY <1>2, SMTT(30) DEF Queued, InHand
    <3>2. FamilyInv'
      BY <1>2, <1>5, <2>1 DEF FamilyInv
    <3>3. ASSUME NEW p \in Pids, InHand(p)
          PROVE  /\ local[p].child \in Pids /\ procs[local[p].child].parent = p
                 /\ local[p].slot \in Slots
      BY <2>1, <3>3 DEF HandInv
    <3>4. ASSUME NEW p \in Pids, pc[p] \in {"create", "load"}
          PROVE  /\ local[p].child \notin Queued
                 /\ procs[local[p].child].state = "READY"
      <4>1. InHand(p)
        BY <3>4, SMTT(30) DEF InHand
      <4> QED BY <2>1, <3>3, <3>4, <4>1 DEF HandInv
    <3>5. HandInv'
      BY <1>2, <1>5, <3>1, <3>3, <3>4, Zenon DEF HandInv
    <3> QED BY <3>2, <3>5
  <2>7. CurrentInv' /\ OneRunning'
    BY <1>2, <1>5, <2>1, <2>2, Zenon DEF CurrentInv, OneRunning
  <2>8. NoLostExit'
    <3>1. Tabled' = Tabled
      BY <1>2, Zenon DEF Tabled
    <3>2. \A p \in Pids : \A c \in Awaited(p)' : c \in Awaited(p) /\ c \in Pids
      BY <1>2, <1>5, <2>1, <2>2, <3>1, Zenon DEF Awaited
    <3> SUFFICES ASSUME NEW p \in Tabled, pcb'[p].state = "BLOCKED",
                        pc[p] \in {"wait", "wait_yield"}, NEW c \in Awaited(p)'
                 PROVE  pcb'[c].state # "DEAD"
      BY <1>2, <3>1, Zenon DEF NoLostExit
    <3>3. p \in Pids /\ c \in Awaited(p) /\ c \in Pids
      BY <2>2, <3>2
    <3>4. pcb[p].state = "BLOCKED"
      BY <1>5, <2>1, <3>3, Zenon
    <3>5. pcb[c].state # "DEAD"
      BY <3>3, <3>4, Zenon DEF NoLostExit
    <3> QED BY <1>5, <2>1, <3>3, <3>5, Zenon
  <2> QED BY <2>3, <2>4, <2>5, <2>6, <2>7, <2>8
<1> QED BY <1>3, <1>4, <1>5, Zenon
-----------------------------------------------------------------------------
\* A step that changes nothing but 'panicked': a panic, or no step at all.
LEMMA SameInv ==
    ASSUME IInv, panicked' \in BOOLEAN,
           UNCHANGED <<process_table, queue, current, next_pid, pcb, pc, local,
                       iflag, isr0, now, pending_key, keyboard_waiting>>
    PROVE  IInv'
<1> USE DEF IInv
<1>1. CoreType'
  BY Zenon DEF CoreType
<1>2. /\ Queued' = Queued /\ Tabled' = Tabled
      /\ \A p \in Pids : (InHand(p)' <=> InHand(p)) /\ Awaited(p)' = Awaited(p)
  BY Zenon DEF Queued, Tabled, InHand, Awaited
<1>3. QueueInv' /\ IdleInv' /\ ShellInv'
  BY <1>2, Zenon DEF QueueInv, IdleInv, ShellInv
<1>4. FamilyInv' /\ CurrentInv' /\ OneRunning'
  BY Zenon DEF FamilyInv, CurrentInv, OneRunning
<1>5. HandInv'
  BY <1>2, Zenon DEF HandInv
<1>6. NoLostExit'
  <2>1. Tabled \subseteq Pids
    BY Basics, Zenon
  <2> QED BY <1>2, <2>1 DEF NoLostExit
<1> QED BY <1>1, <1>3, <1>4, <1>5, <1>6

LEMMA NextInv == IInv /\ [Next]_vars => IInv'
<1> SUFFICES ASSUME IInv, [Next]_vars PROVE IInv'
  OBVIOUS
<1>1. CASE kpanic
  BY <1>1, SameInv DEF kpanic, keyboard
<1>2. CASE UNCHANGED vars
  BY <1>2, SameInv, Zenon DEF vars, IInv, CoreType
<1>3. CASE Kernel
  BY <1>1, <1>3, MovesInv, SuspendsInv, YieldInv, FoundInv, SpliceInv, ReapInv,
     CreateInv, StoreInv, SpawnInv, Zenon DEF Kernel, Moves, process_create_panic
<1>4. CASE User
  BY <1>1, <1>4, MovesInv, SuspendsInv, ExitInv, ForkInv, Zenon
     DEF User, Moves, sys_fork_panic
<1> QED BY <1>1, <1>2, <1>3, <1>4, TimerInv, KeyboardInv DEF Next, Halted

LEMMA Invariance == Spec => []IInv
<1> QED BY InitInv, NextInv, PTL DEF Spec

\* scheduler_remove's locals, and the pointer to the tail, name processes.
RemovalType ==
    /\ run_queue_tail \in Pids /\ overlapped \in BOOLEAN
    /\ walk \in [Pids -> [prev : Pids \cup {None}, node : Pids \cup {None},
                          i : 0 .. MaxProcesses]]
    /\ \A p \in Pids : pc[p] \in {"walk", "tail"} =>
            walk[p].prev \in Pids /\ walk[p].node \in Pids

Removes == \/ remove_begin \/ remove_step \/ remove_splice \/ remove_tail
           \/ remove_gives_up

\* A process enters scheduler_remove, and moves on in it, by its own steps only.
WalkStays ==
    /\ walk' = walk
    /\ \A p \in Pids : pc'[p] \in {"walk", "tail"} => pc[p] = pc'[p]

LEMMA MoveStays ==
    ASSUME pc \in [Pids -> Places], walk' = walk,
           NEW to \in Places \ {"walk", "tail"}, pc' = [pc EXCEPT ![current] = to]
    PROVE  WalkStays
BY Zenon DEF WalkStays

LEMMA WalkIsOwn == IInv /\ [Next]_vars => Removes \/ WalkStays
<1> SUFFICES ASSUME IInv, [Next]_vars PROVE Removes \/ WalkStays
  OBVIOUS
<1>0. pc \in [Pids -> Places]
  BY Zenon DEF IInv, CoreType
<1> USE DEF removal, At, Goto, Places
<1>1. CASE UNCHANGED <<pc, walk>>
  BY <1>1, Zenon DEF WalkStays
<1>2. TimerIRQ \/ KeyboardIRQ \/ kpanic \/ sys_fork \/ UNCHANGED vars =>
        UNCHANGED <<pc, walk>>
  BY Zenon DEF TimerIRQ, KeyboardIRQ, kpanic, sys_fork, vars
<1>3. CASE scheduler_yield
  <2>1. AfterYield(pc[current]) \in Places \ {"walk", "tail"}
    BY <1>3 DEF scheduler_yield, AfterYield, YieldPlaces
  <2>2. pc' = [pc EXCEPT ![current] = AfterYield(pc[current])]
    BY <1>3 DEF scheduler_yield
  <2> QED BY <1>0, <1>3, <2>1, <2>2, MoveStays, Zenon DEF scheduler_yield
<1>4. CASE getchar_take
  BY <1>0, <1>4, MoveStays, Zenon DEF getchar_take
<1>5. CASE getchar_wait \/ keyboard_wait_register \/ keyboard_wait_block
             \/ keyboard_wait_eoi \/ sysret
  BY <1>0, <1>5, MoveStays, Zenon DEF getchar_wait, keyboard_wait_register,
     keyboard_wait_block, keyboard_wait_eoi, sysret
<1>6. CASE wait_found \/ wait_no_children \/ wait_block \/ cmd_run_usage
  BY <1>0, <1>6, MoveStays, Zenon DEF wait_found, wait_no_children, wait_block,
     cmd_run_usage
<1>7. CASE wait_reap
  BY <1>0, <1>7, MoveStays, Zenon DEF wait_reap
<1>8. CASE process_create_pcb \/ process_create_store \/ process_spawn_add
             \/ process_spawn_fail
  BY <1>0, <1>8, MoveStays, Zenon DEF process_create_pcb, process_create_store,
     process_spawn_add, process_spawn_fail
<1>9. CASE sys_exit \/ sys_yield \/ sys_wait \/ sys_sleep \/ sys_read
  BY <1>0, <1>9, MoveStays, Zenon DEF sys_exit, sys_yield, sys_wait, sys_sleep,
     sys_read
<1>10. CASE Kernel
  BY <1>1, <1>2, <1>3, <1>4, <1>5, <1>6, <1>7, <1>8, <1>10, Zenon
     DEF Kernel, Removes, process_create_panic
<1>11. CASE User
  BY <1>1, <1>2, <1>9, <1>11, Zenon DEF User, sys_fork_panic
<1> QED BY <1>1, <1>2, <1>10, <1>11, Zenon DEF Next, Halted

\* The tail moves when a process is linked or unlinked.
LEMMA TailIsOwn ==
    [Next]_vars => \/ Removes
                   \/ UNCHANGED <<run_queue_tail, overlapped>>
                   \/ sys_fork \/ process_spawn_add
<1> SUFFICES ASSUME [Next]_vars, ~Removes, ~sys_fork, ~process_spawn_add
             PROVE  UNCHANGED <<run_queue_tail, overlapped>>
  OBVIOUS
<1> USE DEF removal
<1>1. CASE kpanic \/ TimerIRQ \/ KeyboardIRQ \/ UNCHANGED vars
  BY <1>1, Zenon DEF kpanic, TimerIRQ, KeyboardIRQ, vars
<1>2. CASE Kernel
  <2>1. CASE getchar_take \/ getchar_wait \/ keyboard_wait_register
             \/ keyboard_wait_block \/ keyboard_wait_eoi \/ sysret
             \/ scheduler_yield
    BY <2>1, Zenon DEF getchar_take, getchar_wait, keyboard_wait_register,
       keyboard_wait_block, keyboard_wait_eoi, sysret, scheduler_yield
  <2>2. CASE wait_found \/ wait_no_children \/ wait_block \/ wait_reap
    BY <2>2, Zenon DEF wait_found, wait_no_children, wait_block, wait_reap
  <2>3. CASE cmd_run_usage \/ process_create_pcb \/ process_create_store
             \/ process_spawn_fail
    BY <2>3, Zenon DEF cmd_run_usage, process_create_pcb, process_create_store,
       process_spawn_fail
  <2> QED BY <1>1, <1>2, <2>1, <2>2, <2>3, Zenon
          DEF Kernel, Removes, process_create_panic
<1>3. CASE User
  BY <1>1, <1>3, Zenon DEF User, sys_exit, sys_yield, sys_fork_panic, sys_wait,
     sys_sleep, sys_read
<1> QED BY <1>1, <1>2, <1>3, Zenon DEF Next, Halted

LEMMA RemovalTypes ==
    ASSUME IInv, RemovalType, [Next]_vars PROVE RemovalType'
<1> DEFINE c == local[current].child
           W == [prev : Pids \cup {None}, node : Pids \cup {None},
                 i : 0 .. MaxProcesses]
<1>0. /\ current \in Pids /\ pc \in [Pids -> Places] /\ walk \in [Pids -> W]
      /\ queue \in Seq(Pids) /\ idle \in Queued /\ Queued \subseteq Pids
      /\ MaxProcesses \in Nat
  BY Basics, ProcessesConstants DEF IInv, CoreType, QueueInv, RemovalType
<1>1. CASE WalkStays /\ run_queue_tail' \in Pids /\ overlapped' \in BOOLEAN
  BY <1>1, Zenon DEF RemovalType, WalkStays
<1>2. CASE UNCHANGED <<run_queue_tail, overlapped>> /\ WalkStays
  BY <1>1, <1>2, Zenon DEF RemovalType
<1>3. CASE sys_fork /\ WalkStays
  <2>1. next_pid \in Pids /\ scheduler_add(next_pid)
    BY <1>3, ProcessesConstants DEF sys_fork, Pids, IInv, CoreType
  <2> QED BY <1>1, <1>3, <2>1, Zenon DEF RemovalType, scheduler_add
<1>4. CASE process_spawn_add /\ WalkStays
  <2>1. c \in Pids /\ scheduler_add(c)
    BY <1>0, <1>4, Basics, Zenon DEF process_spawn_add, At, InHand
  <2> QED BY <1>1, <1>4, <2>1, Zenon DEF RemovalType, scheduler_add
<1>5. CASE remove_begin
  <2>1. queue[1] \in Pids
    BY <1>0 DEF Queued
  <2>2. [prev |-> run_queue_tail, node |-> queue[1], i |-> 0] \in W
    BY <1>0, <2>1 DEF RemovalType
  <2>3. /\ walk' \in [Pids -> W] /\ walk'[current].prev = run_queue_tail
        /\ walk'[current].node = queue[1]
        /\ \A p \in Pids \ {current} : walk'[p] = walk[p] /\ pc'[p] = pc[p]
        /\ UNCHANGED <<run_queue_tail, overlapped>>
    BY <1>0, <1>5, <2>2, Zenon DEF remove_begin, Goto
  <2> QED BY <2>1, <2>3, Zenon DEF RemovalType
<1>6. CASE remove_step
  <2>1. PICK next \in IF walk[current].node \in Queued
                      THEN {Successor(walk[current].node, 1)} ELSE Pids :
          walk' = [walk EXCEPT ![current] = [prev |-> walk[current].node,
                                node |-> next, i |-> walk[current].i + 1]]
    BY <1>6, Zenon DEF remove_step
  <2>2. ASSUME NEW p \in Queued PROVE Successor(p, 1) \in Pids
    BY <1>0 DEF Successor, Queued
  <2>3. next \in Pids
    BY <2>1, <2>2, Zenon
  <2>4. walk[current].i < MaxProcesses /\ pc[current] = "walk"
    BY <1>6, Zenon DEF remove_step, At
  <2>5. [prev |-> walk[current].node, node |-> next, i |-> walk[current].i + 1] \in W
    BY <1>0, <2>3, <2>4
  <2>6. /\ walk' \in [Pids -> W] /\ walk'[current].prev = walk[current].node
        /\ walk'[current].node = next
        /\ \A p \in Pids \ {current} : walk'[p] = walk[p]
        /\ UNCHANGED <<run_queue_tail, overlapped, pc>>
    BY <1>0, <1>6, <2>1, <2>5, Zenon DEF remove_step
  <2> QED BY <2>3, <2>4, <2>6, Zenon DEF RemovalType
<1>7. CASE remove_splice
  <2>1. /\ UNCHANGED <<walk, run_queue_tail>> /\ overlapped' \in BOOLEAN
        /\ pc[current] = "walk"
        /\ \A p \in Pids \ {current} : pc'[p] = pc[p]
    BY <1>0, <1>7, Zenon DEF remove_splice, At, Goto
  <2> QED BY <2>1, Zenon DEF RemovalType
<1>8. CASE remove_tail \/ remove_gives_up
  <2>1. NoWalk \in W
    BY <1>0 DEF NoWalk
  <2>2. /\ walk' \in [Pids -> W] /\ UNCHANGED overlapped
        /\ pc'[current] = "reap"
        /\ \A p \in Pids \ {current} : walk'[p] = walk[p] /\ pc'[p] = pc[p]
    BY <1>0, <1>8, <2>1, Zenon DEF remove_tail, remove_gives_up, Goto
  <2>3. run_queue_tail' \in Pids
    BY <1>0, <1>8, Zenon DEF remove_tail, remove_gives_up, At, RemovalType
  <2> QED BY <2>2, <2>3, Zenon DEF RemovalType
<1> QED BY <1>2, <1>3, <1>4, <1>5, <1>6, <1>7, <1>8, WalkIsOwn, TailIsOwn, Zenon
        DEF Removes

LEMMA RemovalInvariance == Spec => []RemovalType
<1>1. Init => RemovalType
  <2> SUFFICES ASSUME Init PROVE RemovalType
    OBVIOUS
  <2>1. shell \in Pids /\ MaxProcesses \in Nat
    BY ProcessesConstants DEF Pids, shell
  <2>2. \A p \in Pids : pc[p] \notin {"walk", "tail"}
    BY DEF Init
  <2>3. walk \in [Pids -> [prev : Pids \cup {None}, node : Pids \cup {None},
                          i : 0 .. MaxProcesses]]
    BY <2>1 DEF Init, NoWalk
  <2>4. run_queue_tail = shell /\ overlapped = FALSE
    BY Zenon DEF Init
  <2> QED BY <2>1, <2>2, <2>3, <2>4, Zenon DEF RemovalType
<1>2. IInv /\ RemovalType /\ [Next]_vars => RemovalType'
  BY RemovalTypes
<1> QED BY <1>1, <1>2, Invariance, PTL DEF Spec

\* The state is well typed: in particular no time slice counts below zero
\* before the scheduler renews it (scheduler_tick decrements an int without a
\* test), and the deadlines stay within the tick counter's width.
THEOREM TypeCorrect == Spec => []TypeOK
<1>1. IInv /\ RemovalType => TypeOK
  BY Zenon DEF IInv, RemovalType, TypeOK
<1> QED BY <1>1, Invariance, RemovalInvariance, PTL

\* However interrupts, switches, wake-ups and exits interleave, at most
\* current_process is RUNNING.
THEOREM OnlyCurrentRuns == Spec => []OneRunning
<1>1. IInv => OneRunning
  BY DEF IInv
<1> QED BY <1>1, Invariance, PTL

\* process_wait and sys_wait never sleep past the exit they wait for.
THEOREM NoExitIsLost == Spec => []NoLostExit
<1>1. IInv => NoLostExit
  BY DEF IInv
<1> QED BY <1>1, Invariance, PTL

\* The idle process never halts the CPU with interrupts off or the timer
\* still in service at the PIC.
THEOREM IdleIsWoken == Spec => []IdleCanBeWoken
<1>1. IInv => IdleCanBeWoken
  BY Zenon DEF IInv, IdleInv, IdleCanBeWoken
<1> QED BY <1>1, Invariance, PTL
=============================================================================
