--------------------------- MODULE ProcessesTable ---------------------------
(****************************************************************************)
(* What is proved of the process table, the ring and the keyboard in        *)
(* Processes: who is in the table and on the ring, and that no key press is *)
(* slept through.  The invariant of ProcessesProofs does not follow them;   *)
(* TInv, RingInv and KbInv do.                                              *)
(****************************************************************************)
EXTENDS ProcessesProofs, FiniteSetTheorems

\* The queue keeps the order in which kernel_main filled it: the idle process,
\* hello and the shell come first.
HeadInv ==
    /\ Len(queue) >= 3
    /\ queue[1] = idle /\ queue[2] = hello /\ queue[3] = shell

KeyboardPlaces == {"getchar", "kb_wait", "kb_block", "kb_eoi", "kb_yield"}

\* The shell gets the CPU from the idle process, or from hello, which got it
\* from the idle process; the timer interrupt that took it from the idle
\* process is still in service then.
ServiceInv ==
    /\ pcb[hello].resume # "irq"
    /\ pc[hello] \notin KeyboardPlaces
    /\ current = hello => isr0
    /\ pcb[shell].resume = "irq" => pc[shell] = "kb_yield"
    /\ current = shell => isr0 \/ pc[shell] = "kb_yield"
    /\ current # shell => pc[shell] \in {"getchar", "wait", "kb_yield"}
    /\ \A p \in Pids : pc[p] \in {"spawn", "create", "load"} => p = shell

\* The slot a process has in hand is the child's, from the store of
\* process_create to the end of its reaping.
SlotInv ==
    /\ \A p \in Pids : pc[p] \in {"load"} \cup RemovalPlaces =>
            process_table[local[p].slot] = local[p].child
    /\ pc[shell] = "create" =>
            process_table[local[shell].slot] = None /\ local[shell].child \notin Tabled

\* What is being unlinked is dead, and the dead are on their way out.
DeadInv ==
    /\ \A p \in Pids : pc[p] \in {"unlink", "walk"} =>
            pcb[local[p].child].state = "DEAD"
    /\ \A p \in Pids : pcb[p].state = "DEAD" => pc[p] \in {"exit_yield", "sysret"}

\* Each process has one slot.
TableInv ==
    /\ \A s, t \in Slots :
            process_table[s] # None /\ process_table[s] = process_table[t] => s = t
    /\ \A p \in Tabled : p < next_pid

TInv == HeadInv /\ ServiceInv /\ SlotInv /\ DeadInv /\ TableInv
-----------------------------------------------------------------------------
\* The walk of scheduler_tick goes past the idle process to reach hello and
\* the shell, and does not get past it: it is runnable.
LEMMA WalkOrder ==
    ASSUME queue \in Seq(Pids), IsInjective(queue), HeadInv,
           NEW old \in Queued, old # idle, old # hello, NEW new, NEW procs,
           Runnable(procs, idle, old), WalkStopsAt(procs, old, new)
    PROVE  new # hello /\ new # shell
<1> DEFINE L == Len(queue)
           at == CHOOSE i \in 1 .. Len(queue) : queue[i] = old
           succ(k) == IF at + k <= L THEN queue[at + k] ELSE queue[at + k - L]
<1>1. L \in Nat /\ L >= 3 /\ DOMAIN queue = 1 .. L
  BY DEF HeadInv
<1>2. at \in 1 .. L /\ queue[at] = old
  BY DEF Queued
<1>3. \A i, j \in 1 .. L : queue[i] = queue[j] => i = j
  BY DEF IsInjective
<1>4. PICK k \in 1 .. L : /\ new = succ(k)
                          /\ \A j \in 1 .. k - 1 : ~Runnable(procs, succ(j), old)
  BY Zenon DEF WalkStopsAt, Successor
<1> HIDE DEF at
<1>5. queue[1] = idle /\ queue[2] = hello /\ queue[3] = shell
  BY DEF HeadInv
<1>6. at >= 3
  BY <1>1, <1>2, <1>5
<1> SUFFICES ASSUME NEW b \in 2 .. 3, new = queue[b] PROVE FALSE
  BY <1>5
<1>7. CASE at + k <= L
  <2>1. at + k \in 1 .. L /\ b \in 1 .. L /\ at + k # b
    BY <1>1, <1>2, <1>6, <1>7
  <2>2. queue[at + k] = queue[b]
    BY <1>4, <1>7
  <2> QED BY <1>3, <2>1, <2>2, Zenon
<1>8. CASE at + k > L
  <2>1. at + k - L \in 1 .. L /\ b \in 1 .. L /\ ~(at + k <= L)
    BY <1>1, <1>2, <1>8
  <2>2. queue[at + k - L] = queue[b]
    BY <1>4, <2>1
  <2>3. at + k - L = b
    BY <1>3, <2>1, <2>2, Zenon
  <2> DEFINE j == L + 1 - at
  <2>4. j \in 1 .. k - 1 /\ ~(at + j <= L) /\ at + j - L = 1
    BY <1>1, <1>2, <2>3
  <2>5. succ(j) = idle
    BY <1>5, <2>4
  <2> HIDE DEF j
  <2> QED BY <1>4, <2>4, <2>5
<1> QED BY <1>1, <1>2, <1>7, <1>8

\* Who gets the CPU, and in which state of the PIC.
LEMMA DispatchFacts ==
    ASSUME IInv, HeadInv,
           NEW tick \in 0 .. TickModulus - 1, NEW ticks \in -1 .. TimeSlice,
           NEW how \in {"irq", "yield"}, NEW flag \in BOOLEAN, NEW isr \in BOOLEAN,
           Reschedule(Ticked(tick, ticks), how, flag, isr)
    PROVE  /\ current # idle => current' # current
           /\ current \notin {idle, hello} => current' \notin {hello, shell}
           /\ \A p \in Pids \ {current} : pcb'[p].resume = pcb[p].resume
           /\ current' # current => /\ pcb'[current].resume = how
                                    /\ isr0' = (isr /\ pcb[current'].resume # "irq")
<1> DEFINE procs == Ticked(tick, ticks)
<1>0. /\ current \in Pids /\ idle \in Pids /\ current \in Queued /\ idle \in Queued
      /\ queue \in Seq(Pids) /\ IsInjective(queue)
      /\ pcb \in [Pids -> Pcb]
  BY Basics, Zenon DEF IInv, CoreType, QueueInv
<1>1. /\ procs \in [Pids -> Pcb]
      /\ \A p \in Pids :
            /\ procs[p].resume = pcb[p].resume
            /\ \/ procs[p].state = pcb[p].state
               \/ pcb[p].state = "SLEEPING" /\ procs[p].state = "READY"
  BY TickedFacts
<1>2. PICK new \in Pids :
        /\ WalkStopsAt(procs, current, new)
        /\ \/ /\ new = current
              /\ pcb' = [p \in Pids |-> IF p = current THEN Renewed(procs[p], p)
                                        ELSE procs[p]]
              /\ UNCHANGED current
           \/ /\ new # current
              /\ pcb' = [p \in Pids |->
                           CASE p = current -> SwitchedOut(procs[p], how)
                             [] p = new     -> SwitchedIn(procs[p], p)
                             [] OTHER       -> procs[p]]
              /\ current' = new
              /\ isr0' = SwitchedIsr0(new, isr)
  BY Zenon DEF Reschedule
<1> HIDE DEF procs
<1>3. current # idle => Runnable(procs, idle, current)
  <2>1. procs[idle].state \in {"READY", "RUNNING"}
    BY <1>0, <1>1 DEF IInv, IdleInv
  <2> QED BY <2>1 DEF Runnable
<1>4. new = current => current = idle
  BY <1>0, <1>2, <1>3, WalkFinds
<1>5. current \notin {idle, hello} => new \notin {hello, shell}
  BY <1>0, <1>2, <1>3, WalkOrder, Zenon
<1>6. CASE new = current
  <2>1. \A p \in Pids \ {current} : pcb'[p] = procs[p]
    BY <1>2, <1>6, Zenon
  <2>2. current' = current
    BY <1>2, <1>6, Zenon
  <2> QED BY <1>1, <1>4, <1>5, <1>6, <2>1, <2>2, Zenon
<1>7. CASE new # current
  <2>1. /\ pcb'[current] = SwitchedOut(procs[current], how)
        /\ pcb'[new] = SwitchedIn(procs[new], new)
        /\ \A p \in Pids \ {current, new} : pcb'[p] = procs[p]
        /\ current' = new /\ isr0' = SwitchedIsr0(new, isr)
    BY <1>0, <1>2, <1>7
  <2>2. SwitchedIn(procs[new], new).resume = procs[new].resume
    BY <1>1, PcbUpdates
  <2>3. SwitchedOut(procs[current], how).resume = how
    BY <1>0, <1>1, PcbUpdates, ZenonT(60)
  <2>4. \A p \in Pids \ {current} : pcb'[p].resume = pcb[p].resume
    BY <1>1, <2>1, <2>2, Zenon
  <2>5. isr0' = (isr /\ pcb[current'].resume # "irq")
    BY <2>1, Zenon DEF SwitchedIsr0
  <2> QED BY <1>5, <1>7, <2>1, <2>3, <2>4, <2>5, Zenon
<1> QED BY <1>6, <1>7, Zenon
-----------------------------------------------------------------------------
\* The steps that change neither the table nor the queue, nor who is in hand.
LEMMA SameTable ==
    ASSUME IInv, TInv, UNCHANGED <<process_table, queue, next_pid, local>>,
           \A p \in Pids : pc'[p] \in {"create", "load"} => pc'[p] = pc[p],
           \A p \in Pids : pc'[p] \in RemovalPlaces => pc[p] \in RemovalPlaces,
           \A p \in Pids : pc'[p] \in {"unlink", "walk"} => pc[p] \in {"unlink", "walk"},
           \A p \in Pids : pcb[p].state = "DEAD" => pcb'[p].state = "DEAD",
           \A p \in Pids : pcb'[p].state = "DEAD" => pc'[p] \in {"exit_yield", "sysret"}
    PROVE  HeadInv' /\ SlotInv' /\ DeadInv' /\ TableInv'
<1>0. /\ HeadInv /\ SlotInv /\ DeadInv /\ TableInv /\ Queued \subseteq Pids
      /\ shell \in Pids /\ \A p \in Pids : InHand(p) => local[p].child \in Pids
  BY Basics, Zenon DEF TInv
<1>1. Queued' = Queued /\ Tabled' = Tabled
  BY Zenon DEF Queued, Tabled
<1>2. HeadInv'
  BY <1>0, Zenon DEF HeadInv
<1>3. SlotInv'
  <2>1. \A p \in Pids : pc'[p] \in {"load"} \cup RemovalPlaces =>
            pc[p] \in {"load"} \cup RemovalPlaces
    BY Zenon
  <2>2. pc'[shell] = "create" => pc[shell] = "create"
    BY <1>0, Zenon
  <2> QED BY <1>0, <1>1, <2>1, <2>2, Zenon DEF SlotInv
<1>4. DeadInv'
  <2>1. \A p \in Pids : pc'[p] \in {"unlink", "walk"} =>
            pc[p] \in {"unlink", "walk"} /\ InHand(p)
    BY Zenon DEF InHand
  <2> QED BY <1>0, <2>1, Zenon DEF DeadInv
<1>5. TableInv'
  BY <1>0, <1>1, Zenon DEF TableInv
<1> QED BY <1>2, <1>3, <1>4, <1>5, Zenon

\* The steps that leave the CPU to the current process.
LEMMA StayService ==
    ASSUME IInv, ServiceInv, current' = current,
           \A p \in Pids \ {current} : pc'[p] = pc[p],
           \A p \in {hello, shell} : pcb'[p].resume = pcb[p].resume,
           isr0' = isr0 \/ (pc[current] = "kb_eoi" /\ pc'[current] = "kb_yield"),
           pc'[current] \in {"spawn", "create", "load"} => current = shell,
           current = hello => pc'[hello] \notin KeyboardPlaces,
           pc[current] = "kb_yield" => pc'[current] = "kb_yield"
    PROVE  ServiceInv'
<1>1. hello \in Pids /\ shell \in Pids /\ current \in Pids /\ hello # shell
  BY Basics, ProcessesConstants DEF Pids, hello, shell
<1>2. current = hello => pc[current] # "kb_eoi"
  BY Zenon DEF ServiceInv, KeyboardPlaces
<1> QED BY <1>1, <1>2 DEF ServiceInv

\* A step of the current process from one place to another, which may change
\* the states of processes, and kills none but the current one.
LEMMA MoveKeeps ==
    ASSUME IInv, TInv, NEW from, NEW to,
           pc[current] = from, pc' = [pc EXCEPT ![current] = to],
           UNCHANGED <<process_table, queue, current, next_pid, local>>,
           \A q \in Pids : pcb'[q].resume = pcb[q].resume,
           \A q \in Pids \ {current} :
                pcb'[q].state = "DEAD" <=> pcb[q].state = "DEAD",
           pcb'[current].state = "DEAD" => to = "exit_yield",
           from \notin {"kb_yield", "exit_yield"},
           to \notin {"create", "load", "unlink", "walk", "tail", "reap"},
           isr0' = isr0 \/ (from = "kb_eoi" /\ to = "kb_yield"),
           to = "spawn" => current = shell,
           current = hello => to \notin KeyboardPlaces
    PROVE  TInv'
<1>0. /\ current \in Pids /\ hello \in Pids /\ shell \in Pids
      /\ pc \in [Pids -> Places]
  BY Basics, ProcessesConstants DEF IInv, CoreType, Pids, hello, shell
<1>1. pc'[current] = to /\ \A p \in Pids \ {current} : pc'[p] = pc[p]
  BY <1>0, Zenon
<1>2. pcb[current].state # "DEAD"
  BY Zenon DEF IInv, CurrentInv
<1>3. \A p \in Pids : pcb'[p].state = "DEAD" => pc'[p] \in {"exit_yield", "sysret"}
  BY <1>1, Zenon DEF TInv, DeadInv
<1>4. HeadInv' /\ SlotInv' /\ DeadInv' /\ TableInv'
  <2>1. /\ \A p \in Pids : pc'[p] \in {"create", "load"} => pc'[p] = pc[p]
        /\ \A p \in Pids : pc'[p] \in RemovalPlaces => pc[p] \in RemovalPlaces
        /\ \A p \in Pids : pc'[p] \in {"unlink", "walk"} => pc[p] \in {"unlink", "walk"}
    BY <1>1, Zenon DEF RemovalPlaces
  <2>3. \A p \in Pids : pcb[p].state = "DEAD" => pcb'[p].state = "DEAD"
    BY <1>2, Zenon
  <2> QED BY <1>3, <2>1, <2>3, SameTable, Zenon
<1>5. ServiceInv'
  <2>1. /\ ServiceInv /\ current' = current
        /\ \A p \in {hello, shell} : pcb'[p].resume = pcb[p].resume
        /\ pc[current] = "kb_yield" => pc'[current] = "kb_yield"
        /\ pc'[current] \in {"spawn", "create", "load"} => current = shell
        /\ current = hello => pc'[hello] \notin KeyboardPlaces
    BY <1>0, <1>1, Zenon DEF TInv
  <2> QED BY <1>1, <2>1, StayService, Zenon
<1> QED BY <1>4, <1>5, Zenon DEF TInv

\* A step inside scheduler_remove that leaves the queue as it is.
LEMMA RemovalKeeps ==
    ASSUME IInv, TInv, pc[current] \in RemovalPlaces,
           NEW to \in {"walk", "tail", "reap"}, pc' = [pc EXCEPT ![current] = to],
           to = "walk" => pc[current] \in {"unlink", "walk"},
           UNCHANGED <<process_table, queue, current, next_pid, local, pcb, isr0>>
    PROVE  TInv'
<1>0. /\ current \in Pids /\ hello \in Pids /\ shell \in Pids
      /\ pc \in [Pids -> Places]
  BY Basics, ProcessesConstants DEF IInv, CoreType, Pids, hello, shell
<1>1. pc'[current] = to /\ \A p \in Pids \ {current} : pc'[p] = pc[p]
  BY <1>0, Zenon
<1>2. pcb[current].state # "DEAD"
  BY Zenon DEF IInv, CurrentInv, RemovalPlaces
<1>3. \A p \in Pids : pcb'[p].state = "DEAD" => pc'[p] \in {"exit_yield", "sysret"}
  BY <1>1, <1>2, Zenon DEF TInv, DeadInv
<1>4. HeadInv' /\ SlotInv' /\ DeadInv' /\ TableInv'
  <2>1. /\ \A p \in Pids : pc'[p] \in {"create", "load"} => pc'[p] = pc[p]
        /\ \A p \in Pids : pc'[p] \in RemovalPlaces => pc[p] \in RemovalPlaces
        /\ \A p \in Pids : pc'[p] \in {"unlink", "walk"} => pc[p] \in {"unlink", "walk"}
    BY <1>1, Zenon
  <2> QED BY <1>3, <2>1, SameTable, Zenon
<1>5. ServiceInv'
  <2>1. /\ ServiceInv /\ \A p \in {hello, shell} : pcb'[p].resume = pcb[p].resume
        /\ pc[current] = "kb_yield" => pc'[current] = "kb_yield"
        /\ pc'[current] \in {"spawn", "create", "load"} => current = shell
        /\ current = hello => pc'[hello] \notin KeyboardPlaces
    BY <1>0, <1>1, Zenon DEF TInv, KeyboardPlaces, RemovalPlaces
  <2> QED BY <1>1, <2>1, StayService, Zenon
<1> QED BY <1>4, <1>5, Zenon DEF TInv

LEMMA MovesKeep ==
    ASSUME IInv, TInv, hello \notin Readers, Moves
    PROVE  TInv'
<1>0. /\ pc[hello] \notin KeyboardPlaces
      /\ \A p \in Pids : pc[p] = "spawn" => p = shell
      /\ current \in Pids /\ shell # hello /\ pc \in [Pids -> Places]
      /\ pcb[current].state = "DEAD" => pc[current] = "exit_yield"
  BY Basics DEF TInv, ServiceInv, IInv, CoreType, CurrentInv, shell, hello
<1> USE DEF At, Goto, KeyboardPlaces
<1>1. CASE getchar_take
  BY <1>0, <1>1, MoveKeeps, ZenonT(60) DEF getchar_take
<1>2. CASE getchar_wait
  BY <1>0, <1>2, MoveKeeps, Zenon DEF getchar_wait
<1>3. CASE keyboard_wait_register
  BY <1>0, <1>3, MoveKeeps, Zenon DEF keyboard_wait_register
<1>4. CASE keyboard_wait_eoi
  BY <1>0, <1>4, MoveKeeps, Zenon DEF keyboard_wait_eoi
<1>5. CASE sysret
  BY <1>0, <1>5, MoveKeeps, Zenon DEF sysret
<1>6. CASE wait_no_children
  BY <1>0, <1>6, MoveKeeps, Zenon DEF wait_no_children
<1>7. CASE cmd_run_usage
  BY <1>0, <1>7, MoveKeeps, Zenon DEF cmd_run_usage
<1>8. CASE sys_yield
  BY <1>0, <1>8, MoveKeeps, Zenon DEF sys_yield, Invokes
<1>9. CASE sys_wait
  BY <1>0, <1>9, MoveKeeps, Zenon DEF sys_wait, Invokes
<1>10. CASE sys_read
  BY <1>0, <1>10, MoveKeeps, Zenon DEF sys_read
<1>11. CASE remove_begin
  BY <1>0, <1>11, RemovalKeeps, Zenon DEF remove_begin, RemovalPlaces
<1>12. CASE remove_step
  <2>1. pc' = [pc EXCEPT ![current] = "walk"]
    BY <1>0, <1>12, Zenon DEF remove_step
  <2> QED BY <1>0, <1>12, <2>1, RemovalKeeps, Zenon DEF remove_step, RemovalPlaces
<1>13. CASE remove_tail
  BY <1>0, <1>13, RemovalKeeps, Zenon DEF remove_tail, RemovalPlaces
<1>14. CASE remove_gives_up
  BY <1>0, <1>14, RemovalKeeps, Zenon DEF remove_gives_up, RemovalPlaces
<1> QED BY <1>1, <1>2, <1>3, <1>4, <1>5, <1>6, <1>7, <1>8, <1>9, <1>10, <1>11,
           <1>12, <1>13, <1>14, Zenon DEF Moves

\* The current process blocks or goes to sleep.
LEMMA SuspendsKeep ==
    ASSUME IInv, TInv, keyboard_wait_block \/ wait_block \/ sys_sleep
    PROVE  TInv'
<1>0. /\ current \in Pids /\ pcb \in [Pids -> Pcb]
      /\ pc[hello] \notin KeyboardPlaces
  BY Basics, Zenon DEF IInv, CoreType, TInv, ServiceInv
<1>1. PICK proc : /\ proc.state # "DEAD" /\ proc.resume = pcb[current].resume
                  /\ pcb' = [pcb EXCEPT ![current] = proc]
  <2>1. CASE keyboard_wait_block \/ wait_block
    <3>1. pcb' = [pcb EXCEPT ![current] = [pcb[current] EXCEPT !.state = "BLOCKED"]]
      BY <2>1 DEF keyboard_wait_block, wait_block
    <3>2. /\ [pcb[current] EXCEPT !.state = "BLOCKED"].state # "DEAD"
          /\ [pcb[current] EXCEPT !.state = "BLOCKED"].resume = pcb[current].resume
      BY <1>0 DEF Pcb
    <3> QED BY <3>1, <3>2, Zenon
  <2>2. CASE sys_sleep
    <3>1. PICK t :
            pcb' = [pcb EXCEPT ![current] =
                        [WakeAt(pcb[current], t) EXCEPT !.state = "SLEEPING"]]
      BY <2>2, Zenon DEF sys_sleep
    <3> DEFINE proc == [WakeAt(pcb[current], t) EXCEPT !.state = "SLEEPING"]
    <3>2. proc.state # "DEAD" /\ proc.resume = pcb[current].resume
      BY <1>0 DEF Pcb, WakeAt
    <3> QED BY <3>1, <3>2, Zenon
  <2> QED BY <2>1, <2>2, Zenon
<1>2. /\ \A q \in Pids : pcb'[q].resume = pcb[q].resume
      /\ \A q \in Pids \ {current} : pcb'[q].state = "DEAD" <=> pcb[q].state = "DEAD"
      /\ pcb'[current].state # "DEAD"
  BY <1>0, <1>1, Zenon
<1> USE DEF At, Goto, KeyboardPlaces
<1>3. CASE keyboard_wait_block
  BY <1>0, <1>2, <1>3, MoveKeeps, Zenon DEF keyboard_wait_block
<1>4. CASE wait_block
  BY <1>0, <1>2, <1>4, MoveKeeps, Zenon DEF wait_block
<1>5. CASE sys_sleep
  BY <1>0, <1>2, <1>5, MoveKeeps, Zenon DEF sys_sleep, Invokes
<1> QED BY <1>3, <1>4, <1>5, Zenon

LEMMA ExitKeeps ==
    ASSUME IInv, TInv, sys_exit
    PROVE  TInv'
<1> DEFINE parent == pcb[current].parent
           dead   == [pcb EXCEPT ![current].state = "DEAD"]
<1>0. current \in Pids /\ pcb \in [Pids -> Pcb] /\ parent \in Pids
  BY Basics DEF IInv, CoreType, Pcb
<1>1. /\ dead \in [Pids -> Pcb]
      /\ \A q \in Pids : /\ dead[q].resume = pcb[q].resume
                         /\ q # current => dead[q].state = pcb[q].state
  BY <1>0 DEF Pcb, States
<1>2. pcb' = dead \/ pcb' = process_wake(dead, parent)
  BY Zenon DEF sys_exit
<1> HIDE DEF dead, parent
<1>3. /\ \A q \in Pids : pcb'[q].resume = pcb[q].resume
      /\ \A q \in Pids \ {current} : pcb'[q].state = "DEAD" <=> pcb[q].state = "DEAD"
  BY <1>0, <1>1, <1>2, WakeFacts, SMTT(30)
<1> QED BY <1>3, MoveKeeps, Zenon DEF sys_exit, Invokes, At, Goto, KeyboardPlaces

LEMMA KeyboardKeeps ==
    ASSUME IInv, TInv, KeyboardIRQ
    PROVE  TInv'
<1>0. /\ current \in Pids /\ hello \in Pids /\ shell \in Pids
      /\ pcb \in [Pids -> Pcb] /\ pc[hello] \notin KeyboardPlaces
      /\ \A p \in Pids : pc[p] \in {"spawn", "create", "load"} => p = shell
      /\ \A p \in Pids : pcb[p].state = "DEAD" => pc[p] \in {"exit_yield", "sysret"}
  BY Basics, ProcessesConstants DEF IInv, CoreType, Pids, hello, shell, TInv,
     ServiceInv, DeadInv
<1>1. \A q \in Pids : /\ pcb'[q].resume = pcb[q].resume
                      /\ pcb'[q].state = "DEAD" <=> pcb[q].state = "DEAD"
  <2>1. CASE keyboard_waiting = None
    BY <2>1, Zenon DEF KeyboardIRQ
  <2>2. CASE keyboard_waiting # None
    <3>1. keyboard_waiting \in Pids /\ pcb' = process_wake(pcb, keyboard_waiting)
      BY <2>2, Zenon DEF KeyboardIRQ, IInv, CoreType
    <3> QED BY <1>0, <3>1, WakeFacts
  <2> QED BY <2>1, <2>2, Zenon
<1>2. UNCHANGED <<process_table, queue, current, next_pid, local, pc, isr0>>
  BY Zenon DEF KeyboardIRQ
<1>3. HeadInv' /\ SlotInv' /\ DeadInv' /\ TableInv'
  BY <1>0, <1>1, <1>2, SameTable, Zenon
<1>4. ServiceInv'
  BY <1>0, <1>1, <1>2, StayService, Zenon DEF TInv
<1> QED BY <1>3, <1>4, Zenon DEF TInv
-----------------------------------------------------------------------------
\* scheduler_tick called by scheduler_yield: a process behind the shell in the
\* queue hands over to one further behind or to the idle process.
LEMMA YieldKeeps ==
    ASSUME IInv, TInv, scheduler_yield
    PROVE  TInv'
<1>0. /\ current \in Pids /\ hello \in Pids /\ shell \in Pids /\ hello # shell
      /\ pc \in [Pids -> Places]
      /\ now \in 0 .. TickModulus - 1 /\ -1 \in -1 .. TimeSlice
      /\ iflag \in BOOLEAN /\ isr0 \in BOOLEAN
  BY Basics, ProcessesConstants DEF IInv, CoreType, Pids, hello, shell
<1>1. /\ Reschedule(Ticked(now, -1), "yield", iflag, isr0)
      /\ pc[current] \in YieldPlaces /\ current # idle
      /\ pc'[current] = AfterYield(pc[current])
      /\ \A p \in Pids \ {current} : pc'[p] = pc[p]
      /\ UNCHANGED <<process_table, queue, next_pid, local>>
  BY <1>0, Basics, Zenon DEF scheduler_yield, YieldPlaces
<1>2. /\ current' # current
      /\ current # hello => current' \notin {hello, shell}
      /\ \A p \in Pids \ {current} : pcb'[p].resume = pcb[p].resume
      /\ pcb'[current].resume = "yield"
      /\ isr0' = (isr0 /\ pcb[current'].resume # "irq")
  BY <1>0, <1>1, DispatchFacts, Zenon DEF TInv
<1>3. \A p \in Pids : pcb'[p].state = "DEAD" <=> pcb[p].state = "DEAD"
  BY <1>0, <1>1, RescheduleFacts, Zenon
<1>4. pc'[current] \in {"sysret", "wait", "getchar"}
  BY <1>1, Zenon DEF YieldPlaces, AfterYield
<1>5. HeadInv' /\ SlotInv' /\ DeadInv' /\ TableInv'
  <2>1. /\ \A p \in Pids : pc'[p] \in {"create", "load"} => pc'[p] = pc[p]
        /\ \A p \in Pids : pc'[p] \in RemovalPlaces => pc[p] \in RemovalPlaces
        /\ \A p \in Pids : pc'[p] \in {"unlink", "walk"} => pc[p] \in {"unlink", "walk"}
    BY <1>1, <1>4, Zenon DEF RemovalPlaces
  <2>2. pcb[current].state = "DEAD" => pc'[current] = "sysret"
    BY <1>1, Zenon DEF IInv, CurrentInv, AfterYield
  <2>3. \A p \in Pids : pcb'[p].state = "DEAD" => pc'[p] \in {"exit_yield", "sysret"}
    BY <1>1, <1>3, <2>2, Zenon DEF TInv, DeadInv
  <2> QED BY <1>1, <1>3, <2>1, <2>3, SameTable, Zenon
<1>6. ServiceInv'
  <2>0. ServiceInv
    BY Zenon DEF TInv
  <2>1. pcb'[hello].resume # "irq"
    BY <1>0, <1>2, <2>0, Zenon DEF ServiceInv
  <2>2. pc'[hello] \notin KeyboardPlaces
    <3>1. current = hello => pc[hello] \notin {"kb_yield"}
      BY <2>0, Zenon DEF ServiceInv, KeyboardPlaces
    <3>2. current = hello => pc'[hello] \in {"sysret", "wait"}
      BY <1>1, <3>1, Zenon DEF YieldPlaces, AfterYield
    <3> QED BY <1>0, <1>1, <2>0, <3>2, Zenon DEF ServiceInv, KeyboardPlaces
  <2>3. current' = hello => isr0'
    BY <1>2, Zenon
  <2>4. pcb'[shell].resume = "irq" => pc'[shell] = "kb_yield"
    BY <1>0, <1>1, <1>2, <2>0, Zenon DEF ServiceInv
  <2>5. current' = shell => isr0' \/ pc'[shell] = "kb_yield"
    <3>1. current' = shell => current = hello /\ isr0 /\ pc'[shell] = pc[shell]
      BY <1>0, <1>1, <1>2, <2>0, Zenon DEF ServiceInv
    <3>2. pcb[shell].resume = "irq" => pc[shell] = "kb_yield"
      BY <2>0, Zenon DEF ServiceInv
    <3> QED BY <1>2, <3>1, <3>2, Zenon
  <2>6. current' # shell => pc'[shell] \in {"getchar", "wait", "kb_yield"}
    <3>1. CASE current = shell
      <4>1. pc[shell] \in {"wait_yield", "kb_yield"}
        BY <1>1, <3>1, Zenon DEF IInv, ShellInv, YieldPlaces
      <4> QED BY <1>1, <3>1, <4>1, Zenon DEF AfterYield
    <3>2. CASE current # shell
      BY <1>0, <1>1, <2>0, <3>2, Zenon DEF ServiceInv
    <3> QED BY <3>1, <3>2, Zenon
  <2>7. \A p \in Pids : pc'[p] \in {"spawn", "create", "load"} => p = shell
    BY <1>1, <1>4, <2>0, Zenon DEF ServiceInv
  <2> QED BY <2>1, <2>2, <2>3, <2>4, <2>5, <2>6, <2>7, Zenon DEF ServiceInv
<1> QED BY <1>5, <1>6, Zenon DEF TInv

\* The timer interrupt: neither hello nor the shell is ever what it suspends,
\* the shell at its scheduler_yield in keyboard_wait excepted.
LEMMA TimerKeeps ==
    ASSUME IInv, TInv, TimerIRQ
    PROVE  TInv'
<1> DEFINE tick  == (now + 1) % TickModulus
           ticks == pcb[current].ticks - 1
<1>0. /\ current \in Pids /\ hello \in Pids /\ shell \in Pids /\ idle \in Pids
      /\ hello # shell /\ idle # shell /\ idle # hello
  BY Basics, ProcessesConstants DEF Pids, hello, shell, idle
<1>1. tick \in 0 .. TickModulus - 1 /\ ticks \in -1 .. TimeSlice
  BY TickTypes, Zenon
<1>2. /\ \/ pcb' = Ticked(tick, ticks) /\ UNCHANGED <<current, isr0>>
         \/ Reschedule(Ticked(tick, ticks), "irq", FALSE, TRUE)
      /\ UNCHANGED <<process_table, queue, next_pid, local, pc>> /\ ~isr0
  BY Zenon DEF TimerIRQ, Interruptible
<1> HIDE DEF tick, ticks
<1>3. \A p \in Pids : pcb'[p].state = "DEAD" <=> pcb[p].state = "DEAD"
  <2>1. CASE pcb' = Ticked(tick, ticks)
    BY <1>1, <2>1, TickedFacts
  <2>2. CASE Reschedule(Ticked(tick, ticks), "irq", FALSE, TRUE)
    BY <1>1, <2>2, RescheduleFacts, Zenon
  <2> QED BY <1>2, <2>1, <2>2, Zenon
<1>4. HeadInv' /\ SlotInv' /\ DeadInv' /\ TableInv'
  <2>1. \A p \in Pids : pcb'[p].state = "DEAD" => pc'[p] \in {"exit_yield", "sysret"}
    BY <1>2, <1>3, Zenon DEF TInv, DeadInv
  <2> QED BY <1>2, <1>3, <2>1, SameTable, Zenon
<1>5. /\ ServiceInv /\ current # hello
      /\ current = shell => pc[shell] = "kb_yield"
      /\ \A p \in Pids : pc[p] \in {"spawn", "create", "load"} => p = shell
  BY <1>2, Zenon DEF TInv, ServiceInv
<1>6. CASE pcb' = Ticked(tick, ticks) /\ UNCHANGED <<current, isr0>>
  <2>1. \A p \in Pids : pcb'[p].resume = pcb[p].resume
    BY <1>1, <1>6, TickedFacts
  <2>2. ServiceInv'
    BY <1>0, <1>2, <1>5, <1>6, <2>1, StayService, Zenon
  <2> QED BY <1>4, <2>2, Zenon DEF TInv
<1>7. CASE Reschedule(Ticked(tick, ticks), "irq", FALSE, TRUE)
  <2>1. /\ current # idle => current' # current
        /\ \A p \in Pids \ {current} : pcb'[p].resume = pcb[p].resume
        /\ current' # current => isr0' = (pcb[current'].resume # "irq")
    BY <1>1, <1>7, DispatchFacts, Zenon DEF TInv
  <2>2. pcb'[hello].resume # "irq" /\ pc'[hello] \notin KeyboardPlaces
    BY <1>0, <1>2, <1>5, <2>1, Zenon DEF ServiceInv
  <2>3. current' = hello => isr0'
    BY <1>5, <2>1, Zenon DEF ServiceInv
  <2>4. pcb'[shell].resume = "irq" => pc'[shell] = "kb_yield"
    BY <1>0, <1>2, <1>5, <2>1, Zenon DEF ServiceInv
  <2>5. current' = shell => isr0' \/ pc'[shell] = "kb_yield"
    <3>1. current' = shell => current' # current
      BY <1>0, <2>1, Zenon
    <3>2. pcb[shell].resume = "irq" => pc[shell] = "kb_yield"
      BY <1>5, Zenon DEF ServiceInv
    <3> QED BY <1>2, <2>1, <3>1, <3>2, Zenon
  <2>6. current' # shell => pc'[shell] \in {"getchar", "wait", "kb_yield"}
    BY <1>2, <1>5, Zenon DEF ServiceInv
  <2>7. ServiceInv'
    BY <1>2, <1>5, <2>2, <2>3, <2>4, <2>5, <2>6, Zenon DEF ServiceInv
  <2> QED BY <1>4, <2>7, Zenon DEF TInv
<1> QED BY <1>2, <1>6, <1>7, Zenon
-----------------------------------------------------------------------------
\* The process table with one process more, and with one less.
LEMMA TableAdd ==
    ASSUME IInv, TInv, NEW s \in Slots, NEW c \in Pids, c \notin Tabled,
           process_table[s] = None, process_table' = [process_table EXCEPT ![s] = c]
    PROVE  /\ \A p : p \in Tabled' <=> p \in Tabled \/ p = c
           /\ \A t \in Slots : process_table[t] # None => process_table'[t] = process_table[t]
           /\ process_table'[s] = c
           /\ \A t, u \in Slots :
                process_table'[t] # None /\ process_table'[t] = process_table'[u] => t = u
<1>1. /\ \A t \in Slots : process_table'[t] = IF t = s THEN c ELSE process_table[t]
      /\ c # None
  BY ProcessesConstants DEF IInv, CoreType, Pids
<1>2. \A p : p \in Tabled <=> p # None /\ \E t \in Slots : process_table[t] = p
  BY Zenon DEF Tabled
<1>3. \A p : p \in Tabled' <=> p # None /\ \E t \in Slots : process_table'[t] = p
  BY Zenon DEF Tabled
<1>4. \A p : p \in Tabled' <=> p \in Tabled \/ p = c
  BY <1>1, <1>2, <1>3
<1>5. \A t, u \in Slots :
        process_table[t] # None /\ process_table[t] = process_table[u] => t = u
  BY Zenon DEF TInv, TableInv
<1>6. \A t \in Slots : process_table[t] # c
  BY <1>1, <1>2, Zenon
<1>7. \A t, u \in Slots :
        process_table'[t] # None /\ process_table'[t] = process_table'[u] => t = u
  BY <1>1, <1>5, <1>6
<1> QED BY <1>1, <1>4, <1>7, Zenon

LEMMA TableDrop ==
    ASSUME IInv, TInv, NEW s \in Slots, NEW c \in Pids,
           process_table[s] = c, process_table' = [process_table EXCEPT ![s] = None]
    PROVE  /\ \A p : p \in Tabled' <=> p \in Tabled /\ p # c
           /\ \A t \in Slots : process_table[t] # c => process_table'[t] = process_table[t]
           /\ \A t, u \in Slots :
                process_table'[t] # None /\ process_table'[t] = process_table'[u] => t = u
<1>1. /\ \A t \in Slots : process_table'[t] = IF t = s THEN None ELSE process_table[t]
      /\ c # None
  BY ProcessesConstants DEF IInv, CoreType, Pids
<1>2. \A p : p \in Tabled <=> p # None /\ \E t \in Slots : process_table[t] = p
  BY Zenon DEF Tabled
<1>3. \A p : p \in Tabled' <=> p # None /\ \E t \in Slots : process_table'[t] = p
  BY Zenon DEF Tabled
<1>5. \A t, u \in Slots :
        process_table[t] # None /\ process_table[t] = process_table[u] => t = u
  BY Zenon DEF TInv, TableInv
<1>4. \A p : p \in Tabled' <=> p \in Tabled /\ p # c
  BY <1>1, <1>2, <1>3, <1>5
<1>7. \A t, u \in Slots :
        process_table'[t] # None /\ process_table'[t] = process_table'[u] => t = u
  BY <1>1, <1>5
<1> QED BY <1>1, <1>4, <1>7, Zenon

\* scheduler_add leaves the head of the queue.
LEMMA HeadAppend ==
    ASSUME IInv, HeadInv, NEW c, scheduler_add(c)
    PROVE  HeadInv'
<1>1. queue \in Seq(Pids)
  BY DEF IInv, CoreType
<1>2. CASE queue' = Append(queue, c)
  BY <1>1, <1>2 DEF HeadInv
<1>3. CASE queue' = queue
  BY <1>3, Zenon DEF HeadInv
<1> QED BY <1>2, <1>3, Zenon DEF scheduler_add

\* So does unlinking a process that is none of the first three.
LEMMA HeadSplice ==
    ASSUME IInv, HeadInv, NEW i \in 1 .. Len(queue), queue' = Spliced(i),
           queue[i] > shell
    PROVE  HeadInv'
<1>1. /\ Len(queue) \in Nat /\ Len(queue) >= 3
      /\ queue[1] = idle /\ queue[2] = hello /\ queue[3] = shell
      /\ queue \in Seq(Pids)
  BY DEF IInv, CoreType, HeadInv
<1>2. i > 3
  BY <1>1 DEF idle, hello, shell
<1>3. Len(queue') = Len(queue) - 1 /\ Len(queue') >= 3
  BY <1>1, <1>2 DEF Spliced
<1>4. queue'[1] = queue[1] /\ queue'[2] = queue[2] /\ queue'[3] = queue[3]
  BY <1>1, <1>2 DEF Spliced
<1> QED BY <1>1, <1>3, <1>4 DEF HeadInv
-----------------------------------------------------------------------------
\* What the invariants say of PIDs, slots and the children in hand.
LEMMA TableBasics ==
    ASSUME IInv, TInv
    PROVE  /\ hello \in Pids /\ shell \in Pids /\ current \in Pids /\ hello # shell
           /\ shell \in Queued /\ Queued \subseteq Pids /\ Tabled \subseteq Pids
           /\ \A p \in Pids : p # None
           /\ pc[shell] = "create" => current = shell
           /\ \A p \in Pids : InHand(p) =>
                /\ local[p].child \in Pids /\ local[p].slot \in Slots
                /\ local[p].child \notin {hello, shell} /\ local[p].child > shell
           /\ \A p, q \in Pids : InHand(p) /\ InHand(q) /\ p # q =>
                local[p].child # local[q].child
<1>1. /\ hello \in Pids /\ shell \in Pids /\ current \in Pids /\ hello # shell
      /\ Queued \subseteq Pids /\ Tabled \subseteq Pids /\ \A p \in Pids : p # None
  BY Basics, ProcessesConstants DEF Pids, hello, shell
<1>2. shell \in Queued
  BY DEF TInv, HeadInv, Queued
<1>3. pc[shell] = "create" => current = shell
  BY Zenon DEF TInv, ServiceInv
<1>4. ASSUME NEW p \in Pids, InHand(p)
      PROVE  /\ local[p].child \in Pids /\ local[p].slot \in Slots
             /\ local[p].child \notin {hello, shell} /\ local[p].child > shell
  <2>1. /\ p # idle /\ local[p].child \in Pids /\ local[p].slot \in Slots
        /\ pcb[local[p].child].parent = p
    BY <1>4, Basics, Zenon
  <2> QED BY <2>1 DEF IInv, FamilyInv, idle, hello, shell, Pids
<1>5. \A p \in Pids : InHand(p) => pcb[local[p].child].parent = p
  BY Basics, Zenon
<1>6. \A p, q \in Pids : InHand(p) /\ InHand(q) /\ p # q =>
                local[p].child # local[q].child
  BY <1>5, Zenon
<1> QED BY <1>1, <1>2, <1>3, <1>4, <1>6, Zenon

\* process_fork: the child takes a free slot.  The
\* shell is not between its search for a free slot and its store then.
LEMMA ForkKeeps ==
    ASSUME IInv, TInv, sys_fork
    PROVE  TInv'
<1> DEFINE c == next_pid
<1>0. /\ hello \in Pids /\ shell \in Pids /\ current \in Pids /\ hello # shell
      /\ shell \in Queued /\ Queued \subseteq Pids
      /\ pc[current] = "user" /\ current # idle /\ pc[shell] # "create"
  BY TableBasics, Basics, Zenon DEF sys_fork, Invokes, At
<1>1. /\ pcb' = [pcb EXCEPT ![c] = NewPcb(current)]
      /\ next_pid' = next_pid + 1 /\ next_pid < MaxPid
      /\ scheduler_add(c)
      /\ UNCHANGED <<current, pc, local, isr0>>
  BY Zenon DEF sys_fork
<1>2. PICK s \in Slots : /\ process_table[s] = None
                         /\ process_table' = [process_table EXCEPT ![s] = c]
  BY Zenon DEF sys_fork, FreeSlot
<1>3. /\ c \in Pids /\ c \notin Queued /\ c \notin {idle, shell, current}
      /\ \A p \in Pids : InHand(p) => local[p].child # c
      /\ pcb'[c].state = "READY"
      /\ \A p \in Pids \ {c} : pcb'[p] = pcb[p]
  BY <1>0, <1>1, NewbornFacts, Zenon
<1>4. /\ c \notin Tabled /\ c # hello
      /\ \A p \in Tabled : p < next_pid'
      /\ c < next_pid'
  BY <1>0, <1>1, Basics DEF TInv, TableInv, IInv, CoreType, QueueInv, hello, shell
<1>5. /\ \A p : p \in Tabled' <=> p \in Tabled \/ p = c
      /\ \A t \in Slots : process_table[t] # None => process_table'[t] = process_table[t]
      /\ \A t, u \in Slots :
            process_table'[t] # None /\ process_table'[t] = process_table'[u] => t = u
  BY <1>2, <1>3, <1>4, TableAdd, Zenon
<1> HIDE DEF c
<1>7. HeadInv'
  BY <1>1, HeadAppend, Zenon DEF TInv
<1>8. ServiceInv'
  <2>1. \A p \in {hello, shell} : pcb'[p].resume = pcb[p].resume
    BY <1>0, <1>3, <1>4, Zenon
  <2>2. pc[hello] \notin KeyboardPlaces /\ ServiceInv
    BY Zenon DEF TInv, ServiceInv
  <2> QED BY <1>0, <1>1, <2>1, <2>2, StayService, Zenon
<1>9. SlotInv'
  <2>1. ASSUME NEW p \in Pids, pc'[p] \in {"load"} \cup RemovalPlaces
        PROVE  process_table'[local'[p].slot] = local'[p].child
    <3>1. InHand(p) /\ process_table[local[p].slot] = local[p].child
      BY <1>1, <2>1, Zenon DEF InHand, RemovalPlaces, TInv, SlotInv
    <3>2. local[p].slot \in Slots /\ local[p].child # None
      BY <3>1, TableBasics, Zenon
    <3> QED BY <1>1, <1>5, <3>1, <3>2, Zenon
  <2> QED BY <1>0, <1>1, <2>1, Zenon DEF SlotInv
<1>10. DeadInv'
  <2>1. ASSUME NEW p \in Pids, pc[p] \in {"unlink", "walk"}
        PROVE  pcb'[local[p].child].state = "DEAD"
    <3>1. InHand(p) /\ pcb[local[p].child].state = "DEAD"
      BY <2>1, Zenon DEF InHand, TInv, DeadInv
    <3>2. local[p].child \in Pids \ {c}
      BY <1>3, <3>1, TableBasics, Zenon
    <3> QED BY <1>3, <3>1, <3>2, Zenon
  <2>2. \A p \in Pids : pcb'[p].state = "DEAD" => pcb[p].state = "DEAD"
    BY <1>3, Zenon
  <2> QED BY <1>1, <2>1, <2>2, Zenon DEF TInv, DeadInv
<1>11. TableInv'
  <2>1. \A p \in Tabled' : p < next_pid'
    BY <1>4, <1>5, Zenon
  <2> QED BY <1>5, <2>1, Zenon DEF TableInv
<1> QED BY <1>7, <1>8, <1>9, <1>10, <1>11, Zenon DEF TInv

\* process_create up to the store.
LEMMA CreateKeeps ==
    ASSUME IInv, TInv, process_create_pcb
    PROVE  TInv'
<1> DEFINE c == next_pid
<1>0. /\ hello \in Pids /\ shell \in Pids /\ hello # shell
      /\ Queued \subseteq Pids /\ current # idle
      /\ pc[current] = "spawn" /\ current = shell
      /\ pc \in [Pids -> Places] /\ DOMAIN local = Pids
  BY TableBasics, Basics, Zenon DEF process_create_pcb, At, TInv, ServiceInv,
     IInv, CoreType
<1>1. /\ pcb' = [pcb EXCEPT ![c] = NewPcb(current)]
      /\ next_pid' = next_pid + 1 /\ next_pid < MaxPid
      /\ pc' = [pc EXCEPT ![current] = "create"]
      /\ UNCHANGED <<process_table, queue, current, isr0>>
  BY Zenon DEF process_create_pcb, Goto
<1>2. PICK s \in Slots :
         /\ process_table[s] = None
         /\ local' = [local EXCEPT ![current] = [slot |-> s, child |-> c]]
  BY Zenon DEF process_create_pcb, FreeSlot
<1>3. /\ c \in Pids /\ c \notin {idle, shell, current}
      /\ \A p \in Pids : InHand(p) => local[p].child # c
      /\ pcb'[c].state = "READY"
      /\ \A p \in Pids \ {c} : pcb'[p] = pcb[p]
  BY <1>0, <1>1, NewbornFacts, Zenon
<1>4. /\ c \notin Tabled /\ c # hello
      /\ \A p \in Tabled : p < next_pid'
  <2>1. /\ next_pid > shell /\ Tabled \subseteq Nat
        /\ \A p \in Tabled : p < next_pid
    BY TableBasics, Basics, Zenon DEF IInv, QueueInv, TInv, TableInv
  <2>2. next_pid \in Nat
    BY ProcessesConstants DEF IInv, CoreType
  <2> QED BY <1>1, <2>1, <2>2 DEF hello, shell
<1>5. /\ Queued' = Queued /\ Tabled' = Tabled
      /\ pc'[shell] = "create"
      /\ local'[shell].slot = s /\ local'[shell].child = c
      /\ \A p \in Pids \ {shell} : pc'[p] = pc[p] /\ local'[p] = local[p]
  BY <1>0, <1>1, <1>2 DEF Queued, Tabled
<1> HIDE DEF c
<1>6. HeadInv'
  BY <1>1, Zenon DEF TInv, HeadInv
<1>7. ServiceInv'
  <2>1. \A p \in {hello, shell} : pcb'[p].resume = pcb[p].resume
    BY <1>0, <1>3, <1>4, Zenon
  <2> QED BY <1>0, <1>1, <1>5, <2>1, StayService, Zenon DEF TInv
<1>8. SlotInv'
  <2>1. ASSUME NEW p \in Pids, pc'[p] \in {"load"} \cup RemovalPlaces
        PROVE  pc'[p] = pc[p] /\ local'[p] = local[p]
    BY <1>5, <2>1, Zenon DEF RemovalPlaces
  <2>3. \A p \in Pids : pc'[p] \in {"load"} \cup RemovalPlaces =>
            process_table[local'[p].slot] = local'[p].child
    BY <2>1, Zenon DEF TInv, SlotInv
  <2>4. process_table'[local'[shell].slot] = None /\ local'[shell].child \notin Tabled'
    BY <1>1, <1>2, <1>4, <1>5
  <2> QED BY <1>1, <1>5, <2>3, <2>4, Zenon DEF SlotInv
<1>9. DeadInv'
  <2>1. \A p \in Pids : pc'[p] \in {"unlink", "walk"} =>
            InHand(p) /\ pc[p] = pc'[p] /\ local'[p] = local[p]
    BY <1>5, Zenon DEF InHand
  <2>2. ASSUME NEW p \in Pids, pc'[p] \in {"unlink", "walk"}
        PROVE  pcb'[local'[p].child].state = "DEAD"
    <3>1. /\ InHand(p) /\ local'[p] = local[p]
          /\ pcb[local[p].child].state = "DEAD"
      BY <2>1, <2>2, Zenon DEF TInv, DeadInv
    <3>2. local[p].child \in Pids \ {c}
      BY <1>3, <3>1, TableBasics, Zenon
    <3> QED BY <1>3, <3>1, <3>2, Zenon
  <2>3. \A p \in Pids : pcb'[p].state = "DEAD" => p # shell /\ pcb[p].state = "DEAD"
    BY <1>0, <1>3, Zenon DEF TInv, DeadInv
  <2> QED BY <1>5, <2>2, <2>3, Zenon DEF TInv, DeadInv
<1>10. TableInv'
  BY <1>1, <1>4, <1>5, Zenon DEF TInv, TableInv
<1> QED BY <1>6, <1>7, <1>8, <1>9, <1>10, Zenon DEF TInv

\* The store of process_create: the slot found free is still free.
LEMMA StoreKeeps ==
    ASSUME IInv, TInv, process_create_store
    PROVE  TInv'
<1> DEFINE c == local[shell].child
           s == local[shell].slot
<1>0. /\ hello \in Pids /\ shell \in Pids /\ shell \in Queued
      /\ Queued \subseteq Pids /\ pc[current] = "create" /\ current = shell
      /\ pc \in [Pids -> Places] /\ hello # shell
  BY TableBasics, Zenon DEF process_create_store, At, TInv, ServiceInv, IInv, CoreType
<1>1. /\ process_table' = [process_table EXCEPT ![s] = c]
      /\ pc' = [pc EXCEPT ![current] = "load"]
      /\ UNCHANGED <<queue, current, next_pid, pcb, local, isr0>>
  BY <1>0, Zenon DEF process_create_store, Goto
<1>2. /\ InHand(shell) /\ c \in Pids /\ s \in Slots /\ c \notin Tabled
      /\ process_table[s] = None /\ c \notin Queued /\ c < next_pid
  BY <1>0, Basics, Zenon DEF TInv, SlotInv, InHand, IInv, HandInv
<1>3. /\ \A p : p \in Tabled' <=> p \in Tabled \/ p = c
      /\ \A t \in Slots : process_table[t] # None => process_table'[t] = process_table[t]
      /\ process_table'[s] = c
      /\ \A t, u \in Slots :
            process_table'[t] # None /\ process_table'[t] = process_table'[u] => t = u
  BY <1>1, <1>2, TableAdd, Zenon
<1>4. /\ Queued' = Queued /\ pc'[shell] = "load"
      /\ \A p \in Pids \ {shell} : pc'[p] = pc[p]
  BY <1>0, <1>1, Zenon DEF Queued
<1>5. HeadInv'
  BY <1>1, Zenon DEF TInv, HeadInv
<1>6. ServiceInv'
  BY <1>0, <1>1, <1>4, StayService, Zenon DEF TInv
<1>7. SlotInv'
  <2>1. ASSUME NEW p \in Pids \ {shell}, pc[p] \in {"load"} \cup RemovalPlaces
        PROVE  process_table'[local[p].slot] = local[p].child
    <3>1. InHand(p) /\ process_table[local[p].slot] = local[p].child
      BY <2>1, Zenon DEF InHand, RemovalPlaces, TInv, SlotInv
    <3>2. local[p].slot \in Slots /\ local[p].child # None
      BY <3>1, TableBasics, Zenon
    <3> QED BY <1>3, <3>1, <3>2, Zenon
  <2> QED BY <1>1, <1>3, <1>4, <2>1, Zenon DEF SlotInv, RemovalPlaces
<1>8. DeadInv'
  BY <1>0, <1>1, <1>4, Zenon DEF TInv, DeadInv
<1>9. TableInv'
  <2>1. \A p \in Tabled' : p < next_pid
    BY <1>2, <1>3, Zenon DEF TInv, TableInv
  <2> QED BY <1>1, <1>3, <2>1, Zenon DEF TableInv
<1> QED BY <1>5, <1>6, <1>7, <1>8, <1>9, Zenon DEF TInv

\* scheduler_add at the end of process_spawn.
LEMMA SpawnKeeps ==
    ASSUME IInv, TInv, process_spawn_add
    PROVE  TInv'
<1> DEFINE c == local[shell].child
<1>0. /\ hello \in Pids /\ shell \in Pids /\ hello # shell
      /\ Queued \subseteq Pids /\ pc[current] = "load" /\ current = shell
      /\ pc \in [Pids -> Places] /\ pcb \in [Pids -> Pcb] /\ InHand(shell)
  BY TableBasics, Zenon DEF process_spawn_add, At, TInv, ServiceInv, IInv, CoreType,
     InHand
<1>1. /\ scheduler_add(c)
      /\ pcb' = [pcb EXCEPT ![c].state = "READY"]
      /\ pc' = [pc EXCEPT ![current] = "wait"]
      /\ UNCHANGED <<process_table, current, next_pid, local, isr0>>
  BY <1>0, Zenon DEF process_spawn_add, Goto
<1>2. /\ c \in Pids /\ c \notin {hello, shell} /\ c \notin Queued
      /\ pcb[c].state = "READY" /\ local[shell].slot \in Slots
      /\ process_table[local[shell].slot] = c /\ c # None
      /\ \A p \in Pids \ {shell} : InHand(p) => local[p].child # c
  BY <1>0, TableBasics, Zenon DEF TInv, SlotInv, IInv, HandInv
<1>3. UNCHANGED pcb
  BY <1>0, <1>1, <1>2, ReadySame, Zenon
<1>5. /\ Tabled' = Tabled /\ c \in Tabled
      /\ pc'[shell] = "wait" /\ \A p \in Pids \ {shell} : pc'[p] = pc[p]
  BY <1>0, <1>1, <1>2, Zenon DEF Tabled
<1> HIDE DEF c
<1>6. HeadInv'
  BY <1>1, HeadAppend, Zenon DEF TInv
<1>7. ServiceInv'
  BY <1>0, <1>1, <1>3, <1>5, StayService, Zenon DEF TInv
<1>8. SlotInv'
  <2>0. \A p \in Pids : pc'[p] \in {"load"} \cup RemovalPlaces =>
            p # shell /\ pc[p] = pc'[p]
    BY <1>5, Zenon DEF RemovalPlaces
  <2>1. \A p \in Pids : pc'[p] \in {"load"} \cup RemovalPlaces =>
            process_table'[local'[p].slot] = local'[p].child
    BY <1>1, <2>0, Zenon DEF TInv, SlotInv
  <2> QED BY <1>5, <2>1, Zenon DEF SlotInv
<1>9. DeadInv'
  BY <1>0, <1>1, <1>3, <1>5, Zenon DEF TInv, DeadInv
<1>10. TableInv'
  BY <1>1, <1>5, Zenon DEF TInv, TableInv
<1> QED BY <1>6, <1>7, <1>8, <1>9, <1>10, Zenon DEF TInv

\* A dead child is found.
LEMMA FoundKeeps ==
    ASSUME IInv, TInv, wait_found
    PROVE  TInv'
<1>0. /\ hello \in Pids /\ shell \in Pids /\ current \in Pids /\ hello # shell
      /\ Queued \subseteq Pids /\ pc[current] = "wait"
      /\ pc \in [Pids -> Places] /\ DOMAIN local = Pids
      /\ pcb[current].state # "DEAD"
  BY TableBasics, Zenon DEF wait_found, At, IInv, CoreType, TInv, DeadInv
<1>1. PICK s \in Slots :
        /\ pcb[process_table[s]].state = "DEAD"
        /\ local' = [local EXCEPT ![current] =
                        [slot |-> s, child |-> process_table[s]]]
  BY Zenon DEF wait_found, DeadChildAt
<1>2. /\ pc' = [pc EXCEPT ![current] = "unlink"]
      /\ UNCHANGED <<process_table, queue, current, next_pid, pcb, isr0>>
  BY Zenon DEF wait_found, Goto
<1>3. /\ Queued' = Queued /\ Tabled' = Tabled
      /\ pc'[current] = "unlink"
      /\ local'[current].slot = s /\ local'[current].child = process_table[s]
      /\ \A p \in Pids \ {current} : pc'[p] = pc[p] /\ local'[p] = local[p]
  BY <1>0, <1>1, <1>2 DEF Queued, Tabled
<1>4. HeadInv'
  BY <1>2, Zenon DEF TInv, HeadInv
<1>5. ServiceInv'
  <2>1. "unlink" \notin KeyboardPlaces
    BY Zenon DEF KeyboardPlaces
  <2> QED BY <1>0, <1>2, <1>3, <2>1, StayService, Zenon DEF TInv
<1>6. SlotInv'
  <2>2. ASSUME NEW p \in Pids, pc'[p] \in {"load"} \cup RemovalPlaces
        PROVE  process_table[local'[p].slot] = local'[p].child
    BY <1>3, <2>2, Zenon DEF TInv, SlotInv
  <2>3. pc'[shell] = "create" =>
            process_table[local'[shell].slot] = None /\ local'[shell].child \notin Tabled
    BY <1>0, <1>3, Zenon DEF TInv, SlotInv
  <2> QED BY <1>2, <1>3, <2>2, <2>3, Zenon DEF SlotInv
<1>7. DeadInv'
  <2>1. ASSUME NEW p \in Pids, pc'[p] \in {"unlink", "walk"}
        PROVE  pcb[local'[p].child].state = "DEAD"
    BY <1>1, <1>3, <2>1, Zenon DEF TInv, DeadInv
  <2> QED BY <1>0, <1>2, <1>3, <2>1, Zenon DEF TInv, DeadInv
<1>8. TableInv'
  BY <1>2, <1>3, Zenon DEF TInv, TableInv
<1> QED BY <1>4, <1>5, <1>6, <1>7, <1>8, Zenon DEF TInv

\* What scheduler_remove unlinks is none of the first three processes.
LEMMA SpliceKeeps ==
    ASSUME IInv, TInv, remove_splice
    PROVE  TInv'
<1> DEFINE c == local[current].child
<1>0. /\ hello \in Pids /\ shell \in Pids /\ current \in Pids /\ hello # shell
      /\ Queued \subseteq Pids /\ pc[current] = "walk" /\ InHand(current)
      /\ pc \in [Pids -> Places]
  BY TableBasics, Zenon DEF remove_splice, At, IInv, CoreType, InHand
<1>1. /\ pc' = [pc EXCEPT ![current] = "tail"]
      /\ UNCHANGED <<process_table, current, next_pid, pcb, local, isr0>>
      /\ \/ \E i \in 2 .. Len(queue) : queue[i] = c /\ queue' = Spliced(i)
         \/ UNCHANGED queue
  BY Zenon DEF remove_splice, Goto
<1>2. /\ c \in Pids /\ c > shell /\ c # current /\ pcb[c].state = "DEAD"
      /\ pc[c] \in {"exit_yield", "sysret"}
      /\ process_table[local[current].slot] = c
  <2>1. c \in Pids /\ c > shell
    BY <1>0, TableBasics, Zenon
  <2>2. pcb[c].state = "DEAD" /\ process_table[local[current].slot] = c
    BY <1>0, Zenon DEF TInv, DeadInv, SlotInv, RemovalPlaces
  <2>3. pc[c] \in {"exit_yield", "sysret"}
    BY <2>1, <2>2, Zenon DEF TInv, DeadInv
  <2> QED BY <1>0, <2>1, <2>2, <2>3, Zenon
<1>4. /\ Tabled' = Tabled /\ pc'[current] = "tail"
      /\ \A p \in Pids \ {current} : pc'[p] = pc[p]
  BY <1>0, <1>1, Zenon DEF Tabled
<1>5. HeadInv'
  <2>0. HeadInv
    BY Zenon DEF TInv
  <2>1. CASE \E i \in 2 .. Len(queue) : queue[i] = c /\ queue' = Spliced(i)
    <3>1. PICK i \in 2 .. Len(queue) : queue[i] = c /\ queue' = Spliced(i)
      BY <2>1, Zenon
    <3>2. i \in 1 .. Len(queue)
      BY DEF IInv, CoreType
    <3> QED BY <1>2, <2>0, <3>1, <3>2, HeadSplice, Zenon
  <2>2. CASE UNCHANGED queue
    BY <2>0, <2>2, Zenon DEF HeadInv
  <2> QED BY <1>1, <2>1, <2>2, Zenon
<1> HIDE DEF c
<1>6. ServiceInv'
  <2>1. "tail" \notin KeyboardPlaces
    BY Zenon DEF KeyboardPlaces
  <2> QED BY <1>0, <1>1, <1>4, <2>1, StayService, Zenon DEF TInv
<1>7. SlotInv'
  <2>2. ASSUME NEW p \in Pids, pc'[p] \in {"load"} \cup RemovalPlaces
        PROVE  process_table[local[p].slot] = local[p].child
    BY <1>0, <1>4, <2>2, Zenon DEF TInv, SlotInv, RemovalPlaces
  <2>3. pc'[shell] = "create" =>
            process_table[local[shell].slot] = None /\ local[shell].child \notin Tabled
    BY <1>0, <1>4, Zenon DEF TInv, SlotInv
  <2> QED BY <1>1, <1>4, <2>2, <2>3, Zenon DEF SlotInv
<1>8. DeadInv'
  <2>1. pcb[current].state # "DEAD"
    BY <1>0, Zenon DEF TInv, DeadInv
  <2> QED BY <1>0, <1>1, <1>4, <2>1, Zenon DEF TInv, DeadInv
<1>9. TableInv'
  BY <1>1, <1>4, Zenon DEF TInv, TableInv
<1> QED BY <1>5, <1>6, <1>7, <1>8, <1>9, Zenon DEF TInv

\* The child in hand leaves the table.
LEMMA ReleaseKeeps ==
    ASSUME IInv, TInv, pc[current] \in {"reap", "load"}, NEW to \in {"getchar", "sysret"},
           Release(local[current].slot, local[current].child),
           pc' = [pc EXCEPT ![current] = to], current = hello => to = "sysret",
           UNCHANGED <<queue, current, next_pid, isr0>>
    PROVE  TInv'
<1> DEFINE c == local[current].child
           s == local[current].slot
<1>0. /\ hello \in Pids /\ shell \in Pids /\ current \in Pids /\ hello # shell
      /\ Queued \subseteq Pids /\ InHand(current)
      /\ pc \in [Pids -> Places]
  BY TableBasics, Zenon DEF IInv, CoreType, InHand
<1>1. /\ process_table' = [process_table EXCEPT ![s] = None]
      /\ pcb' = [pcb EXCEPT ![c] = NoPcb]
      /\ local' = [local EXCEPT ![current] = NoLocal]
      /\ UNCHANGED <<queue, current, next_pid, isr0>>
  BY Zenon DEF Release
<1>2. /\ c \in Pids /\ s \in Slots /\ c \notin {hello, shell}
      /\ process_table[s] = c /\ pcb[c].parent = current
      /\ \A p \in Pids \ {current} : InHand(p) => local[p].child # c
  BY <1>0, TableBasics, Basics, Zenon DEF TInv, SlotInv, RemovalPlaces
<1>3. /\ \A p : p \in Tabled' <=> p \in Tabled /\ p # c
      /\ \A t \in Slots : process_table[t] # c => process_table'[t] = process_table[t]
      /\ \A t, u \in Slots :
            process_table'[t] # None /\ process_table'[t] = process_table'[u] => t = u
  BY <1>1, <1>2, TableDrop, Zenon
<1>4. NoPcb.state = "FREE"
  BY Zenon DEF NoPcb
<1>5. /\ Queued' = Queued /\ pc'[current] = to
      /\ \A p \in Pids \ {current} : pc'[p] = pc[p] /\ local'[p] = local[p]
      /\ pcb'[c].state = "FREE"
      /\ \A p \in Pids \ {c} : pcb'[p] = pcb[p]
      /\ pcb[current].state # "DEAD"
  <2>1. Queued' = Queued /\ pcb[current].state # "DEAD"
    BY <1>0, <1>1, Zenon DEF Queued, TInv, DeadInv
  <2>2. pcb \in [Pids -> Pcb] /\ DOMAIN local = Pids
    BY Zenon DEF IInv, CoreType
  <2> QED BY <1>0, <1>1, <1>2, <1>4, <2>1, <2>2, Zenon
<1>6. pc'[shell] # "create"
  BY <1>0, <1>5, TableBasics, Zenon
<1> HIDE DEF c, s
<1>7. HeadInv'
  BY <1>1, Zenon DEF TInv, HeadInv
<1>8. ServiceInv'
  <2>1. \A p \in {hello, shell} : pcb'[p].resume = pcb[p].resume
    <3>1. pcb'[hello] = pcb[hello] /\ pcb'[shell] = pcb[shell]
      BY <1>0, <1>2, <1>5, Zenon
    <3> QED BY <3>1, Zenon
  <2>2. current = hello => pc'[hello] \notin KeyboardPlaces
    BY <1>5, Zenon DEF KeyboardPlaces
  <2> QED BY <1>0, <1>1, <1>5, <2>1, <2>2, StayService, Zenon DEF TInv
<1>9. ASSUME NEW p \in Pids \ {current}, InHand(p)
      PROVE  /\ local[p].child \in Pids /\ local[p].slot \in Slots
             /\ local[p].child # c /\ local'[p] = local[p] /\ pc'[p] = pc[p]
             /\ pcb'[local[p].child] = pcb[local[p].child]
  <2>1. local[p].child \in Pids /\ local[p].slot \in Slots
    BY <1>9, TableBasics, Zenon
  <2> QED BY <1>2, <1>5, <1>9, <2>1, Zenon
<1>10. SlotInv'
  <2>1. ASSUME NEW p \in Pids, pc'[p] \in {"load"} \cup RemovalPlaces
        PROVE  process_table'[local'[p].slot] = local'[p].child
    <3>1. p # current /\ pc'[p] = pc[p]
      BY <1>5, <2>1, Zenon DEF RemovalPlaces
    <3>2. InHand(p) /\ process_table[local[p].slot] = local[p].child
      BY <2>1, <3>1, Zenon DEF InHand, RemovalPlaces, TInv, SlotInv
    <3>3. process_table'[local[p].slot] = local[p].child
      BY <1>3, <1>9, <3>1, <3>2, Zenon
    <3> QED BY <1>9, <3>1, <3>2, <3>3, Zenon
  <2> QED BY <1>5, <1>6, <2>1, Zenon DEF SlotInv
<1>11. DeadInv'
  <2>1. ASSUME NEW p \in Pids, pc'[p] \in {"unlink", "walk"}
        PROVE  pcb'[local'[p].child].state = "DEAD"
    <3>1. p # current /\ pc[p] = pc'[p] /\ InHand(p)
      BY <1>5, <2>1, Zenon DEF InHand
    <3>2. pcb[local[p].child].state = "DEAD"
      BY <2>1, <3>1, Zenon DEF TInv, DeadInv
    <3> QED BY <1>9, <3>1, <3>2, Zenon
  <2> QED BY <1>5, <2>1, Zenon DEF TInv, DeadInv
<1>12. TableInv'
  <2>1. \A p \in Tabled' : p < next_pid
    BY <1>3, Zenon DEF TInv, TableInv
  <2> QED BY <1>1, <1>3, <2>1, Zenon DEF TableInv
<1> QED BY <1>7, <1>8, <1>10, <1>11, <1>12, Zenon DEF TInv
-----------------------------------------------------------------------------
LEMMA TableInit == Init => TInv
<1> SUFFICES ASSUME Init PROVE TInv
  OBVIOUS
<1> USE ProcessesConstants DEF Init, Pids, Slots, idle, hello, shell
<1>1. /\ Len(queue) = 3 /\ queue[1] = 0 /\ queue[2] = 1 /\ queue[3] = 2
      /\ current = 0 /\ next_pid = 3 /\ None \notin Nat
  OBVIOUS
<1>2. Queued = {0, 1, 2}
  BY <1>1 DEF Queued
<1>3. /\ \A s \in Slots : process_table[s] = IF s <= 2 THEN s ELSE None
      /\ \A s \in Slots : s \in Nat
      /\ 0 \in Slots /\ 1 \in Slots /\ 2 \in Slots
  OBVIOUS
<1>4. /\ \A p \in Pids : pc[p] \in {"hlt", "getchar", "user"}
      /\ pc[hello] = "user" /\ pc[shell] = "getchar"
  OBVIOUS
<1>5. \A p \in Pids : pcb[p].state # "DEAD" /\ pcb[p].resume = "start"
  BY DEF NewPcb, NoPcb, SwitchedIn, Renewed
<1>6. hello \in Pids /\ shell \in Pids
  OBVIOUS
<1> HIDE DEF Init, Pids, Slots
<1>7. Tabled = {0, 1, 2}
  BY <1>1, <1>3 DEF Tabled
<1>8. HeadInv
  BY <1>1 DEF HeadInv
<1>9. ServiceInv
  BY <1>1, <1>4, <1>5, <1>6 DEF ServiceInv, KeyboardPlaces
<1>10. SlotInv /\ DeadInv
  BY <1>4, <1>5 DEF SlotInv, DeadInv, RemovalPlaces
<1>11. TableInv
  <2>1. \A s, t \in Slots :
            process_table[s] # None /\ process_table[s] = process_table[t] => s = t
    BY <1>1, <1>3
  <2> QED BY <1>1, <1>7, <2>1 DEF TableInv
<1> QED BY <1>8, <1>9, <1>10, <1>11, Zenon DEF TInv

LEMMA TableNext ==
    ASSUME IInv, TInv, hello \notin Readers, [Next]_vars
    PROVE  TInv'
<1>1. CASE kpanic \/ UNCHANGED vars
  <2>1. UNCHANGED <<process_table, queue, current, next_pid, pcb, pc, local, isr0>>
    BY <1>1, Zenon DEF kpanic, vars
  <2>2. HeadInv' /\ SlotInv' /\ DeadInv' /\ TableInv'
    BY <2>1, SameTable, Zenon DEF TInv, DeadInv
  <2>3. pc[hello] \notin KeyboardPlaces /\ ServiceInv /\ current \in Pids
        /\ \A p \in Pids : pc[p] \in {"spawn", "create", "load"} => p = shell
    BY Basics, Zenon DEF TInv, ServiceInv
  <2>4. ServiceInv'
    BY <2>1, <2>3, StayService, Zenon
  <2> QED BY <2>2, <2>4, Zenon DEF TInv
<1>2. CASE wait_reap
  <2>1. hello # shell
    BY DEF hello, shell
  <2> QED BY <1>2, <2>1, ReleaseKeeps, ZenonT(60) DEF wait_reap, At, Goto
<1>3. CASE process_spawn_fail
  <2>1. current # hello
    BY <1>3, TableBasics, Zenon DEF process_spawn_fail, At, TInv, ServiceInv
  <2> QED BY <1>3, <2>1, ReleaseKeeps, Zenon DEF process_spawn_fail, At, Goto
<1>4. CASE Kernel
  BY <1>1, <1>2, <1>3, <1>4, MovesKeep, SuspendsKeep, YieldKeeps, FoundKeeps,
     SpliceKeeps, CreateKeeps, StoreKeeps, SpawnKeeps, Zenon
     DEF Kernel, Moves, process_create_panic
<1>5. CASE User
  BY <1>1, <1>5, MovesKeep, SuspendsKeep, ExitKeeps, ForkKeeps, Zenon
     DEF User, Moves, sys_fork_panic
<1> QED BY <1>1, <1>4, <1>5, TimerKeeps, KeyboardKeeps, Zenon DEF Next, Halted

\* hello (apps/hello/hello.c) opens files, never /devices/keyboard.
LEMMA TableInvariance ==
    ASSUME hello \notin Readers
    PROVE  Spec => [](IInv /\ TInv)
<1>1. Init => IInv /\ TInv
  BY InitInv, TableInit, Zenon
<1>2. IInv /\ TInv /\ [Next]_vars => (IInv /\ TInv)'
  BY NextInv, TableNext, Zenon
<1> QED BY <1>1, <1>2, PTL DEF Spec

\* The shell's unguarded process_create, kmalloc and pmm_alloc are never
\* interrupted, although 'sti' has been executed on the way to them: the timer
\* interrupt that gave the shell the CPU is still in service.
THEOREM ShellRunsUninterrupted ==
    ASSUME hello \notin Readers
    PROVE  Spec => []ShellIsNotInterrupted
<1>1. TInv => ShellIsNotInterrupted
  BY Zenon DEF TInv, ServiceInv, ShellIsNotInterrupted, Interruptible
<1> QED BY <1>1, TableInvariance, PTL
-----------------------------------------------------------------------------
(***************************************************************************)
(* The ring, as long as nobody changes it while another process is inside  *)
(* scheduler_remove.                                                       *)
(***************************************************************************)
HeldOff(p) == \E parent \in Queued : InHandOf(parent, p, {"load", "tail", "reap"})

\* Who is on the ring: a process from scheduler_add to the store that unlinks
\* it.
MemberInv ==
    /\ Queued \subseteq Tabled
    /\ \A p \in Tabled : p \in Queued \/ HeldOff(p)
    /\ \A p \in Pids : pc[p] \in {"unlink", "walk"} => local[p].child \in Queued
    /\ \A p \in Pids : pc[p] \in {"tail", "reap"} => local[p].child \notin Queued

\* prev and node of a walk are neighbours on the ring, and the child is not
\* among those it has passed.
WalkAt(p, i) ==
    /\ walk[p].node = queue[i + 1]
    /\ i > 0 => walk[p].prev = queue[i]
    /\ \A j \in 1 .. i : queue[j] # local[p].child

WalkInv ==
    \A p \in Pids : pc[p] = "walk" =>
        walk[p].i \in 0 .. Len(queue) - 1 /\ WalkAt(p, walk[p].i)

\* The tail pointer is the last of the ring, or the child that has just been
\* unlinked from behind it.
Lags(p) ==
    /\ pc[p] = "tail" /\ run_queue_tail = local[p].child
    /\ walk[p].prev = queue[Len(queue)]

TailInv == run_queue_tail = queue[Len(queue)] \/ \E p \in Pids : Lags(p)

Ring == MemberInv /\ WalkInv /\ TailInv
RingInv == ~overlapped => Ring
-----------------------------------------------------------------------------
\* The steps that have nothing to do with the ring.
RingPlaces == {"load"} \cup RemovalPlaces

RingStays ==
    /\ UNCHANGED <<process_table, queue, run_queue_tail, walk, overlapped>>
    /\ \A p \in Pids : pc[p] \in RingPlaces \/ pc'[p] \in RingPlaces =>
            pc'[p] = pc[p] /\ local'[p] = local[p]

LEMMA RingSame ==
    ASSUME IInv, Ring, RingStays
    PROVE  Ring'
<1>0. Queued \subseteq Pids
  BY Basics, Zenon
<1>1. /\ Queued' = Queued /\ Tabled' = Tabled
      /\ UNCHANGED <<queue, run_queue_tail, walk>>
  BY Zenon DEF RingStays, Queued, Tabled
<1>2. \A p \in Pids : pc[p] \in RingPlaces \/ pc'[p] \in RingPlaces =>
            pc'[p] = pc[p] /\ local'[p] = local[p]
  BY Zenon DEF RingStays
<1> USE DEF RingPlaces, RemovalPlaces
<1>3. \A p \in Tabled : p \in Queued \/ HeldOff(p)'
  <2>1. \A p : HeldOff(p) => HeldOff(p)'
    BY <1>0, <1>1, <1>2, Zenon DEF HeldOff, InHandOf
  <2> QED BY <2>1, Zenon DEF Ring, MemberInv
<1>4. MemberInv'
  BY <1>1, <1>2, <1>3, Zenon DEF Ring, MemberInv
<1>5. ASSUME NEW p \in Pids, pc'[p] = "walk"
      PROVE  /\ walk'[p].i \in 0 .. Len(queue') - 1
             /\ WalkAt(p, walk[p].i)'
  <2>1. pc[p] = "walk" /\ local'[p] = local[p]
    BY <1>2, <1>5, Zenon
  <2> QED BY <1>1, <2>1, Zenon DEF Ring, WalkInv, WalkAt
<1>6. WalkInv'
  BY <1>5, Zenon DEF WalkInv
<1>7. TailInv'
  BY <1>1, <1>2, Zenon DEF Ring, TailInv, Lags
<1> QED BY <1>4, <1>6, <1>7, Zenon DEF Ring

LEMMA MoveStaysOff ==
    ASSUME IInv, UNCHANGED <<process_table, queue, run_queue_tail, walk, overlapped>>,
           NEW to, to \notin {"load", "unlink", "walk", "tail", "reap"},
           pc[current] \notin {"load", "unlink", "walk", "tail", "reap"},
           pc' = [pc EXCEPT ![current] = to],
           \A p \in Pids \ {current} : local'[p] = local[p]
    PROVE  RingStays
<1>0. pc \in [Pids -> Places] /\ current \in Pids
  BY Zenon DEF IInv, CoreType
<1>1. pc'[current] = to /\ \A p \in Pids \ {current} : pc'[p] = pc[p]
  BY <1>0, Zenon
<1> QED BY <1>1, Zenon DEF RingStays, RingPlaces, RemovalPlaces

LEMMA RingIsOwn ==
    IInv /\ [Next]_vars => \/ Removes \/ wait_found \/ process_create_store
                           \/ sys_fork \/ process_spawn_add \/ process_spawn_fail
                           \/ wait_reap \/ RingStays
<1> SUFFICES ASSUME IInv, [Next]_vars, ~Removes, ~wait_found, ~process_create_store,
                    ~sys_fork, ~process_spawn_add, ~process_spawn_fail, ~wait_reap
             PROVE  RingStays
  OBVIOUS
<1> USE DEF removal, At, Goto
<1>1. CASE UNCHANGED <<process_table, queue, run_queue_tail, walk, overlapped, pc, local>>
  BY <1>1, Zenon DEF RingStays
<1>2. kpanic \/ TimerIRQ \/ KeyboardIRQ \/ UNCHANGED vars =>
        UNCHANGED <<process_table, queue, run_queue_tail, walk, overlapped, pc, local>>
  BY Zenon DEF kpanic, TimerIRQ, KeyboardIRQ, vars
<1>3. CASE scheduler_yield
  <2>1. /\ AfterYield(pc[current]) \notin {"load", "unlink", "walk", "tail", "reap"}
        /\ pc[current] \notin {"load", "unlink", "walk", "tail", "reap"}
    BY <1>3 DEF scheduler_yield, AfterYield, YieldPlaces
  <2>2. pc' = [pc EXCEPT ![current] = AfterYield(pc[current])]
    BY <1>3 DEF scheduler_yield
  <2> QED BY <1>3, <2>1, <2>2, MoveStaysOff, Zenon DEF scheduler_yield
<1>4. CASE getchar_take
  BY <1>4, MoveStaysOff, Zenon DEF getchar_take
<1>5. CASE getchar_wait \/ keyboard_wait_register \/ keyboard_wait_block
             \/ keyboard_wait_eoi \/ sysret
  BY <1>5, MoveStaysOff, Zenon DEF getchar_wait, keyboard_wait_register,
     keyboard_wait_block, keyboard_wait_eoi, sysret
<1>6. CASE wait_no_children \/ wait_block \/ cmd_run_usage
  BY <1>6, MoveStaysOff, Zenon DEF wait_no_children, wait_block, cmd_run_usage
<1>7. CASE process_create_pcb
  <2>1. \A p \in Pids \ {current} : local'[p] = local[p]
    BY <1>7, Zenon DEF process_create_pcb, IInv, CoreType
  <2> QED BY <1>7, <2>1, MoveStaysOff, Zenon DEF process_create_pcb
<1>8. CASE sys_exit \/ sys_yield \/ sys_wait \/ sys_sleep \/ sys_read
  BY <1>8, MoveStaysOff, Zenon DEF sys_exit, sys_yield, sys_wait, sys_sleep,
     sys_read, Invokes
<1>9. CASE Kernel
  BY <1>1, <1>2, <1>3, <1>4, <1>5, <1>6, <1>7, <1>9, Zenon
     DEF Kernel, Removes, process_create_panic
<1>10. CASE User
  BY <1>1, <1>2, <1>8, <1>10, Zenon DEF User, sys_fork_panic
<1> QED BY <1>1, <1>2, <1>9, <1>10, Zenon DEF Next, Halted

\* The steps of the current process that leave the ring and what the others
\* have in hand.
LEMMA OthersKeep ==
    ASSUME IInv, Ring, queue' = queue, run_queue_tail' = run_queue_tail,
           \A p \in Pids \ {current} :
               pc'[p] = pc[p] /\ local'[p] = local[p] /\ walk'[p] = walk[p]
    PROVE  /\ \A p \in Pids \ {current} : pc'[p] = "walk" =>
                    walk'[p].i \in 0 .. Len(queue') - 1 /\ WalkAt(p, walk[p].i)'
           /\ \A p \in Pids \ {current} : pc'[p] \in {"unlink", "walk"} =>
                    local'[p].child \in Queued'
           /\ \A p \in Pids \ {current} : pc'[p] \in {"tail", "reap"} =>
                    local'[p].child \notin Queued'
           /\ \A p \in Pids \ {current} : Lags(p) => Lags(p)'
           /\ \A p : HeldOff(p) => HeldOff(p)' \/ InHandOf(current, p, {"load", "tail", "reap"})
<1>0. Queued \subseteq Pids /\ Queued' = Queued
  BY Basics DEF Queued
<1>1. ASSUME NEW p \in Pids \ {current}, pc'[p] = "walk"
      PROVE  walk'[p].i \in 0 .. Len(queue') - 1 /\ WalkAt(p, walk[p].i)'
  <2>1. pc[p] = "walk" /\ local'[p] = local[p] /\ walk'[p] = walk[p]
    BY <1>1, Zenon
  <2>2. walk[p].i \in 0 .. Len(queue) - 1 /\ WalkAt(p, walk[p].i)
    BY <2>1, Zenon DEF Ring, WalkInv
  <2> QED BY <2>1, <2>2 DEF WalkAt
<1>2. /\ \A p \in Pids \ {current} : pc'[p] \in {"unlink", "walk"} =>
                    local'[p].child \in Queued'
      /\ \A p \in Pids \ {current} : pc'[p] \in {"tail", "reap"} =>
                    local'[p].child \notin Queued'
  BY <1>0, Zenon DEF Ring, MemberInv
<1>3. \A p \in Pids \ {current} : Lags(p) => Lags(p)'
  BY Zenon DEF Lags
<1>4. \A p : HeldOff(p) => HeldOff(p)' \/ InHandOf(current, p, {"load", "tail", "reap"})
  BY <1>0, Zenon DEF HeldOff, InHandOf
<1> QED BY <1>1, <1>2, <1>3, <1>4, Zenon

\* wait finds a dead child, which nobody else has in hand.
LEMMA FoundRing ==
    ASSUME IInv, TInv, Ring, wait_found
    PROVE  Ring'
<1>0. /\ current \in Pids /\ pc[current] = "wait" /\ DOMAIN local = Pids
      /\ pc \in [Pids -> Places] /\ Queued \subseteq Pids
  BY Basics, Zenon DEF wait_found, At, IInv, CoreType
<1>1. PICK s \in Slots :
         /\ DeadChildAt(s)
         /\ local' = [local EXCEPT ![current] = [slot |-> s, child |-> process_table[s]]]
  BY Zenon DEF wait_found
<1> DEFINE c == process_table[s]
<1>2. /\ pc'[current] = "unlink" /\ local'[current].child = c
      /\ \A p \in Pids \ {current} :
               pc'[p] = pc[p] /\ local'[p] = local[p] /\ walk'[p] = walk[p]
      /\ queue' = queue /\ run_queue_tail' = run_queue_tail
      /\ process_table' = process_table
  BY <1>0, <1>1, Zenon DEF wait_found, Goto, removal
<1>3. c \in Tabled /\ pcb[c].parent = current
  <2>1. c \in Awaited(current)
    BY <1>1, Zenon DEF DeadChildAt
  <2>2. current = shell => InHand(current)
    BY <1>0, Zenon DEF InHand
  <2> QED BY <1>0, <2>1, <2>2, Basics, Zenon DEF Awaited
<1>4. c \in Queued
  <2>1. ASSUME NEW parent \in Queued, InHandOf(parent, c, {"load", "tail", "reap"})
        PROVE  FALSE
    <3>1. parent \in Pids /\ InHand(parent) /\ local[parent].child = c
      BY <1>0, <2>1, Zenon DEF InHandOf, InHand
    <3>2. parent = current
      BY <1>3, <3>1, Basics, Zenon
    <3> QED BY <1>0, <2>1, <3>2, Zenon DEF InHandOf
  <2> QED BY <1>3, <2>1, Zenon DEF Ring, MemberInv, HeldOff
<1> HIDE DEF c
<1>5. Queued' = Queued /\ Tabled' = Tabled
  BY <1>2, Zenon DEF Queued, Tabled
<1>6. MemberInv'
  <2>1. \A p \in Tabled : p \in Queued \/ HeldOff(p)'
    BY <1>0, <1>2, OthersKeep, Zenon DEF Ring, MemberInv, InHandOf
  <2> QED BY <1>2, <1>4, <1>5, <2>1, OthersKeep, Zenon DEF Ring, MemberInv
<1>7. WalkInv'
  BY <1>2, OthersKeep, Zenon DEF WalkInv
<1>8. TailInv'
  <2>1. ~Lags(current)
    BY <1>0, Zenon DEF Lags
  <2> QED BY <1>2, <2>1, OthersKeep, Zenon DEF Ring, TailInv
<1> QED BY <1>6, <1>7, <1>8, Zenon DEF Ring

\* process_create's store: the new process is in the hand of the shell.
LEMMA StoreRing ==
    ASSUME IInv, TInv, Ring, process_create_store
    PROVE  Ring'
<1>9. PICK c, s : c = local[current].child /\ s = local[current].slot
  OBVIOUS
<1>0. /\ current \in Pids /\ pc[current] = "create" /\ InHand(current)
      /\ pc \in [Pids -> Places] /\ Queued \subseteq Pids
      /\ process_table \in [Slots -> Pids \cup {None}]
      /\ current \in Queued
  BY Basics, Zenon DEF process_create_store, At, IInv, CoreType, InHand, QueueInv
<1>1. c \in Pids /\ s \in Slots /\ current = shell
  BY <1>0, <1>9, Basics, Zenon DEF TInv, ServiceInv
<1>2. process_table[s] = None
  BY <1>0, <1>1, <1>9, Zenon DEF TInv, SlotInv
<1>3. /\ pc'[current] = "load" /\ local'[current].child = c
      /\ \A p \in Pids \ {current} :
               pc'[p] = pc[p] /\ local'[p] = local[p] /\ walk'[p] = walk[p]
      /\ queue' = queue /\ run_queue_tail' = run_queue_tail
      /\ process_table' = [process_table EXCEPT ![s] = c]
  BY <1>0, <1>9, Zenon DEF process_create_store, Goto, removal
<1>4. Queued' = Queued /\ \A p : p \in Tabled' <=> p \in Tabled \/ p = c
  <2>1. \A p \in Pids : p # None
    BY ProcessesConstants DEF Pids
  <2>2. process_table'[s] = c /\ \A t \in Slots \ {s} : process_table'[t] = process_table[t]
    BY <1>0, <1>1, <1>3, Zenon
  <2>3. Queued' = Queued
    BY <1>3 DEF Queued
  <2> QED BY <1>1, <1>2, <2>1, <2>2, <2>3, Zenon DEF Tabled
<1>5. HeldOff(c)'
  BY <1>0, <1>3, <1>4, Zenon DEF HeldOff, InHandOf
<1>6. MemberInv'
  <2>1. \A p \in Tabled' : p \in Queued \/ HeldOff(p)'
    <3>1. \A p : HeldOff(p) => HeldOff(p)'
      BY <1>0, <1>3, OthersKeep, Zenon DEF InHandOf
    <3> QED BY <1>4, <1>5, <3>1, Zenon DEF Ring, MemberInv
  <2> QED BY <1>3, <1>4, <2>1, OthersKeep, Zenon DEF Ring, MemberInv
<1>7. WalkInv'
  BY <1>3, OthersKeep, Zenon DEF WalkInv
<1>8. TailInv'
  <2>1. ~Lags(current)
    BY <1>0, Zenon DEF Lags
  <2> QED BY <1>3, <2>1, OthersKeep, Zenon DEF Ring, TailInv
<1> QED BY <1>6, <1>7, <1>8, Zenon DEF Ring

\* scheduler_add, while nobody is inside scheduler_remove: the new process is
\* linked behind the last one of the ring.
LEMMA AddRing ==
    ASSUME IInv, Ring, NEW c, scheduler_add(c), ~overlapped',
           pc[current] \notin {"walk", "tail"}
    PROVE  /\ queue' = Append(queue, c)
           /\ run_queue_tail' = queue'[Len(queue')]
           /\ \A p \in Pids : pc[p] \notin {"walk", "tail"}
<1>0. queue \in Seq(Pids) /\ idle \in Queued
  BY Zenon DEF IInv, CoreType, QueueInv
<1>1. \A p \in Pids : pc[p] \notin {"walk", "tail"}
  BY Zenon DEF scheduler_add, Overlaps
<1>2. run_queue_tail = queue[Len(queue)]
  BY <1>1, Zenon DEF Ring, TailInv, Lags
<1>3. queue[Len(queue)] \in Queued
  BY <1>0 DEF Queued
<1>4. queue' = Append(queue, c) /\ run_queue_tail' = c
  BY <1>2, <1>3, Zenon DEF scheduler_add
<1>5. queue'[Len(queue')] = c
  BY <1>0, <1>4
<1> QED BY <1>1, <1>4, <1>5, Zenon

LEMMA ForkRing ==
    ASSUME IInv, TInv, Ring, sys_fork, ~overlapped'
    PROVE  Ring'
<1>1. PICK c : c = next_pid
  OBVIOUS
<1>2. /\ pc[current] = "user" /\ scheduler_add(c)
      /\ pc' = pc /\ local' = local /\ walk' = walk
      /\ queue \in Seq(Pids) /\ IsInjective(queue)
  BY <1>1, Zenon DEF sys_fork, Invokes, At, IInv, CoreType, QueueInv
<1>3. PICK s \in Slots : /\ process_table[s] = None
                         /\ process_table' = [process_table EXCEPT ![s] = c]
  BY <1>1, Zenon DEF sys_fork, FreeSlot
<1>4. /\ c \in Pids /\ c \notin Queued
      /\ \A p \in Pids : InHand(p) => local[p].child # c
  <2>1. next_pid \in Pids /\ ~(next_pid < next_pid)
    BY ProcessesConstants DEF sys_fork, Pids, IInv, CoreType
  <2> QED BY <1>1, <2>1, Basics, Zenon DEF IInv, QueueInv
<1>5. /\ queue' = Append(queue, c)
      /\ run_queue_tail' = queue'[Len(queue')]
      /\ \A p \in Pids : pc[p] \notin {"walk", "tail"}
  BY <1>2, AddRing, Zenon
<1>6. \A p : p \in Queued' <=> p \in Queued \/ p = c
  BY <1>2, <1>4, <1>5, AppendFacts, Zenon
<1>7. \A p : p \in Tabled' <=> p \in Tabled \/ p = c
  <2>1. \A p \in Pids : p # None
    BY ProcessesConstants DEF Pids
  <2>2. process_table'[s] = c /\ \A t \in Slots \ {s} : process_table'[t] = process_table[t]
    BY <1>3, Zenon DEF IInv, CoreType
  <2> QED BY <1>3, <1>4, <2>1, <2>2, Zenon DEF Tabled
<1>8. MemberInv'
  <2>1. \A p : HeldOff(p) => HeldOff(p)'
    BY <1>2, <1>6, Zenon DEF HeldOff, InHandOf
  <2>2. \A p \in Tabled' : p \in Queued' \/ HeldOff(p)'
    BY <1>6, <1>7, <2>1, Zenon DEF Ring, MemberInv
  <2>3. \A p \in Pids : pc[p] \in {"tail", "reap"} => local[p].child \notin Queued'
    BY <1>4, <1>6, Zenon DEF Ring, MemberInv, InHand
  <2>4. \A p \in Pids : pc[p] \in {"unlink", "walk"} => local[p].child \in Queued'
    BY <1>6, Zenon DEF Ring, MemberInv
  <2>5. Queued' \subseteq Tabled'
    BY <1>6, <1>7, Zenon DEF Ring, MemberInv
  <2> QED BY <1>2, <2>2, <2>3, <2>4, <2>5, Zenon DEF MemberInv
<1>9. WalkInv' /\ TailInv'
  BY <1>2, <1>5, Zenon DEF WalkInv, TailInv
<1> QED BY <1>8, <1>9, Zenon DEF Ring

LEMMA SpawnRing ==
    ASSUME IInv, TInv, Ring, process_spawn_add, ~overlapped'
    PROVE  Ring'
<1>1. PICK c : c = local[current].child
  OBVIOUS
<1>2. /\ pc[current] = "load" /\ scheduler_add(c) /\ current \in Pids
      /\ local' = local /\ walk' = walk /\ process_table' = process_table
      /\ queue \in Seq(Pids) /\ IsInjective(queue) /\ InHand(current)
      /\ pc'[current] = "wait" /\ \A p \in Pids \ {current} : pc'[p] = pc[p]
  BY <1>1, Zenon DEF process_spawn_add, Goto, At, IInv, CoreType, QueueInv, InHand
<1>3. /\ c \in Pids /\ c \notin Queued /\ c \in Tabled /\ Queued \subseteq Pids
      /\ \A p \in Pids : InHand(p) /\ p # current => local[p].child # c
  <2>1. c \in Pids /\ c \notin Queued /\ local[current].slot \in Slots
    BY <1>1, <1>2, Basics, Zenon DEF IInv, HandInv
  <2>2. process_table[local[current].slot] = c /\ c # None
    BY <1>1, <1>2, <2>1, TableBasics, Zenon DEF TInv, SlotInv
  <2>3. c \in Tabled
    BY <2>1, <2>2, Zenon DEF Tabled
  <2> QED BY <1>1, <1>2, <2>1, <2>3, TableBasics, Zenon
<1>5. /\ queue' = Append(queue, c)
      /\ run_queue_tail' = queue'[Len(queue')]
      /\ \A p \in Pids : pc[p] \notin {"walk", "tail"}
  BY <1>2, AddRing, Zenon
<1>6. \A p : p \in Queued' <=> p \in Queued \/ p = c
  BY <1>2, <1>3, <1>5, AppendFacts, Zenon
<1>7. Tabled' = Tabled
  BY <1>2 DEF Tabled
<1>8. MemberInv'
  <2>1. \A p : HeldOff(p) => HeldOff(p)' \/ p = c
    BY <1>1, <1>2, <1>3, <1>6, Zenon DEF HeldOff, InHandOf
  <2>2. \A p \in Tabled' : p \in Queued' \/ HeldOff(p)'
    BY <1>6, <1>7, <2>1, Zenon DEF Ring, MemberInv
  <2>3. \A p \in Pids : pc'[p] \in {"tail", "reap"} => local[p].child \notin Queued'
    BY <1>2, <1>3, <1>6, Zenon DEF Ring, MemberInv, InHand
  <2>4. \A p \in Pids : pc'[p] \in {"unlink", "walk"} => local[p].child \in Queued'
    BY <1>2, <1>6, Zenon DEF Ring, MemberInv
  <2>5. Queued' \subseteq Tabled'
    BY <1>3, <1>6, <1>7, Zenon DEF Ring, MemberInv
  <2> QED BY <1>2, <2>2, <2>3, <2>4, <2>5, Zenon DEF MemberInv
<1>9. WalkInv' /\ TailInv'
  BY <1>2, <1>5, Zenon DEF WalkInv, TailInv
<1> QED BY <1>8, <1>9, Zenon DEF Ring

\* The child in hand, off the ring, is freed.
LEMMA ReleaseRing ==
    ASSUME IInv, TInv, Ring, pc[current] \in {"reap", "load"},
           NEW to \in {"getchar", "sysret"}, pc' = [pc EXCEPT ![current] = to],
           Release(local[current].slot, local[current].child),
           queue' = queue, run_queue_tail' = run_queue_tail, walk' = walk
    PROVE  Ring'
<1>1. PICK c, s : c = local[current].child /\ s = local[current].slot
  OBVIOUS
<1>2. /\ current \in Pids /\ InHand(current) /\ Queued \subseteq Pids
      /\ pc'[current] = to
      /\ \A p \in Pids \ {current} :
               pc'[p] = pc[p] /\ local'[p] = local[p] /\ walk'[p] = walk[p]
      /\ process_table' = [process_table EXCEPT ![s] = None]
      /\ process_table \in [Slots -> Pids \cup {None}]
  BY <1>1, Basics, Zenon DEF Release, IInv, CoreType, InHand
<1>3. /\ c \in Pids /\ s \in Slots /\ c \notin Queued
      /\ process_table[s] = c /\ c # None
  <2>1. c \in Pids /\ s \in Slots /\ c # None
    BY <1>1, <1>2, TableBasics, Zenon
  <2>2. c \notin Queued
    BY <1>1, <1>2, Zenon DEF Ring, MemberInv, IInv, HandInv
  <2>3. process_table[s] = c
    BY <1>1, <1>2, Zenon DEF TInv, SlotInv, RemovalPlaces
  <2> QED BY <2>1, <2>2, <2>3, Zenon
<1>4. Queued' = Queued
  BY DEF Queued
<1>5. \A p : p \in Tabled' <=> p \in Tabled /\ p # c
  <2>1. process_table'[s] = None /\ \A t \in Slots \ {s} : process_table'[t] = process_table[t]
    BY <1>2, <1>3, Zenon
  <2>2. \A t \in Slots : process_table[t] = c => t = s
    BY <1>3, Zenon DEF TInv, TableInv
  <2> QED BY <1>3, <2>1, <2>2, Zenon DEF Tabled
<1>6. MemberInv'
  <2>1. \A p : HeldOff(p) => HeldOff(p)' \/ p = c
    BY <1>1, <1>2, OthersKeep, Zenon DEF InHandOf
  <2>2. \A p \in Tabled' : p \in Queued' \/ HeldOff(p)'
    BY <1>4, <1>5, <2>1, Zenon DEF Ring, MemberInv
  <2>3. Queued' \subseteq Tabled'
    BY <1>3, <1>4, <1>5, Zenon DEF Ring, MemberInv
  <2> QED BY <1>2, <2>2, <2>3, OthersKeep, Zenon DEF MemberInv
<1>7. WalkInv'
  BY <1>2, OthersKeep, Zenon DEF WalkInv
<1>8. TailInv'
  <2>1. ~Lags(current)
    BY Zenon DEF Lags
  <2> QED BY <1>2, <2>1, OthersKeep, Zenon DEF Ring, TailInv
<1> QED BY <1>6, <1>7, <1>8, Zenon DEF Ring

LEMMA BeginRing ==
    ASSUME IInv, TInv, Ring, RemovalType, remove_begin
    PROVE  Ring'
<1>1. PICK c : c = local[current].child
  OBVIOUS
<1>2. /\ current \in Pids /\ pc[current] = "unlink" /\ pc'[current] = "walk"
      /\ walk'[current] = [prev |-> run_queue_tail, node |-> queue[1], i |-> 0]
      /\ \A p \in Pids \ {current} :
               pc'[p] = pc[p] /\ local'[p] = local[p] /\ walk'[p] = walk[p]
      /\ queue' = queue /\ run_queue_tail' = run_queue_tail
      /\ process_table' = process_table /\ local'[current].child = c
  <2>1. walk' = [walk EXCEPT ![current] =
                  [prev |-> run_queue_tail, node |-> queue[1], i |-> 0]]
    BY Zenon DEF remove_begin
  <2> QED BY <1>1, <2>1, Zenon DEF remove_begin, At, Goto, IInv, CoreType, RemovalType
<1>3. Queued' = Queued /\ Tabled' = Tabled
  BY <1>2 DEF Queued, Tabled
<1>4. MemberInv'
  <2>1. \A p : HeldOff(p) => HeldOff(p)'
    BY <1>2, OthersKeep, Zenon DEF InHandOf
  <2>2. c \in Queued
    BY <1>1, <1>2, Zenon DEF Ring, MemberInv
  <2> QED BY <1>2, <1>3, <2>1, <2>2, OthersKeep, Zenon DEF Ring, MemberInv
<1>5. WalkInv'
  <2>1. Len(queue) \in Nat /\ Len(queue) >= 3
    BY DEF IInv, CoreType, TInv, HeadInv
  <2>2. walk'[current].i = 0 /\ walk'[current].node = queue[1]
    BY <1>2
  <2>3. walk'[current].i \in 0 .. Len(queue') - 1 /\ WalkAt(current, walk[current].i)'
    BY <1>2, <2>1, <2>2 DEF WalkAt, remove_begin
  <2>4. current' = current
    BY Zenon DEF remove_begin
  <2> QED BY <1>2, <2>3, <2>4, OthersKeep, Zenon DEF WalkInv
<1>6. TailInv'
  <2>1. ~Lags(current)
    BY <1>2, Zenon DEF Lags
  <2> QED BY <1>2, <2>1, OthersKeep, Zenon DEF Ring, TailInv
<1> QED BY <1>4, <1>5, <1>6, Zenon DEF Ring

\* The node after one that the child lies behind is its neighbour.
LEMMA StepsOn ==
    ASSUME IInv, TInv, NEW i \in 0 .. Len(queue) - 1, WalkAt(current, i),
           local[current].child \in Queued,
           walk[current].node # local[current].child
    PROVE  /\ walk[current].node \in Queued
           /\ i + 1 \in 0 .. Len(queue) - 1
           /\ Successor(walk[current].node, 1) = queue[i + 2]
           /\ \A j \in 1 .. i + 1 : queue[j] # local[current].child
<1>1. PICK L, c, n : L = Len(queue) /\ c = local[current].child /\ n = walk[current].node
  OBVIOUS
<1>2. L \in Nat /\ DOMAIN queue = 1 .. L
  BY <1>1 DEF IInv, CoreType
<1>3. \A j, k \in 1 .. L : queue[j] = queue[k] => j = k
  BY <1>2, Zenon DEF IsInjective, IInv, QueueInv
<1>4. n = queue[i + 1] /\ \A j \in 1 .. i : queue[j] # c
  BY <1>1, Zenon DEF WalkAt
<1>5. PICK k \in 1 .. L : queue[k] = c
  BY <1>1, Zenon DEF Queued
<1>6. i + 1 \in 1 .. L /\ i + 2 \in 1 .. L
  BY <1>1, <1>2, <1>4, <1>5
<1> DEFINE at == CHOOSE j \in 1 .. Len(queue) : queue[j] = n
<1>7. at = i + 1
  BY <1>1, <1>3, <1>4, <1>6
<1>8. Successor(n, 1) = queue[i + 2]
  <2>1. Successor(n, 1) =
          IF at + 1 <= Len(queue) THEN queue[at + 1] ELSE queue[at + 1 - Len(queue)]
    BY Zenon DEF Successor
  <2> HIDE DEF at
  <2> QED BY <1>1, <1>2, <1>6, <1>7, <2>1
<1>9. n \in Queued
  BY <1>1, <1>4, <1>6, Zenon DEF Queued
<1>10. \A j \in 1 .. i + 1 : queue[j] # c
  BY <1>1, <1>2, <1>4
<1>11. i + 1 \in 0 .. L - 1
  BY <1>2, <1>6
<1> QED BY <1>1, <1>8, <1>9, <1>10, <1>11, Zenon

LEMMA StepRing ==
    ASSUME IInv, TInv, RemovalType, Ring, remove_step
    PROVE  Ring'
<1>1. PICK c, i : c = local[current].child /\ i = walk[current].i
  OBVIOUS
<1>2. /\ current \in Pids /\ pc[current] = "walk" /\ pc' = pc /\ local' = local
      /\ queue' = queue /\ run_queue_tail' = run_queue_tail
      /\ process_table' = process_table /\ current' = current
      /\ walk[current].node # c
  BY <1>1, Zenon DEF remove_step, At, IInv, CoreType
<1>3. c \in Queued /\ i \in 0 .. Len(queue) - 1 /\ WalkAt(current, i)
  BY <1>1, <1>2, Zenon DEF Ring, MemberInv, WalkInv
<1>4. /\ walk[current].node \in Queued
      /\ i + 1 \in 0 .. Len(queue) - 1
      /\ Successor(walk[current].node, 1) = queue[i + 2]
      /\ \A j \in 1 .. i + 1 : queue[j] # c
  BY <1>1, <1>2, <1>3, StepsOn
<1>5. walk' = [walk EXCEPT ![current] = [prev |-> walk[current].node,
                                         node |-> queue[i + 2], i |-> i + 1]]
  BY <1>1, <1>4, Zenon DEF remove_step
<1>6. /\ walk'[current] = [prev |-> walk[current].node, node |-> queue[i + 2], i |-> i + 1]
      /\ \A p \in Pids \ {current} : walk'[p] = walk[p]
  BY <1>2, <1>5, Zenon DEF RemovalType
<1>7. walk'[current].prev = queue[i + 1] /\ walk'[current].node = queue[i + 2]
      /\ walk'[current].i = i + 1
  BY <1>3, <1>6 DEF WalkAt
<1>8. WalkAt(current, walk[current].i)' /\ walk'[current].i \in 0 .. Len(queue') - 1
  BY <1>1, <1>2, <1>3, <1>4, <1>7 DEF WalkAt
<1>9. WalkInv'
  BY <1>2, <1>6, <1>8, OthersKeep, Zenon DEF WalkInv
<1>10. Queued' = Queued /\ Tabled' = Tabled
  BY <1>2 DEF Queued, Tabled
<1>11. MemberInv'
  <2>1. \A p : HeldOff(p) => HeldOff(p)'
    BY <1>2, <1>10, Zenon DEF HeldOff, InHandOf
  <2> QED BY <1>2, <1>10, <2>1, Zenon DEF Ring, MemberInv
<1>12. TailInv'
  <2>1. ~Lags(current)
    BY <1>2, Zenon DEF Lags
  <2> QED BY <1>2, <1>6, <2>1, OthersKeep, Zenon DEF Ring, TailInv
<1> QED BY <1>9, <1>11, <1>12, Zenon DEF Ring

\* The store prev->next = node->next takes the child, and only it, off the
\* ring; if it was the last one, prev is now.
LEMMA SpliceAt ==
    ASSUME IInv, TInv, NEW i \in 0 .. Len(queue) - 1, WalkAt(current, i),
           pc[current] = "walk", remove_splice
    PROVE  /\ \A p : p \in Queued' <=> p \in Queued /\ p # local[current].child
           /\ \/ queue[Len(queue)] = queue'[Len(queue')]
              \/ /\ queue[Len(queue)] = local[current].child
                 /\ walk[current].prev = queue'[Len(queue')]
<1>1. PICK L, c, n : L = Len(queue) /\ c = local[current].child /\ n = walk[current].prev
  OBVIOUS
<1>2. /\ L \in Nat /\ DOMAIN queue = 1 .. L /\ L >= 3
      /\ queue \in Seq(Pids) /\ IsInjective(queue)
  BY <1>1 DEF IInv, CoreType, QueueInv, TInv, HeadInv
<1>3. \A j, k \in 1 .. L : queue[j] = queue[k] => j = k
  BY <1>2, Zenon DEF IsInjective
<1>4. queue[i + 1] = c /\ c # idle /\ queue[1] = idle
  <2>1. InHand(current) /\ current \in Pids
    BY Basics, Zenon DEF InHand
  <2> QED BY <1>1, <2>1, Basics, Zenon DEF WalkAt, remove_splice, TInv, HeadInv
<1>5. i > 0 /\ i \in 1 .. L /\ i + 1 \in 1 .. L
  BY <1>1, <1>2, <1>4
<1>6. n = queue[i]
  BY <1>1, <1>5, Zenon DEF WalkAt
<1>7. n \in Queued
  BY <1>1, <1>5, <1>6, Zenon DEF Queued
<1>8. PICK k \in 2 .. L : queue[k - 1] = n /\ queue[k] = c /\ queue' = Spliced(k)
  BY <1>1, <1>7, Zenon DEF remove_splice
<1>9. k = i + 1 /\ k \in 1 .. L
  BY <1>2, <1>3, <1>4, <1>5, <1>8
<1>10. \A p : p \in Queued' <=> p \in Queued /\ p # c
  BY <1>1, <1>2, <1>8, <1>9, SplicedFacts, Zenon
<1>11. Len(queue') = L - 1 /\ \A j \in 1 .. L - 1 :
            queue'[j] = IF j < k THEN queue[j] ELSE queue[j + 1]
  BY <1>1, <1>2, <1>8 DEF Spliced
<1>12. CASE k = L
  <2>1. queue'[L - 1] = queue[L - 1] /\ queue[L] = c /\ queue[L - 1] = n
    BY <1>2, <1>8, <1>11, <1>12
  <2> QED BY <1>1, <1>10, <1>11, <2>1, Zenon
<1>13. CASE k # L
  <2>1. queue'[L - 1] = queue[L]
    BY <1>2, <1>9, <1>11, <1>13
  <2> QED BY <1>1, <1>10, <1>11, <2>1, Zenon
<1> QED BY <1>12, <1>13, Zenon

LEMMA SpliceRing ==
    ASSUME IInv, TInv, Ring, remove_splice, ~overlapped'
    PROVE  Ring'
<1>1. PICK c : c = local[current].child
  OBVIOUS
<1>2. /\ current \in Pids /\ pc[current] = "walk" /\ pc'[current] = "tail"
      /\ \A p \in Pids \ {current} : pc'[p] = pc[p]
      /\ local' = local /\ walk' = walk /\ run_queue_tail' = run_queue_tail
      /\ process_table' = process_table /\ current' = current
      /\ InHand(current) /\ current \in Queued /\ Queued \subseteq Pids
  BY Basics, Zenon DEF remove_splice, At, Goto, IInv, CoreType, InHand, QueueInv
<1>3. \A p \in Pids \ {current} : pc[p] \notin {"walk", "tail"}
  BY Zenon DEF remove_splice, Overlaps
<1>4. /\ \A p : p \in Queued' <=> p \in Queued /\ p # c
      /\ \/ queue[Len(queue)] = queue'[Len(queue')]
         \/ queue[Len(queue)] = c /\ walk[current].prev = queue'[Len(queue')]
  <2>1. PICK i : i = walk[current].i
    OBVIOUS
  <2>2. i \in 0 .. Len(queue) - 1 /\ WalkAt(current, i)
    BY <1>2, <2>1, Zenon DEF Ring, WalkInv
  <2> QED BY <1>1, <1>2, <2>2, SpliceAt, Zenon
<1>5. /\ c # current /\ ~InHand(c)
      /\ \A p \in Pids : InHand(p) /\ p # current => local[p].child # c
  <2>1. c # current /\ c \in Pids /\ c # shell
    BY <1>1, <1>2, Basics, Zenon
  <2>2. pc[c] \in {"exit_yield", "sysret"}
    BY <1>1, <1>2, <2>1, Zenon DEF TInv, DeadInv
  <2>3. ~InHand(c)
    BY <2>1, <2>2, Zenon DEF InHand
  <2> QED BY <1>1, <1>2, <2>1, <2>3, TableBasics, Zenon
<1>6. MemberInv'
  <2>1. \A p : HeldOff(p) => HeldOff(p)'
    <3>1. ASSUME NEW p, NEW parent \in Queued,
                 InHandOf(parent, p, {"load", "tail", "reap"})
          PROVE  parent \in Queued' /\ InHandOf(parent, p, {"load", "tail", "reap"})'
      <4>1. parent \in Pids /\ InHand(parent) /\ parent # current
        BY <1>2, <3>1, Zenon DEF InHandOf, InHand
      <4>2. parent # c
        BY <1>5, <4>1, Zenon
      <4> QED BY <1>2, <1>4, <3>1, <4>1, <4>2, Zenon DEF InHandOf
    <3> QED BY <3>1, Zenon DEF HeldOff
  <2>2. HeldOff(c)'
    BY <1>1, <1>2, <1>4, <1>5, Zenon DEF HeldOff, InHandOf
  <2>3. Tabled' = Tabled
    BY <1>2 DEF Tabled
  <2>4. \A p \in Tabled' : p \in Queued' \/ HeldOff(p)'
    BY <1>4, <2>1, <2>2, <2>3, Zenon DEF Ring, MemberInv
  <2>5. \A p \in Pids : pc'[p] \in {"tail", "reap"} => local[p].child \notin Queued'
    BY <1>1, <1>2, <1>4, Zenon DEF Ring, MemberInv
  <2>6. \A p \in Pids : pc'[p] \in {"unlink", "walk"} => local[p].child \in Queued'
    BY <1>2, <1>4, <1>5, Zenon DEF Ring, MemberInv, InHand
  <2>7. Queued' \subseteq Tabled'
    BY <1>4, <2>3, Zenon DEF Ring, MemberInv
  <2> QED BY <1>2, <2>4, <2>5, <2>6, <2>7, Zenon DEF MemberInv
<1>7. WalkInv'
  BY <1>2, <1>3, Zenon DEF WalkInv
<1>8. TailInv'
  <2>1. run_queue_tail = queue[Len(queue)]
    BY <1>2, <1>3, Zenon DEF Ring, TailInv, Lags
  <2> QED BY <1>1, <1>2, <1>4, <2>1, Zenon DEF TailInv, Lags
<1> QED BY <1>6, <1>7, <1>8, Zenon DEF Ring

LEMMA TailRing ==
    ASSUME IInv, TInv, Ring, RemovalType, remove_tail
    PROVE  Ring'
<1>1. PICK c : c = local[current].child
  OBVIOUS
<1>2. /\ current \in Pids /\ pc[current] = "tail" /\ pc'[current] = "reap"
      /\ \A p \in Pids \ {current} : pc'[p] = pc[p] /\ walk'[p] = walk[p]
      /\ local' = local /\ queue' = queue
      /\ process_table' = process_table
      /\ InHand(current)
  BY Zenon DEF remove_tail, At, Goto, IInv, CoreType, InHand, RemovalType
<1>3. Queued' = Queued /\ Tabled' = Tabled
  BY <1>2 DEF Queued, Tabled
<1>4. /\ c \notin Queued
      /\ \A p \in Pids : InHand(p) /\ p # current => local[p].child # c
  BY <1>1, <1>2, TableBasics, Zenon DEF Ring, MemberInv
<1>5. MemberInv'
  <2>1. \A p : HeldOff(p) => HeldOff(p)'
    BY <1>2, <1>3, Basics, Zenon DEF HeldOff, InHandOf
  <2> QED BY <1>1, <1>2, <1>3, <1>4, <2>1, Zenon DEF Ring, MemberInv
<1>6. WalkInv'
  <2>1. ASSUME NEW p \in Pids, pc'[p] = "walk"
        PROVE  walk'[p].i \in 0 .. Len(queue') - 1 /\ WalkAt(p, walk[p].i)'
    <3>1. pc[p] = "walk" /\ walk'[p] = walk[p]
      BY <1>2, <2>1, Zenon
    <3>2. walk[p].i \in 0 .. Len(queue) - 1 /\ WalkAt(p, walk[p].i)
      BY <3>1, Zenon DEF Ring, WalkInv
    <3> QED BY <1>2, <3>1, <3>2 DEF WalkAt
  <2> QED BY <2>1, Zenon DEF WalkInv
<1>7. TailInv'
  <2>1. CASE run_queue_tail = queue[Len(queue)]
    <3>1. queue[Len(queue)] \in Queued
      BY DEF Queued, IInv, CoreType, QueueInv
    <3>2. run_queue_tail' = run_queue_tail
      BY <1>1, <1>4, <2>1, <3>1, Zenon DEF remove_tail
    <3> QED BY <1>2, <2>1, <3>2, Zenon DEF TailInv
  <2>2. ASSUME NEW p \in Pids, Lags(p) PROVE TailInv'
    <3>1. CASE p = current
      <4>1. run_queue_tail' = queue[Len(queue)]
        BY <2>2, <3>1, Zenon DEF remove_tail, Lags
      <4> QED BY <1>2, <4>1, Zenon DEF TailInv
    <3>2. CASE p # current
      <4>1. run_queue_tail # c
        BY <1>4, <2>2, <3>2, Zenon DEF Lags, InHand
      <4>2. run_queue_tail' = run_queue_tail
        BY <1>1, <4>1, Zenon DEF remove_tail
      <4> QED BY <1>2, <2>2, <3>2, <4>2, Zenon DEF TailInv, Lags
    <3> QED BY <3>1, <3>2, Zenon
  <2> QED BY <2>1, <2>2, Zenon DEF Ring, TailInv
<1> QED BY <1>5, <1>6, <1>7, Zenon DEF Ring

\* The ring is no longer than the table, so MAX_PROCESSES iterations find the
\* child.
LEMMA NeverGivesUp ==
    ASSUME IInv, TInv, Ring
    PROVE  ~remove_gives_up
<1> SUFFICES ASSUME remove_gives_up PROVE FALSE
  OBVIOUS
<1>1. PICK L : L = Len(queue)
  OBVIOUS
<1>2. L \in Nat /\ DOMAIN queue = 1 .. L /\ MaxProcesses \in Nat
  BY <1>1, ProcessesConstants DEF IInv, CoreType
<1>3. MaxProcesses \in 0 .. L - 1
  BY <1>1, Zenon DEF remove_gives_up, At, IInv, CoreType, Ring, WalkInv
<1>4. \A j, k \in 1 .. L : queue[j] = queue[k] => j = k
  BY <1>2, Zenon DEF IsInjective, IInv, QueueInv
<1> DEFINE f == [k \in 1 .. L |-> CHOOSE s \in Slots : process_table[s] = queue[k]]
<1>5. ASSUME NEW k \in 1 .. L
      PROVE  f[k] \in Slots /\ process_table[f[k]] = queue[k]
  <2>1. queue[k] \in Tabled
    BY <1>1, Zenon DEF Ring, MemberInv, Queued
  <2>2. \E s \in Slots : process_table[s] = queue[k]
    BY <2>1, Zenon DEF Tabled
  <2> QED BY <2>2, Zenon
<1>6. f \in [1 .. L -> Slots]
  BY <1>5, Zenon
<1> HIDE DEF f
<1>7. \A j, k \in 1 .. L : f[j] = f[k] => j = k
  BY <1>4, <1>5, Zenon
<1>8. /\ IsFiniteSet(1 .. L) /\ Cardinality(1 .. L) = L
      /\ IsFiniteSet(Slots) /\ Cardinality(Slots) = MaxProcesses
  <2>1. 1 \in Int /\ L \in Int /\ 0 \in Int /\ MaxProcesses - 1 \in Int
    BY <1>2
  <2>2. /\ IsFiniteSet(1 .. L) /\ Cardinality(1 .. L) = IF 1 > L THEN 0 ELSE L - 1 + 1
        /\ IsFiniteSet(0 .. MaxProcesses - 1)
        /\ Cardinality(0 .. MaxProcesses - 1) =
                IF 0 > MaxProcesses - 1 THEN 0 ELSE MaxProcesses - 1 - 0 + 1
    BY <2>1, FS_Interval, Zenon
  <2> QED BY <1>2, <2>2, ProcessesConstants DEF Slots, shell
<1>9. Cardinality(Slots) < Cardinality(1 .. L)
  BY <1>2, <1>3, <1>8
<1>10. \E x, y \in 1 .. L : x # y /\ f[x] = f[y]
  BY <1>6, <1>8, <1>9, FS_PigeonHole, Zenon
<1> QED BY <1>7, <1>10, Zenon

LEMMA RingNext ==
    ASSUME IInv, TInv, RemovalType, RingInv, [Next]_vars
    PROVE  RingInv'
<1> SUFFICES ASSUME ~overlapped' PROVE Ring'
  BY Zenon DEF RingInv
<1>1. CASE RingStays
  BY <1>1, RingSame, Zenon DEF RingStays, RingInv
<1>2. ~overlapped
  <2>1. sys_fork \/ process_spawn_add => ~overlapped
    BY Zenon DEF sys_fork, process_spawn_add, scheduler_add
  <2>2. Removes => ~overlapped
    BY Zenon DEF Removes, remove_begin, remove_step, remove_splice, remove_tail,
       remove_gives_up
  <2> QED BY <2>1, <2>2, TailIsOwn, Zenon
<1>3. Ring
  BY <1>2, Zenon DEF RingInv
<1>4. CASE wait_reap
  BY <1>3, <1>4, ReleaseRing, Zenon DEF wait_reap, At, Goto, removal
<1>5. CASE process_spawn_fail
  BY <1>3, <1>5, ReleaseRing, Zenon DEF process_spawn_fail, At, Goto, removal
<1>6. CASE Removes
  BY <1>3, <1>6, BeginRing, StepRing, SpliceRing, TailRing, NeverGivesUp, Zenon DEF Removes
<1> QED BY <1>1, <1>3, <1>4, <1>5, <1>6, FoundRing, StoreRing, ForkRing, SpawnRing,
           RingIsOwn, Zenon

LEMMA RingInit == Init => RingInv
<1> SUFFICES ASSUME Init PROVE Ring
  BY Zenon DEF RingInv
<1>1. /\ Len(queue) = 3 /\ queue[3] = shell /\ queue[2] = hello /\ queue[1] = idle
      /\ run_queue_tail = shell
  BY DEF Init
<1>2. /\ \A p \in Pids : pc[p] \in {"hlt", "getchar", "user"}
      /\ \A s \in Slots : process_table[s] = IF s <= shell THEN s ELSE None
  BY DEF Init
<1>3. Queued = {0, 1, 2}
  BY <1>1 DEF Queued, idle, hello, shell
<1>4. Tabled = {0, 1, 2}
  BY <1>2, ProcessesConstants DEF Tabled, Slots, shell
<1>5. MemberInv
  BY <1>2, <1>3, <1>4, Zenon DEF MemberInv
<1> QED BY <1>1, <1>2, <1>5, Zenon DEF Ring, WalkInv, TailInv

\* The run queue and the process table agree, but for the process that a spawn
\* or a wait has in hand, through every fork, spawn, exit and reaping, and
\* whatever interrupts land in scheduler_remove, until the ring is changed
\* while another process is inside scheduler_remove.
THEOREM QueueFollowsTable ==
    ASSUME hello \notin Readers
    PROVE  Spec => []QueueMatchesTable
<1>1. Init => RingInv
  BY RingInit
<1>2. IInv /\ TInv /\ RemovalType /\ RingInv /\ [Next]_vars => RingInv'
  BY RingNext
<1>3. IInv /\ TInv /\ RingInv => QueueMatchesTable
  <2> SUFFICES ASSUME IInv, TInv, RingInv, ~overlapped PROVE QueueIsSound
    BY Zenon DEF QueueMatchesTable
  <2>1. Ring
    BY Zenon DEF RingInv
  <2>2. run_queue_tail \in Tabled
    <3>1. CASE run_queue_tail = queue[Len(queue)]
      <4>1. queue[Len(queue)] \in Queued
        BY DEF Queued, IInv, CoreType, QueueInv
      <4> QED BY <2>1, <3>1, <4>1, Zenon DEF Ring, MemberInv
    <3>2. ASSUME NEW p \in Pids, Lags(p) PROVE run_queue_tail \in Tabled
      <4>1. InHand(p) /\ run_queue_tail = local[p].child
        BY <3>2, Zenon DEF Lags, InHand
      <4>2. local[p].slot \in Slots /\ local[p].child # None
        BY <4>1, TableBasics, Zenon
      <4>3. process_table[local[p].slot] = local[p].child
        BY <3>2, Zenon DEF Lags, TInv, SlotInv, RemovalPlaces
      <4> QED BY <4>1, <4>2, <4>3, Zenon DEF Tabled
    <3> QED BY <2>1, <3>1, <3>2, Zenon DEF Ring, TailInv
  <2>3. \A p \in Tabled \ Queued :
          \E parent \in Queued : InHandOf(parent, p, {"load", "tail", "reap"})
    BY <2>1, Zenon DEF Ring, MemberInv, HeldOff
  <2> QED BY <2>1, <2>2, <2>3, Zenon DEF QueueIsSound, Ring, MemberInv, IInv, QueueInv
<1> QED BY <1>1, <1>2, <1>3, TableInvariance, RemovalInvariance, PTL DEF Spec
-----------------------------------------------------------------------------
(***************************************************************************)
(* The keyboard, when only the shell reads it: no program of apps/ opens   *)
(* /devices/keyboard.                                                      *)
(***************************************************************************)
\* The shell looks for a key, registers and blocks without an interrupt in
\* between; registered, it is inside keyboard_getchar and no key is stored.
KbInv ==
    /\ \A p \in Pids : pc[p] \in KeyboardPlaces => p = shell
    /\ pc[shell] \in {"kb_wait", "kb_block", "kb_eoi"} => ~pending_key
    /\ pc[shell] \in {"kb_block", "kb_eoi"} => keyboard_waiting = shell
    /\ pc[shell] \in {"kb_yield", "getchar"} /\ pcb[shell].state = "BLOCKED" =>
            keyboard_waiting = shell
    /\ keyboard_waiting # None =>
            keyboard_waiting = shell /\ ~pending_key /\ pc[shell] \in KeyboardPlaces

\* The steps that leave the keyboard alone.
LEMMA KbStay ==
    ASSUME IInv, KbInv, UNCHANGED <<pending_key, keyboard_waiting>>,
           \A p \in Pids \ {shell} : pc'[p] \in KeyboardPlaces => pc[p] \in KeyboardPlaces,
           pc'[shell] \in {"kb_wait", "kb_block", "kb_eoi"} => pc'[shell] = pc[shell],
           pc[shell] \in KeyboardPlaces => pc'[shell] \in KeyboardPlaces,
           pc'[shell] \in {"kb_yield", "getchar"} /\ pcb'[shell].state = "BLOCKED" =>
                pc[shell] \in {"kb_yield", "getchar"} /\ pcb[shell].state = "BLOCKED"
    PROVE  KbInv'
<1>1. \A p \in Pids : pc'[p] \in KeyboardPlaces => p = shell
  BY Zenon DEF KbInv
<1>2. /\ pc'[shell] \in {"kb_wait", "kb_block", "kb_eoi"} => ~pending_key
      /\ pc'[shell] \in {"kb_block", "kb_eoi"} => keyboard_waiting = shell
  BY Zenon DEF KbInv
<1>3. /\ pc'[shell] \in {"kb_yield", "getchar"} /\ pcb'[shell].state = "BLOCKED" =>
            keyboard_waiting = shell
      /\ keyboard_waiting # None =>
            keyboard_waiting = shell /\ ~pending_key /\ pc'[shell] \in KeyboardPlaces
  BY Zenon DEF KbInv
<1> QED BY <1>1, <1>2, <1>3, Zenon DEF KbInv

\* Of those, the steps from one place to another, outside the keyboard code.
LEMMA KbMove ==
    ASSUME IInv, KbInv, UNCHANGED <<pending_key, keyboard_waiting>>,
           NEW to, pc' = [pc EXCEPT ![current] = to],
           \/ to \notin KeyboardPlaces
           \/ to = "getchar" /\ current = shell /\ pcb'[shell].state # "BLOCKED",
           pc[current] \notin KeyboardPlaces,
           current # shell /\ pcb'[shell].state = "BLOCKED" => pcb[shell].state = "BLOCKED"
    PROVE  KbInv'
<1>1. current \in Pids /\ shell \in Pids /\ pc \in [Pids -> Places]
  BY Basics, Zenon DEF IInv, CoreType
<1>2. pc'[current] = to /\ \A p \in Pids \ {current} : pc'[p] = pc[p]
  BY <1>1, Zenon
<1>3. /\ \A p \in Pids \ {shell} : pc'[p] \in KeyboardPlaces => pc[p] \in KeyboardPlaces
      /\ pc[shell] \in KeyboardPlaces => pc'[shell] \in KeyboardPlaces
      /\ pc'[shell] \in {"kb_wait", "kb_block", "kb_eoi"} => pc'[shell] = pc[shell]
  BY <1>1, <1>2, Zenon DEF KeyboardPlaces
<1>4. pc'[shell] \in {"kb_yield", "getchar"} /\ pcb'[shell].state = "BLOCKED" =>
                pc[shell] \in {"kb_yield", "getchar"} /\ pcb[shell].state = "BLOCKED"
  BY <1>1, <1>2, Zenon DEF KeyboardPlaces
<1> QED BY <1>3, <1>4, KbStay, Zenon

\* keyboard_getchar and keyboard_wait.
LEMMA KbSteps ==
    ASSUME IInv, TInv, KbInv,
           \/ getchar_take \/ getchar_wait \/ keyboard_wait_register
           \/ keyboard_wait_block \/ keyboard_wait_eoi
    PROVE  KbInv'
<1>0. /\ shell \in Pids /\ pc \in [Pids -> Places] /\ UNCHANGED current
      /\ pcb \in [Pids -> Pcb]
  BY Basics, Zenon DEF IInv, CoreType, getchar_take, getchar_wait,
     keyboard_wait_register, keyboard_wait_block, keyboard_wait_eoi
<1>1. current = shell
  BY Basics, Zenon DEF getchar_take, getchar_wait, keyboard_wait_register,
     keyboard_wait_block, keyboard_wait_eoi, At, KbInv, KeyboardPlaces
<1>2. PICK to : pc' = [pc EXCEPT ![shell] = to]
  BY <1>1, Zenon DEF getchar_take, getchar_wait, keyboard_wait_register,
     keyboard_wait_block, keyboard_wait_eoi, Goto
<1>3. pc'[shell] = to /\ \A p \in Pids \ {shell} : pc'[p] = pc[p]
  BY <1>0, <1>2, Zenon
<1>4. \A p \in Pids : pc'[p] \in KeyboardPlaces => p = shell
  BY <1>3, Zenon DEF KbInv
<1>5. pc[shell] \notin YieldPlaces \cup {"kb_eoi"} => pcb[shell].state # "BLOCKED"
  BY <1>1, Zenon DEF IInv, CurrentInv
<1>6. CASE getchar_take
  <2>1. /\ pc[shell] = "getchar" /\ to \in {"getchar", "spawn"} /\ pending_key
        /\ pending_key' = FALSE /\ UNCHANGED <<pcb, keyboard_waiting>>
    BY <1>0, <1>1, <1>3, <1>6, Zenon DEF getchar_take, At, Goto
  <2>2. keyboard_waiting = None /\ pcb[shell].state # "BLOCKED"
    BY <1>5, <2>1, Zenon DEF KbInv, YieldPlaces
  <2> QED BY <1>3, <1>4, <2>1, <2>2, Zenon DEF KbInv
<1>7. CASE getchar_wait
  <2>1. /\ pc[shell] = "getchar" /\ to = "kb_wait" /\ ~pending_key
        /\ UNCHANGED <<pcb, pending_key, keyboard_waiting>>
    BY <1>0, <1>1, <1>3, <1>7, Zenon DEF getchar_wait, At, Goto, keyboard
  <2> QED BY <1>3, <1>4, <2>1, Zenon DEF KbInv, KeyboardPlaces
<1>8. CASE keyboard_wait_register
  <2>1. /\ pc[shell] = "kb_wait" /\ to = "kb_block"
        /\ keyboard_waiting' = shell /\ UNCHANGED <<pcb, pending_key>>
    BY <1>0, <1>1, <1>3, <1>8, Zenon DEF keyboard_wait_register, At, Goto
  <2> QED BY <1>3, <1>4, <2>1, Zenon DEF KbInv, KeyboardPlaces
<1>9. CASE keyboard_wait_block
  <2>1. /\ pc[shell] = "kb_block" /\ to = "kb_eoi"
        /\ UNCHANGED <<pending_key, keyboard_waiting>>
    BY <1>0, <1>1, <1>3, <1>9, Zenon DEF keyboard_wait_block, At, Goto, keyboard
  <2> QED BY <1>3, <1>4, <2>1, Zenon DEF KbInv, KeyboardPlaces
<1>10. CASE keyboard_wait_eoi
  <2>1. /\ pc[shell] = "kb_eoi" /\ to = "kb_yield"
        /\ UNCHANGED <<pending_key, keyboard_waiting>>
    BY <1>0, <1>1, <1>3, <1>10, Zenon DEF keyboard_wait_eoi, At, Goto, keyboard
  <2> QED BY <1>3, <1>4, <2>1, Zenon DEF KbInv, KeyboardPlaces
<1> QED BY <1>6, <1>7, <1>8, <1>9, <1>10, Zenon

\* A key press finds the shell before its test for a key or in its
\* scheduler_yield, never between the test and the registration.
LEMMA KbPress ==
    ASSUME IInv, TInv, KbInv, KeyboardIRQ
    PROVE  KbInv'
<1>0. /\ shell \in Pids /\ pcb \in [Pids -> Pcb]
      /\ UNCHANGED pc /\ keyboard_waiting' = None
  BY Basics, Zenon DEF IInv, CoreType, KeyboardIRQ
<1>1. pc[shell] \in {"getchar", "wait", "kb_yield"}
  BY Zenon DEF KeyboardIRQ, Interruptible, TInv, ServiceInv
<1>2. pc[shell] \in {"kb_yield", "getchar"} => pcb'[shell].state # "BLOCKED"
  <2>1. CASE pcb[shell].state = "BLOCKED" /\ pc[shell] \in {"kb_yield", "getchar"}
    <3>1. keyboard_waiting = shell /\ shell # None
      BY <1>0, <2>1, TableBasics, Zenon DEF KbInv
    <3>2. pcb' = process_wake(pcb, shell)
      BY <3>1, Zenon DEF KeyboardIRQ
    <3> QED BY <1>0, <2>1, <3>2, WakeFacts
  <2>2. CASE pcb[shell].state # "BLOCKED"
    <3>1. CASE keyboard_waiting = None
      BY <2>2, <3>1, Zenon DEF KeyboardIRQ
    <3>2. CASE keyboard_waiting # None
      <4>1. keyboard_waiting \in Pids /\ pcb' = process_wake(pcb, keyboard_waiting)
        BY <3>2, Zenon DEF KeyboardIRQ, IInv, CoreType
      <4> QED BY <1>0, <2>2, <4>1, WakeFacts
    <3> QED BY <3>1, <3>2, Zenon
  <2> QED BY <2>1, <2>2, Zenon
<1> QED BY <1>0, <1>1, <1>2, Zenon DEF KbInv

\* The scheduler and the timer do not touch the keyboard, and block nobody.
LEMMA KbSwitch ==
    ASSUME IInv, TInv, KbInv, scheduler_yield \/ TimerIRQ
    PROVE  KbInv'
<1>0. /\ shell \in Pids /\ current \in Pids /\ pc \in [Pids -> Places]
      /\ UNCHANGED <<pending_key, keyboard_waiting>>
  BY Basics, Zenon DEF IInv, CoreType, scheduler_yield, TimerIRQ, keyboard
<1>1. pcb'[shell].state = "BLOCKED" => pcb[shell].state = "BLOCKED"
  <2>1. CASE scheduler_yield
    <3>1. /\ now \in 0 .. TickModulus - 1 /\ -1 \in -1 .. TimeSlice
          /\ iflag \in BOOLEAN /\ isr0 \in BOOLEAN
      BY ProcessesConstants DEF IInv, CoreType
    <3>2. current # idle
      BY <2>1, Basics, Zenon DEF scheduler_yield, YieldPlaces
    <3>3. Reschedule(Ticked(now, -1), "yield", iflag, isr0)
      BY <2>1, Zenon DEF scheduler_yield
    <3> QED BY <1>0, <3>1, <3>2, <3>3, RescheduleFacts, Zenon
  <2>2. CASE TimerIRQ
    <3> DEFINE tick  == (now + 1) % TickModulus
               ticks == pcb[current].ticks - 1
    <3>1. tick \in 0 .. TickModulus - 1 /\ ticks \in -1 .. TimeSlice
      BY TickTypes, Zenon
    <3>2. \/ pcb' = Ticked(tick, ticks)
          \/ Reschedule(Ticked(tick, ticks), "irq", FALSE, TRUE)
      BY <2>2, Zenon DEF TimerIRQ
    <3> HIDE DEF tick, ticks
    <3>3. CASE pcb' = Ticked(tick, ticks)
      <4>1. \/ Ticked(tick, ticks)[shell].state = pcb[shell].state
            \/ Ticked(tick, ticks)[shell].state = "READY"
        BY <1>0, <3>1, TickedFacts
      <4> QED BY <3>3, <4>1, Zenon
    <3>4. CASE Reschedule(Ticked(tick, ticks), "irq", FALSE, TRUE)
      BY <1>0, <3>1, <3>4, RescheduleFacts, Zenon
    <3> QED BY <3>2, <3>3, <3>4, Zenon
  <2> QED BY <2>1, <2>2, Zenon
<1>2. CASE TimerIRQ
  <2>1. UNCHANGED pc
    BY <1>2, Zenon DEF TimerIRQ
  <2> QED BY <1>0, <1>1, <2>1, KbStay, Zenon
<1>3. CASE scheduler_yield
  <2>1. /\ pc[current] \in YieldPlaces /\ pc'[current] = AfterYield(pc[current])
        /\ \A p \in Pids \ {current} : pc'[p] = pc[p]
    BY <1>0, <1>3, Zenon DEF scheduler_yield
  <2>2. CASE pc[current] = "kb_yield"
    <3>1. current = shell /\ pc'[shell] = "getchar"
      BY <1>0, <2>1, <2>2, Zenon DEF KbInv, KeyboardPlaces, AfterYield
    <3> QED BY <1>0, <1>1, <2>1, <2>2, <3>1, KbStay, Zenon DEF KeyboardPlaces
  <2>3. CASE pc[current] # "kb_yield"
    <3>1. pc[current] \notin KeyboardPlaces /\ pc'[current] \in {"sysret", "wait"}
      BY <2>1, <2>3, Zenon DEF YieldPlaces, AfterYield, KeyboardPlaces
    <3>2. /\ \A p \in Pids \ {shell} :
                pc'[p] \in KeyboardPlaces => pc[p] \in KeyboardPlaces
          /\ pc[shell] \in KeyboardPlaces => pc'[shell] \in KeyboardPlaces
      BY <1>0, <2>1, <3>1, Zenon DEF KeyboardPlaces
    <3>3. /\ pc'[shell] \in {"kb_wait", "kb_block", "kb_eoi"} => pc'[shell] = pc[shell]
          /\ pc'[shell] \in {"kb_yield", "getchar"} => pc[shell] = pc'[shell]
      BY <1>0, <2>1, <3>1, Zenon
    <3> QED BY <1>0, <1>1, <3>2, <3>3, KbStay, Zenon
  <2> QED BY <2>2, <2>3, Zenon
<1> QED BY <1>2, <1>3, Zenon

\* The steps of programs and of the shell elsewhere.
LEMMA KbElsewhere ==
    ASSUME IInv, TInv, KbInv, Readers \cap Pids = {},
           \/ sysret \/ wait_no_children \/ cmd_run_usage \/ sys_yield \/ sys_wait
           \/ sys_read \/ wait_block \/ sys_sleep \/ sys_exit \/ wait_found
           \/ process_create_store \/ Removes
    PROVE  KbInv'
<1>0. /\ current \in Pids /\ shell \in Pids /\ pcb \in [Pids -> Pcb]
      /\ pc \in [Pids -> Places] /\ \A p \in Pids : pc[p] = "spawn" => p = shell
      /\ pc[shell] # "user"
      /\ pc[current] \notin YieldPlaces \cup {"kb_eoi"} => pcb[current].state = "RUNNING"
  BY Basics, Zenon DEF IInv, CoreType, TInv, ServiceInv, ShellInv, CurrentInv
<1> USE DEF At, Goto, keyboard, KeyboardPlaces
<1>1. CASE sysret \/ wait_no_children \/ sys_yield \/ sys_wait \/ wait_found
            \/ process_create_store \/ Removes
  <2>1. UNCHANGED <<pcb, pending_key, keyboard_waiting>>
    BY <1>1, Zenon DEF sysret, wait_no_children, sys_yield, sys_wait, wait_found,
       process_create_store, Removes, remove_begin, remove_step, remove_splice,
       remove_tail, remove_gives_up
  <2>2. /\ pc[current] \notin KeyboardPlaces
        /\ \E to : to \notin KeyboardPlaces /\ pc' = [pc EXCEPT ![current] = to]
    <3>1. CASE remove_step
      BY <1>0, <3>1, Zenon DEF remove_step
    <3> QED BY <1>1, <3>1, Zenon DEF sysret, wait_no_children, sys_yield, sys_wait,
            wait_found, process_create_store, Invokes, Removes, remove_begin,
            remove_splice, remove_tail, remove_gives_up
  <2> HIDE DEF KeyboardPlaces
  <2> QED BY <2>1, <2>2, KbMove, Zenon
<1>2. CASE cmd_run_usage
  <2>1. current = shell /\ pcb[shell].state = "RUNNING" /\ UNCHANGED pcb
    BY <1>0, <1>2, Zenon DEF cmd_run_usage, YieldPlaces
  <2> QED BY <1>2, <2>1, KbMove, Zenon DEF cmd_run_usage
<1>3. CASE sys_read
  BY <1>0, <1>3, Zenon DEF sys_read
<1>4. CASE wait_block \/ sys_sleep
  <2>1. current # shell => pcb'[shell] = pcb[shell]
    BY <1>0, <1>4, Zenon DEF wait_block, sys_sleep
  <2>2. /\ pc[current] \notin KeyboardPlaces
        /\ UNCHANGED <<pending_key, keyboard_waiting>>
        /\ \E to : to \notin KeyboardPlaces /\ pc' = [pc EXCEPT ![current] = to]
    BY <1>4, Zenon DEF wait_block, sys_sleep, Invokes
  <2> HIDE DEF KeyboardPlaces
  <2> QED BY <2>1, <2>2, KbMove, Zenon
<1>5. CASE sys_exit
  <2> DEFINE parent == pcb[current].parent
             dead   == [pcb EXCEPT ![current].state = "DEAD"]
  <2>1. /\ pcb' = dead \/ pcb' = process_wake(dead, parent)
        /\ current # shell /\ parent \in Pids
    BY <1>0, <1>5 DEF sys_exit, Invokes, Pcb
  <2>2. dead \in [Pids -> Pcb] /\ dead[shell] = pcb[shell]
    BY <1>0, <2>1 DEF Pcb, States
  <2> HIDE DEF dead, parent
  <2>3. pcb'[shell].state = "BLOCKED" => pcb[shell].state = "BLOCKED"
    BY <1>0, <2>1, <2>2, WakeFacts
  <2> QED BY <1>5, <2>3, KbMove, Zenon DEF sys_exit, Invokes
<1> QED BY <1>1, <1>2, <1>3, <1>4, <1>5, Zenon

\* The steps that make and free PCBs.
LEMMA KbFamily ==
    ASSUME IInv, TInv, KbInv,
           \/ sys_fork \/ process_create_pcb \/ process_spawn_add
           \/ wait_reap \/ process_spawn_fail
    PROVE  KbInv'
<1>0. /\ current \in Pids /\ shell \in Pids /\ pcb \in [Pids -> Pcb]
      /\ \A p \in Pids : pc[p] \in {"spawn", "load"} => p = shell
      /\ pc[current] \notin YieldPlaces \cup {"kb_eoi"} => pcb[current].state = "RUNNING"
      /\ pc[current] # "hlt" => current # idle
  BY Basics, Zenon DEF IInv, CoreType, TInv, ServiceInv, CurrentInv
<1> USE DEF At, Goto, keyboard
<1>1. CASE sys_fork \/ process_create_pcb
  <2>1. /\ pcb' = [pcb EXCEPT ![next_pid] = NewPcb(current)]
        /\ next_pid < MaxPid /\ next_pid' = next_pid + 1 /\ current # idle
        /\ UNCHANGED <<pending_key, keyboard_waiting>>
    BY <1>0, <1>1, Zenon DEF sys_fork, process_create_pcb, Invokes
  <2>2. pcb'[shell] = pcb[shell]
    BY <1>0, <2>1, NewbornFacts, Zenon
  <2>3. CASE sys_fork
    <3>1. UNCHANGED pc
      BY <2>3, Zenon DEF sys_fork
    <3> QED BY <2>1, <2>2, <3>1, KbStay, Zenon
  <2>4. CASE process_create_pcb
    BY <2>1, <2>2, <2>4, KbMove, Zenon DEF process_create_pcb, KeyboardPlaces
  <2> QED BY <1>1, <2>3, <2>4, Zenon
<1>2. CASE process_spawn_add
  <2>1. current = shell
    BY <1>0, <1>2, Zenon DEF process_spawn_add
  <2> QED BY <1>2, <2>1, KbMove, Zenon DEF process_spawn_add, KeyboardPlaces
<1>3. CASE wait_reap \/ process_spawn_fail
  <2>1. /\ pc[current] \in {"reap", "load"}
        /\ pcb' = [pcb EXCEPT ![local[current].child] = NoPcb]
        /\ pc' = [pc EXCEPT ![current] = IF current = shell THEN "getchar" ELSE "sysret"]
        /\ UNCHANGED <<pending_key, keyboard_waiting>>
    BY <1>0, <1>3, Zenon DEF wait_reap, process_spawn_fail, Release
  <2>2. local[current].child # shell
    BY <1>0, <2>1, TableBasics, Zenon DEF InHand
  <2>3. pcb'[shell] = pcb[shell]
    BY <1>0, <2>1, <2>2, Zenon
  <2>4. current = shell => pcb'[shell].state # "BLOCKED"
    BY <1>0, <2>1, <2>3, Zenon DEF YieldPlaces
  <2>5. CASE current = shell
    <3>1. pc' = [pc EXCEPT ![current] = "getchar"] /\ pc[current] \notin KeyboardPlaces
      BY <2>1, <2>5, Zenon DEF KeyboardPlaces
    <3> QED BY <2>1, <2>4, <2>5, <3>1, KbMove, Zenon
  <2>6. CASE current # shell
    <3>1. /\ pc' = [pc EXCEPT ![current] = "sysret"]
          /\ pc[current] \notin KeyboardPlaces /\ "sysret" \notin KeyboardPlaces
      BY <2>1, <2>6, Zenon DEF KeyboardPlaces
    <3> QED BY <2>1, <2>3, <3>1, KbMove, Zenon
  <2> QED BY <2>5, <2>6, Zenon
<1> QED BY <1>1, <1>2, <1>3, Zenon

LEMMA KbInvariance ==
    ASSUME Readers \cap Pids = {}
    PROVE  Spec => [](IInv /\ TInv /\ KbInv)
<1>0. hello \notin Readers
  BY ProcessesConstants DEF Pids, hello, shell
<1>1. Init => KbInv
  <2> SUFFICES ASSUME Init PROVE KbInv
    OBVIOUS
  <2>1. /\ \A p \in Pids \ {shell} : pc[p] \in {"hlt", "user"}
        /\ pc[shell] = "getchar" /\ pcb[shell].state = "READY"
        /\ keyboard_waiting = None
    BY ProcessesConstants DEF Init, Pids, idle, shell, NewPcb
  <2> QED BY <2>1, Zenon DEF KbInv, KeyboardPlaces
<1>2. IInv /\ TInv /\ KbInv /\ [Next]_vars => KbInv'
  <2> SUFFICES ASSUME IInv, TInv, KbInv, [Next]_vars PROVE KbInv'
    OBVIOUS
  <2>1. CASE kpanic \/ UNCHANGED vars
    <3>1. UNCHANGED <<pcb, pc, pending_key, keyboard_waiting>>
      BY <2>1, Zenon DEF kpanic, vars, keyboard
    <3> QED BY <3>1, KbStay, Zenon
  <2>2. CASE Kernel
    BY <2>1, <2>2, KbSteps, KbSwitch, KbElsewhere, KbFamily, Zenon
       DEF Kernel, Removes, process_create_panic
  <2>3. CASE User
    BY <2>1, <2>3, KbElsewhere, KbFamily, Zenon DEF User, sys_fork_panic
  <2> QED BY <2>1, <2>2, <2>3, KbPress, KbSwitch, Zenon DEF Next, Halted
<1> QED BY <1>0, <1>1, <1>2, TableInvariance, PTL DEF Spec

\* The key the shell waits for is never lost: asleep in keyboard_getchar it is
\* registered with the driver, and no key has come before it fell asleep.
THEOREM KeyIsNotMissed ==
    ASSUME Readers \cap Pids = {}
    PROVE  Spec => []KeyboardSleeperIsWoken
<1>1. IInv /\ TInv /\ KbInv => KeyboardSleeperIsWoken
  <2> SUFFICES ASSUME IInv, TInv, KbInv, NEW p \in Tabled, pcb[p].state = "BLOCKED",
                      pc[p] \in {"kb_eoi", "kb_yield", "getchar"}
               PROVE  keyboard_waiting = p /\ ~pending_key
    BY Zenon DEF KeyboardSleeperIsWoken
  <2>1. p = shell /\ shell # None
    BY TableBasics, Zenon DEF KbInv, KeyboardPlaces
  <2> QED BY <2>1, Zenon DEF KbInv
<1> QED BY <1>1, KbInvariance, PTL

\* keyboard_handler never touches a PCB that is gone.
THEOREM WaiterIsLive ==
    ASSUME Readers \cap Pids = {}
    PROVE  Spec => []KeyboardWaiterIsLive
<1>1. IInv /\ TInv /\ KbInv => KeyboardWaiterIsLive
  <2> SUFFICES ASSUME IInv, TInv, KbInv, keyboard_waiting # None
               PROVE  KeyboardWaiterIsLive
    BY Zenon DEF KeyboardWaiterIsLive
  <2>1. keyboard_waiting = shell /\ pc[shell] \in KeyboardPlaces /\ shell \in Pids
    BY TableBasics, Zenon DEF KbInv
  <2>2. shell \in Queued /\ pcb[shell].state # "DEAD"
    BY <2>1, TableBasics, Zenon DEF TInv, DeadInv, KeyboardPlaces
  <2> QED BY <2>1, <2>2, Zenon DEF KeyboardWaiterIsLive, KeyboardPlaces
<1> QED BY <1>1, KbInvariance, PTL
====
