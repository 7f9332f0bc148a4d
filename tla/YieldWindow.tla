---------------------------- MODULE YieldWindow ----------------------------
(***************************************************************************)
(* scheduler_yield interrupted.  Processes takes scheduler_yield as one    *)
(* step; sys_exit, sys_wait and process_wait call it after 'sti', so when  *)
(* IRQ0 is not in service the timer interrupt may call scheduler_tick      *)
(* again inside it.  Here the call is cut where that matters:              *)
(*                                                                         *)
(*   yield_walk     up to the end of the walk; 'new' is now a local of the *)
(*                  calling process                                        *)
(*   yield_commit   the states, then current_process = new                 *)
(*   yield_switch   switch_context, from its first store on                *)
(*                                                                         *)
(* cpu is the process whose stack the CPU is on; between yield_commit and  *)
(* yield_switch it is not current_process.  stack_of[p] is the process on  *)
(* whose stack the context stored in p's PCB lies.                         *)
(***************************************************************************)
EXTENDS Processes

VARIABLES cpu, new_of, stack_of

window == <<cpu, new_of, stack_of>>

WindowInit ==
    /\ Init
    /\ cpu = idle
    /\ new_of = [p \in Pids |-> None]
    /\ stack_of = [p \in Pids |-> p]
-----------------------------------------------------------------------------
OutsideYield == cpu = current /\ new_of[current] = None

\* The walk comes back to the caller: scheduler_yield returns.
yield_returns ==
    LET procs == Ticked(now, -1)
    IN  /\ ~Stopped /\ OutsideYield /\ pc[current] \in YieldPlaces
        /\ WalkStopsAt(procs, current, current)
        /\ pcb' = [p \in Pids |-> IF p = current THEN Renewed(procs[p], p)
                                  ELSE procs[p]]
        /\ Goto(AfterYield(pc[current]))
        /\ UNCHANGED <<process_table, queue, removal, current, next_pid, local, iflag,
                       isr0, now, keyboard, panicked, window>>

yield_walk ==
    LET procs == Ticked(now, -1)
    IN  /\ ~Stopped /\ OutsideYield /\ pc[current] \in YieldPlaces
        /\ \E new \in Pids \ {current} :
              /\ WalkStopsAt(procs, current, new)
              /\ new_of' = [new_of EXCEPT ![current] = new]
        /\ pcb' = procs
        /\ UNCHANGED <<process_table, queue, removal, current, next_pid, pc, local,
                       iflag, isr0, now, keyboard, panicked, cpu, stack_of>>

yield_commit ==
    LET new == new_of[current]
    IN  /\ ~Stopped /\ cpu = current /\ new # None
        /\ pcb' = [p \in Pids |->
                     CASE p = current -> SwitchedOut(pcb[p], pcb[p].resume)
                       [] p = new     -> SwitchedIn(pcb[p], p)
                       [] OTHER       -> pcb[p]]
        /\ current' = new
        /\ UNCHANGED <<process_table, queue, removal, next_pid, pc, local, iflag, isr0,
                       now, keyboard, panicked, window>>

\* switch_context(cpu, current).
yield_switch ==
    /\ ~Stopped /\ cpu # current
    /\ pcb' = [pcb EXCEPT ![cpu].resume = "yield"]
    /\ pc' = [pc EXCEPT ![cpu] = AfterYield(@)]
    /\ new_of' = [new_of EXCEPT ![cpu] = None]
    /\ stack_of' = [stack_of EXCEPT ![cpu] = cpu]
    /\ cpu' = stack_of[current]
    /\ iflag' = SwitchedIF(current, iflag)
    /\ isr0' = SwitchedIsr0(current, isr0)
    /\ UNCHANGED <<process_table, queue, removal, current, next_pid, local, now,
                   keyboard, panicked>>

\* A timer interrupt, anywhere: what it suspends is the context on the CPU,
\* what it stores it in is current_process's PCB.
tick ==
    /\ TimerIRQ
    /\ IF current' = current
       THEN UNCHANGED <<cpu, stack_of>>
       ELSE /\ stack_of' = [stack_of EXCEPT ![current] = cpu]
            /\ cpu' = stack_of[current']
    /\ UNCHANGED new_of

Elsewhere ==
    /\ OutsideYield /\ UNCHANGED window
    /\ \/ getchar_take \/ getchar_wait \/ keyboard_wait_register
       \/ keyboard_wait_block \/ keyboard_wait_eoi \/ sysret
       \/ wait_found \/ wait_no_children \/ wait_block
       \/ remove_begin \/ remove_step \/ remove_splice \/ remove_tail
       \/ remove_gives_up \/ wait_reap
       \/ cmd_run_usage \/ process_create_pcb \/ process_create_panic
       \/ process_create_store \/ process_spawn_add \/ process_spawn_fail
       \/ User

\* A caller of scheduler_yield finds its stack and registers again ("entitled
\* to assume it survives the call", switch.asm): the context in a PCB is that
\* of its own process, whatever interrupt came during the switch.
OwnContext == \A p \in Pids : stack_of[p] = p

\* What the machine does with a wrong context is not modelled.
WindowNext ==
    \/ /\ OwnContext
       /\ \/ yield_returns \/ yield_walk \/ yield_commit \/ yield_switch
          \/ tick
          \/ KeyboardIRQ /\ UNCHANGED window
          \/ Elsewhere
    \/ (Stopped \/ ~OwnContext) /\ UNCHANGED <<vars, window>>

WindowSpec == WindowInit /\ [][WindowNext]_<<vars, window>>
=============================================================================
