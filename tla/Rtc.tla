-------------------------------- MODULE Rtc --------------------------------
(***************************************************************************)
(* Reading the CMOS clock (drivers/rtc): rtc_read takes the registers one  *)
(* by one while the clock goes on, and repeats until two passes agree.     *)
(*                                                                         *)
(* The clock (external) keeps a time as a sequence of fields, the seconds  *)
(* first, each of them 0 .. Radix - 1.  Once a second it raises the        *)
(* update-in-progress bit, rewrites the registers one by one and lowers    *)
(* the bit.  The reader may be held up between any two of its port reads.  *)
(***************************************************************************)
EXTENDS Integers, Sequences, TLC

CONSTANTS
    N,                  \* registers: 6 in the code
    Radix,
    MaxUpdates          \* how often the clock advances while rtc_read runs

ASSUME RtcConstants == N \in Nat \ {0} /\ Radix \in Nat \ {0, 1} /\ MaxUpdates \in Nat

Fields == 1 .. N
Times == [Fields -> 0 .. Radix - 1]

VARIABLES
    regs, uip,          \* the registers, and the update-in-progress bit
    target, updates,    \* the time being written, and updates begun
    pc, field,          \* where rtc_read is, and the next register it reads
    first, last,        \* second .. year, and last_second .. last_year
    shown               \* ghost: the times it has been since rtc_read began

vars == <<regs, uip, target, updates, pc, field, first, last, shown>>

\* The time a second later: a field is carried into when all before it are full.
Later(t) ==
    [f \in Fields |-> IF \A g \in 1 .. f - 1 : t[g] = Radix - 1
                      THEN (t[f] + 1) % Radix ELSE t[f]]

Init ==
    /\ regs \in Times /\ target = regs
    /\ uip = FALSE /\ updates = 0
    /\ pc = "wait1" /\ field = 1
    /\ first = [f \in Fields |-> 0] /\ last = [f \in Fields |-> 0]
    /\ shown = {regs}
-----------------------------------------------------------------------------
ClockBegin ==
    /\ ~uip /\ updates < MaxUpdates /\ pc # "done"
    /\ uip' = TRUE /\ target' = Later(regs) /\ updates' = updates + 1
    /\ shown' = shown \cup {target'}
    /\ UNCHANGED <<regs, pc, field, first, last>>

\* The order in which the chip changes its registers is not specified.
ClockStore(f) ==
    /\ uip /\ regs[f] # target[f]
    /\ regs' = [regs EXCEPT ![f] = target[f]]
    /\ UNCHANGED <<uip, target, updates, pc, field, first, last, shown>>

ClockEnd ==
    /\ uip /\ regs = target
    /\ uip' = FALSE
    /\ UNCHANGED <<regs, target, updates, pc, field, first, last, shown>>
-----------------------------------------------------------------------------
clock == <<regs, uip, target, updates, shown>>

\* while(cmos_update_in_progress()) {}
Wait(from, to) ==
    /\ pc = from /\ ~uip
    /\ pc' = to /\ field' = 1
    /\ UNCHANGED <<clock, first, last>>

\* One register of cmos_read_raw.
ReadFirst ==
    /\ pc = "read1"
    /\ first' = [first EXCEPT ![field] = regs[field]]
    /\ field' = IF field = N THEN 1 ELSE field + 1
    /\ pc' = IF field = N THEN "wait2" ELSE pc
    /\ UNCHANGED <<clock, last>>

ReadLast ==
    /\ pc = "read2"
    /\ last' = [last EXCEPT ![field] = regs[field]]
    /\ field' = IF field = N THEN 1 ELSE field + 1
    /\ pc' = IF field = N THEN "compare" ELSE pc
    /\ UNCHANGED <<clock, first>>

\* Mutant of Agree: the seconds are left out.
AgreeOnMinutes == \A f \in Fields \ {1} : first[f] = last[f]

\* The condition of the loop.
Agree == \A f \in Fields : first[f] = last[f]

\* Mutant of Compare: only the second pass is repeated.
CompareKeepsFirst ==
    /\ pc = "compare"
    /\ pc' = IF Agree THEN "done" ELSE "wait2"
    /\ UNCHANGED <<clock, field, first, last>>

Compare ==
    /\ pc = "compare"
    /\ pc' = IF Agree THEN "done" ELSE "wait1"
    /\ UNCHANGED <<clock, field, first, last>>

Done == pc = "done" /\ UNCHANGED vars

Reader == Wait("wait1", "read1") \/ ReadFirst \/ Wait("wait2", "read2") \/ ReadLast \/ Compare
Clock == ClockBegin \/ (\E f \in Fields : ClockStore(f)) \/ ClockEnd
Next == Reader \/ Clock \/ Done

\* The reader is on the CPU again and again, and an update takes about 2 ms.
Fairness == WF_vars(Reader) /\ WF_vars(\E f \in Fields : ClockStore(f)) /\ WF_vars(ClockEnd)
Spec == Init /\ [][Next]_vars /\ Fairness
-----------------------------------------------------------------------------
\* "guarantees we caught a stable value rather than a half-updated one" (rtc.c):
\* what rtc_read returns is a time that it has been while it ran, however its
\* port reads fall between the stores of the clock.
ReadsAShownTime == pc = "done" => first \in shown

\* rtc_read returns once the clock has stood still for two passes; it does not
\* wait for an update bit that stays up, nor repeat agreeing passes.
Returns == <>(pc = "done")
=============================================================================
