------------------------------ MODULE Machines ------------------------------
(***************************************************************************)
(* What a program may rely on: a processor of its own.  Its registers      *)
(* change when it computes, and otherwise only by what it asks for: a      *)
(* system call returns a value in RAX (RCX holds the return address, as    *)
(* libc/include/acorn/syscall.h says), fork gives the child a copy with    *)
(* RAX 0, exec and spawn start a program with its arguments.  Interrupts,  *)
(* other processes and the kernel's own work do not show.                  *)
(***************************************************************************)
EXTENDS Functions

CONSTANTS
    Users,      \* the processes that run programs
    Regs,       \* the registers
    Files,      \* per process: the register contents its programs compute
    Results,    \* what system calls return
    Zero,       \* the number 0
    Given,      \* the registers a new program is started with
    Lost,       \* the registers a forked child cannot rely on
    Unknown     \* not determined yet

VARIABLES
    regs,       \* each process's registers
    mode        \* "none", "new" (not started), "user", "call", "dead", "gone"

vars == <<regs, mode>>

Nothing == [r \in Regs |-> Unknown]

\* A program started by elf_load has its stack, argc and argv.
Started(file) == [r \in Regs |-> IF r \in Given THEN file[r] ELSE Unknown]

Init ==
    \E first \in Users : \E file \in Files[first] :
        /\ mode = [p \in Users |-> IF p = first THEN "new" ELSE "none"]
        /\ regs = [p \in Users |-> IF p = first THEN Started(file) ELSE Nothing]

Compute(p) ==
    /\ mode[p] = "user"
    /\ UNCHANGED mode
    /\ \E file \in Files[p] : regs' = [regs EXCEPT ![p] = file]

Call(p) ==
    /\ mode[p] = "user"
    /\ mode' = [mode EXCEPT ![p] = "call"]
    /\ regs' = [regs EXCEPT ![p]["rcx"] = regs[p]["rsp"]]

Return(p) ==
    /\ mode[p] = "call"
    /\ mode' = [mode EXCEPT ![p] = "user"]
    /\ \E v \in Results \cup {regs[p]["rax"]} : regs' = [regs EXCEPT ![p]["rax"] = v]

\* The child's registers; it starts later, with anything in the lost ones.
Forked(file) ==
    [r \in Regs |-> CASE r \in Lost -> Unknown
                      [] r = "rax" -> Zero
                      [] OTHER     -> file[r]]

Fork(p, c) ==
    /\ mode[p] = "call" /\ mode[c] = "none"
    /\ mode' = [mode EXCEPT ![c] = "new"]
    /\ regs' = [regs EXCEPT ![c] = Forked(regs[p])]

\* exec replaces the caller's program, spawn makes a new process.
Load(p) ==
    /\ mode[p] \in {"call", "none"}
    /\ mode' = [mode EXCEPT ![p] = "new"]
    /\ \E file \in Files[p] : regs' = [regs EXCEPT ![p] = Started(file)]

Start(p) ==
    /\ mode[p] = "new"
    /\ mode' = [mode EXCEPT ![p] = "user"]
    /\ regs' = [regs EXCEPT ![p] = regs'[p]]
    /\ \A r \in Regs : regs[p][r] # Unknown => regs'[p][r] = regs[p][r]

Exit(p) ==
    /\ mode[p] = "call"
    /\ mode' = [mode EXCEPT ![p] = "dead"]
    /\ regs' = [regs EXCEPT ![p] = Nothing]

Reap(p) ==
    /\ mode[p] = "dead"
    /\ mode' = [mode EXCEPT ![p] = "gone"]
    /\ UNCHANGED regs

Next ==
    \E p \in Users :
        \/ Compute(p) \/ Call(p) \/ Return(p) \/ Load(p) \/ Start(p)
        \/ Exit(p) \/ Reap(p)
        \/ \E c \in Users : Fork(p, c)

Spec == Init /\ [][Next]_vars
=============================================================================
