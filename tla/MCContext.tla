----------------------------- MODULE MCContext -----------------------------
(***************************************************************************)
(* One kernel thread, the program started at boot and one more process, on *)
(* four pages: one is free for an exec while everybody else lives.         *)
(***************************************************************************)
EXTENDS Context

CONSTANT child

MCThreads == {idle}
MCUsers == {hello, child}
MCStacks == 1 .. 4
MCFirst == [p \in {idle, hello} |-> IF p = idle THEN 1 ELSE 2]
MCFiles == [p \in MCUsers |->
    {[r \in Regs |-> <<"user", r, v>>] : v \in IF p = hello THEN {1} ELSE {2}}]
MCResults == {Zero}
MCMaxFrames == [p \in MCThreads \cup MCUsers |-> IF p \in MCUsers THEN 2 ELSE 1]
=============================================================================
