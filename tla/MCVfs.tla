------------------------------- MODULE MCVfs -------------------------------
(***************************************************************************)
(* Two descriptors and two workloads.  In the first, programs use a file   *)
(* in /temp, a directory and a file in it; sizes keep the order of the     *)
(* real ones: a block costs less than an entry.  In the second they use    *)
(* devices and the files of /process, and close standard descriptors,      *)
(* while processes are created, end and are reaped.                        *)
(***************************************************************************)
EXTENDS Vfs

CONSTANTS r, i1, i2

MCInodes == {r, i1, i2}
Pointers == Permutations({i1, i2})
MCStateWord == [ready |-> 2, running |-> 3, blocked |-> 3, dead |-> 1]

File1 == <<"/", "temp", "/", "a">>
Dir1 == <<"/", "temp", "/", "d">>
InDir == <<"/", "temp", "/", "d", "/", "a">>
BelowFile == <<"/", "temp", "/", "a", "/", "a">>
FurtherBelow == <<"/", "temp", "/", "a", "/", "a", "/", "a">>

Temp ==
    [opens |-> {<<File1, {"O_RDWR", "O_CREAT"}>>, <<File1, {"O_RDWR", "O_TRUNC"}>>,
                <<File1, {"O_WRONLY", "O_APPEND"}>>, <<InDir, {"O_RDWR", "O_CREAT"}>>,
                <<Dir1, {}>>, <<BelowFile, {"O_RDWR", "O_CREAT"}>>},
     dirs |-> {Dir1, FurtherBelow},
     deletes |-> {File1, Dir1, InDir, BelowFile, FurtherBelow},
     writes |-> {<<1, 2, 3>>},
     closes |-> {3, 4},
     offsets |-> {7},
     processes |-> FALSE]

Names ==
    [opens |-> {<<<<"/", "process", "/">>, {}>>,
                <<<<"/", "process", "/", "1">>, {}>>,
                <<<<"/", "process", "/", "1", "/", "status">>, {}>>,
                <<<<"/", "process", "/", "2", "/", "memory">>, {"O_RDWR", "O_CREAT"}>>,
                <<<<"/", "devices">>, {}>>,
                <<<<"/", "devices", "/", "null">>, {"O_WRONLY", "O_TRUNC", "O_APPEND"}>>,
                <<<<"/", "temp", "erature">>, {"O_RDWR", "O_CREAT"}>>},
     dirs |-> {<<"/", "devices", "/", "d">>},
     deletes |-> {<<"/", "process", "/", "1">>},
     writes |-> {<<1>>},
     closes |-> {1, 3, 4},
     offsets |-> {7},
     processes |-> TRUE]

MCWorkloads == [temp |-> Temp, names |-> Names]
=============================================================================
