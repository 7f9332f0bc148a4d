------------------------------- MODULE Procfs -------------------------------
(***************************************************************************)
(* procFS, the processes as directories under /process                     *)
(* (file_system/procfs/procfs.c).  An inode is allocated at every lookup,  *)
(* never freed and never written; it keeps a PID and not a process, and    *)
(* every read writes the text anew from the process table.                 *)
(*                                                                         *)
(* Of the processes (Processes) this module has what procFS sees: the      *)
(* slots of the table, which are reused, the PIDs and the states.  A text  *)
(* is abstracted to its length and to the process that it tells of, one    *)
(* PID per character.                                                      *)
(***************************************************************************)
EXTENDS Integers, SequencesExt, FiniteSetsExt

CONSTANTS
    MAX_PROCESSES,
    MaxPid,                 \* bound: no process is created with this PID
    StateWord               \* the length of each state's word in the status text

VARIABLES
    process_table,          \* slot -> NULL or the process in it
    next_pid

NULL == [pid |-> -1, state |-> "none"]
IDLE == 0                   \* the PID of the idle process, which never blocks or exits
Slots == 0 .. MAX_PROCESSES - 1
Occupied == {i \in Slots : process_table[i] # NULL}

\* process_init
ProcfsInit ==
    /\ process_table = [i \in Slots |-> NULL]
    /\ next_pid = 0
-----------------------------------------------------------------------------
\* process_create, process_spawn and process_fork: the lowest free slot, a new PID.
process_create ==
    /\ Occupied # Slots
    /\ next_pid < MaxPid
    /\ process_table' = [process_table EXCEPT ![Min(Slots \ Occupied)] =
                            [pid |-> next_pid, state |-> "ready"]]
    /\ next_pid' = next_pid + 1

\* scheduler_tick and scheduler_yield: the process in slot i runs next.
scheduler_switch(i) ==
    /\ process_table[i].state = "ready"
    /\ process_table' = [k \in Slots |->
          CASE k = i -> [process_table[k] EXCEPT !.state = "running"]
            [] process_table[k].state = "running" -> [process_table[k] EXCEPT !.state = "ready"]
            [] OTHER -> process_table[k]]
    /\ UNCHANGED next_pid

\* A process blocks or exits while it runs; what wakes one is left open.  Sleeping
\* is not told from being blocked.
SetState(i, from, to) ==
    /\ process_table[i].state = from
    /\ process_table' = [process_table EXCEPT ![i].state = to]
    /\ UNCHANGED next_pid

process_block(i) == process_table[i].pid # IDLE /\ SetState(i, "running", "blocked")
process_wake(i) == SetState(i, "blocked", "ready")
process_exit(i) == process_table[i].pid # IDLE /\ SetState(i, "running", "dead")

\* sys_wait: the slot is free again before the PCB is.
sys_wait_reap(i) ==
    /\ process_table[i].state = "dead"
    /\ process_table' = [process_table EXCEPT ![i] = NULL]
    /\ UNCHANGED next_pid
-----------------------------------------------------------------------------
ProcfsInode(type, pid, name) == [fs |-> "procfs", type |-> type, pid |-> pid, name |-> name]
ProcfsRoot == ProcfsInode("ROOT", 0, "process")
IsProcfsDir(inode) == inode.type \in {"ROOT", "PID_DIR"}

\* The number that a name spells in decimal, if it spells one.
Digits == <<"0", "1", "2", "3", "4", "5", "6", "7", "8", "9">>
IsNumber(name) == ToSet(name) \subseteq ToSet(Digits)
Parsed(name) ==
    FoldLeft(LAMBDA pid, c : 10 * pid + SelectInSeq(Digits, LAMBDA d : d = c) - 1, 0, name)

\* procfs_lookup; what to return for a missing name is the caller's.
procfs_lookup(dir, name, missing) ==
    CASE dir.type = "ROOT" /\ name \in {<<"meminfo">>, <<"mounts">>} ->
            ProcfsInode("INFO_FILE", 0, Head(name))
      [] dir.type = "ROOT" /\ IsNumber(name)
            /\ \E i \in Occupied : process_table[i].pid = Parsed(name) ->
            ProcfsInode("PID_DIR", Parsed(name), "pid")
      [] dir.type = "PID_DIR" /\ name \in {<<"status">>, <<"memory">>, <<"files">>} ->
            ProcfsInode("PID_FILE", dir.pid, Head(name))
      [] OTHER -> missing

\* Mutant of ProcessOf: the index of a process is its PID.
ProcessAt(pid) == process_table[pid % MAX_PROCESSES]

\* The search of procfs_read for the process of the inode.
ProcessOf(pid) ==
    LET found == {i \in Occupied : process_table[i].pid = pid}
    IN  IF found = {} THEN NULL ELSE process_table[Min(found)]

\* The text that procfs_read writes: lengths keep the order of the real ones.
NotFound == <<NULL.pid>>
Fixed == <<-2, -2>>
Text(inode) ==
    LET p == ProcessOf(inode.pid)
    IN  CASE inode.type = "INFO_FILE" -> Fixed
          [] inode.type = "PID_FILE" /\ p = NULL -> NotFound
          [] inode.type = "PID_FILE" /\ p # NULL /\ inode.name = "status" ->
                [k \in 1 .. 1 + StateWord[p.state] |-> p.pid]
          [] inode.type = "PID_FILE" /\ p # NULL /\ inode.name = "memory" -> <<p.pid, p.pid>>
          [] inode.type = "PID_FILE" /\ p # NULL /\ inode.name = "files" -> Fixed
          [] OTHER -> <<>>

\* procfs_read: the part of the text that the position and the size select.
procfs_read(inode, position, n) ==
    IF position >= Len(Text(inode)) THEN <<>>
    ELSE SubSeq(Text(inode), position + 1, Min({position + n, Len(Text(inode))}))

\* procfs_readdir has an entry to return: in the root the two info files and then
\* the occupied slots, by counting; in a process's directory the three files.
procfs_readdir(inode, position) ==
    \/ inode.type = "ROOT" /\ position < 2 + Cardinality(Occupied)
    \/ inode.type = "PID_DIR" /\ position < 3

\* procfs_readdir reads past the end of pid_files: only the position 3 ends it.
PastPidFiles(inode, position) == inode.type = "PID_DIR" /\ position > 3
=============================================================================
