-------------------------------- MODULE Vfs --------------------------------
(***************************************************************************)
(* The virtual file system (file_system/vfs/vfs.c) over the mounts that    *)
(* kernel_main makes: shadowFS at /temp, devFS at /devices and procFS at   *)
(* /process.  Paths, the mount table, the table of open files, and the     *)
(* calls behind the system calls open, close, read, write, seek, mkdir,    *)
(* readdir and delete.                                                     *)
(*                                                                         *)
(* The table is one for the whole kernel and every call runs with          *)
(* interrupts off, so an action is a whole call, of any process.  A call   *)
(* that changes nothing is a stuttering step and is left out.  kmalloc     *)
(* never returns NULL (KHeap), so neither do the allocations here.         *)
(*                                                                         *)
(* A path is a sequence of strings: "/" and pieces of names.  A name is    *)
(* one piece unless it begins like a mount point: /temperature is          *)
(* <<"/", "temp", "erature">>, since vfs_find_mount compares characters.   *)
(***************************************************************************)
EXTENDS Shadowfs, Devfs, Procfs

CONSTANTS
    VFS_MAX_FDS, VFS_MAX_MOUNTS,
    Workloads,              \* by name: what the programs of a behaviour call
    Reads                   \* sizes that they read

ASSUME VfsConstants ==
    /\ VFS_MAX_FDS \in Nat /\ VFS_MAX_MOUNTS \in Nat
    /\ Reads \subseteq 0 .. UINT - 1
    /\ \A w \in Range(Workloads) : w.offsets \subseteq 0 .. UINT - 1

VARIABLES
    file_table,             \* the descriptors' slots
    fault,                  \* "none", or why the behaviour is undefined from here on
    workload                \* the name of this behaviour's

disk == <<inodes, used>>
processes == <<process_table, next_pid>>
vars == <<disk, processes, file_table, fault, workload>>

Calls == Workloads[workload]
StdFDs == 0 .. 2
FDs == 3 .. VFS_MAX_FDS - 1             \* those that vfs_alloc_fd hands out
Closed == [inode |-> NoInode, flags |-> {}, position |-> 0]
OpenFDs == {fd \in StdFDs \cup FDs : file_table[fd] # Closed}
O_RDONLY == {}
O_WRONLY == {"O_WRONLY"}
-----------------------------------------------------------------------------
\* vfs_mount: a full table or a mount point that is taken makes the call fail.
vfs_mount(table, path) ==
    IF Len(table) >= VFS_MAX_MOUNTS \/ \E m \in Range(table) : m.mount_point = path
    THEN table
    ELSE Append(table, [mount_point |-> path, root |-> NoInode])

\* vfs_find_mount: the longest mount point that the path begins with, or 0.
vfs_find_mount(table, path) ==
    LET matching == {m \in DOMAIN table : IsPrefix(table[m].mount_point, path)}
    IN  IF matching = {} THEN 0
        ELSE CHOOSE m \in matching :
               \A k \in matching : Len(table[m].mount_point) >= Len(table[k].mount_point)

\* shadowfs_mount, devfs_mount and procfs_mount give the superblock its root.
Mounted(table, path, root) ==
    LET added == vfs_mount(table, path)
    IN  [added EXCEPT ![vfs_find_mount(added, path)].root = root]

mount_table ==
    Mounted(Mounted(Mounted(<<>>, <<"/", "temp">>, Root),
                    <<"/", "devices">>, DevfsRoot),
            <<"/", "process">>, ProcfsRoot)

\* The names of a path, which "/" separates; empty ones are skipped.
Components(path) ==
    LET Split(names, c) == IF c = "/" THEN Append(names, <<>>)
                           ELSE Front(names) \o <<Append(Last(names), c)>>
    IN  SelectSeq(FoldLeft(Split, << <<>> >>, path), LAMBDA name : name # <<>>)

\* The lookup operation of the inode's file system.
Lookup(dir, name) ==
    CASE dir \in {NoInode, Wild} -> dir
      [] dir \in Inodes -> shadowfs_lookup(dir, name)
      [] OTHER -> IF dir.fs = "devfs" THEN devfs_lookup(name, NoInode)
                  ELSE procfs_lookup(dir, name, NoInode)

\* The split of a path at its last slash.
LastSlash(path) == SelectLastInSeq(path, LAMBDA c : c = "/")
Parent(path) == IF LastSlash(path) <= 1 THEN <<"/">> ELSE SubSeq(path, 1, LastSlash(path) - 1)
FileName(path) == SubSeq(path, Max({LastSlash(path), 1}) + 1, Len(path))

\* Of every path that is walked: the root of its mount, the names below the mount
\* point, and the split.  None of it depends on a variable.
Paths ==
    LET given == UNION {{o[1] : o \in w.opens} \cup w.dirs \cup w.deletes : w \in Range(Workloads)}
    IN  given \cup {Parent(path) : path \in given}
Walk ==
    [path \in Paths |->
       LET m == vfs_find_mount(mount_table, path)
           below == SubSeq(path, Len(mount_table[m].mount_point) + 1, Len(path))
       IN  [from |-> IF m = 0 THEN NoInode ELSE mount_table[m].root,
            names |-> IF m = 0 THEN <<>> ELSE Components(below),
            parent |-> Parent(path), name |-> FileName(path)]]

\* vfs_resolve_path: one lookup for every name.
vfs_resolve_path(path) == FoldLeft(Lookup, Walk[path].from, Walk[path].names)

\* An inode of devFS or procFS.  Those are never freed, have size 0 and support
\* neither create, mkdir, delete nor truncate.
Generated(i) == i \notin Inodes \cup {NoInode, Wild}
IsDirectory(i) ==
    IF i \in Inodes THEN inodes[i].type = "DIR"
    ELSE IF i.fs = "devfs" THEN IsDevfsDir(i) ELSE IsProcfsDir(i)
Size(i) == IF i \in Inodes THEN inodes[i].size ELSE 0

\* vfs_open_at, at boot: the console's devices as standard input, output and error.
vfs_open_at(name, flags) == [inode |-> devfs_lookup(name, NoInode), flags |-> flags, position |-> 0]
Console(fd) ==
    IF fd = 0 THEN vfs_open_at(<<"keyboard">>, O_RDONLY) ELSE vfs_open_at(<<"display">>, O_WRONLY)

Init ==
    /\ ShadowfsInit
    /\ ProcfsInit
    /\ file_table = [fd \in StdFDs \cup FDs |-> IF fd \in StdFDs THEN Console(fd) ELSE Closed]
    /\ fault = "none"
    /\ workload \in DOMAIN Workloads

File(fd) == file_table[fd]
Dangling(fd) == File(fd).inode \in Inodes \ Live

\* Undefined behaviour: the model stops.
Faults(what) == fault' = what /\ UNCHANGED <<disk, processes, file_table, workload>>
-----------------------------------------------------------------------------
\* Mutant of vfs_alloc_fd: the search starts at 0.
AllocFdFromZero(file) ==
    LET free == DOMAIN file_table \ OpenFDs
    IN  file_table' = IF free = {} THEN file_table ELSE [file_table EXCEPT ![Min(free)] = file]

\* vfs_alloc_fd: the lowest free slot; with none the file_t is freed again.
vfs_alloc_fd(file) ==
    file_table' = IF FDs \subseteq OpenFDs THEN file_table
                  ELSE [file_table EXCEPT ![Min(FDs \ OpenFDs)] = file]

\* vfs_open of a path that exists.  A truncation has happened even when there is
\* no descriptor to return.
OpenExisting(i, flags) ==
    /\ IF "O_TRUNC" \in flags /\ i \in Live /\ ~IsDirectory(i)
       THEN shadowfs_truncate(i)
       ELSE UNCHANGED disk
    /\ vfs_alloc_fd([inode |-> i, flags |-> flags,
                     position |-> IF "O_APPEND" \in flags THEN Size(i)' ELSE 0])
    /\ UNCHANGED <<processes, fault, workload>>

\* vfs_open of a path that does not exist.  Nothing checks that the parent is a
\* directory.  The new file stays even when there is no descriptor to return.
OpenCreating(path, flags) ==
    LET dir == vfs_resolve_path(Walk[path].parent)
    IN  /\ "O_CREAT" \in flags
        /\ dir \in Live
        /\ used < Quota
        /\ IF inodes[dir].type = "FILE" THEN Faults("union")
           ELSE \E i \in Inodes \ Live :
                  /\ shadowfs_create(dir, Walk[path].name, "FILE", i)
                  /\ vfs_alloc_fd([inode |-> i, flags |-> flags, position |-> 0])
                  /\ UNCHANGED <<processes, fault, workload>>

vfs_open(path, flags) ==
    LET i == vfs_resolve_path(path)
    IN  /\ fault = "none"
        /\ \/ i = Wild /\ Faults("union")
           \/ (i \in Live \/ Generated(i)) /\ OpenExisting(i, flags)
           \/ i = NoInode /\ OpenCreating(path, flags)

vfs_close(fd) ==
    /\ fault = "none"
    /\ fd \in OpenFDs
    /\ IF Dangling(fd) THEN Faults("dangling")
       ELSE /\ file_table' = [file_table EXCEPT ![fd] = Closed]
            /\ UNCHANGED <<disk, processes, fault, workload>>

\* vfs_read is refused only when the flags are exactly O_WRONLY.  On a directory
\* shadowfs_read walks the entries as blocks unless there is nothing to read.
MayRead(fd) == File(fd).flags # O_WRONLY

vfs_read(fd, n) ==
    LET i == File(fd).inode
        position == File(fd).position
        Advance(data) == /\ file_table' = [file_table EXCEPT ![fd].position = (@ + Len(data)) % UINT]
                         /\ UNCHANGED <<disk, processes, fault, workload>>
    IN  /\ fault = "none"
        /\ fd \in OpenFDs
        /\ MayRead(fd)
        /\ \/ Dangling(fd) /\ Faults("dangling")
           \/ /\ i \in Live /\ IsDirectory(i)
              /\ inodes[i].entries # <<>> /\ n > 0
              /\ Remaining(inodes[i].size, position, n) > 0
              /\ Faults("union")
           \/ i \in Live /\ ~IsDirectory(i) /\ Advance(shadowfs_read(i, position, n))
           \/ Generated(i) /\ i.fs = "procfs" /\ Advance(procfs_read(i, position, n))

\* vfs_write is refused only when the flags are exactly O_RDONLY.  shadowfs_write
\* appends: it moves the position by what it wrote, but does not look at it.
MayWrite(fd) == File(fd).flags # O_RDONLY

vfs_write(fd, data) ==
    LET i == File(fd).inode
        end == shadowfs_write(i, data)
    IN  /\ fault = "none"
        /\ fd \in OpenFDs
        /\ MayWrite(fd)
        /\ \/ Dangling(fd) /\ Faults("dangling")
           \/ /\ i \in Live /\ IsDirectory(i)
              /\ inodes[i].entries # <<>> \/ used < Quota
              /\ Faults("union")
           \/ /\ i \in Live /\ ~IsDirectory(i)
              /\ inodes' = [inodes EXCEPT ![i].blocks = end.blocks,
                                          ![i].size = (@ + end.written) % UINT]
              /\ used' = end.used
              /\ file_table' = [file_table EXCEPT ![fd].position = (@ + end.written) % UINT]
              /\ UNCHANGED <<processes, fault, workload>>

\* Where vfs_seek moves to: SEEK_SET adds to the position, as SEEK_CUR does.
SeekTo(position, size, offset, whence) ==
    IF whence = "SEEK_END" THEN (size + offset) % UINT ELSE (position + offset) % UINT

vfs_seek(fd, offset, whence) ==
    /\ fault = "none"
    /\ fd \in OpenFDs
    /\ IF whence = "SEEK_END" /\ Dangling(fd) THEN Faults("dangling")
       ELSE LET size == IF Dangling(fd) THEN 0 ELSE Size(File(fd).inode)
            IN  /\ file_table' = [file_table EXCEPT ![fd].position =
                                    SeekTo(@, size, offset, whence)]
                /\ UNCHANGED <<disk, processes, fault, workload>>

\* vfs_mkdir does check that the parent is a directory.
vfs_mkdir(path) ==
    LET dir == vfs_resolve_path(Walk[path].parent)
    IN  /\ fault = "none"
        /\ \/ dir = Wild /\ Faults("union")
           \/ /\ dir \in Live /\ inodes[dir].type = "DIR"
              /\ \E i \in Inodes \ Live : shadowfs_create(dir, Walk[path].name, "DIR", i)
              /\ UNCHANGED <<processes, file_table, fault, workload>>

\* vfs_readdir: the position counts entries.
HasEntry(i, position) ==
    IF i \in Inodes THEN shadowfs_readdir(i, position)
    ELSE IF i.fs = "devfs" THEN devfs_readdir(position) ELSE procfs_readdir(i, position)

vfs_readdir(fd) ==
    LET i == File(fd).inode
        position == File(fd).position
    IN  /\ fault = "none"
        /\ fd \in OpenFDs
        /\ \/ Dangling(fd) /\ Faults("dangling")
           \/ /\ ~Dangling(fd) /\ IsDirectory(i) /\ HasEntry(i, position)
              /\ file_table' = [file_table EXCEPT ![fd].position = @ + 1]
              /\ UNCHANGED <<disk, processes, fault, workload>>
           \/ /\ Generated(i) /\ i.fs = "procfs" /\ PastPidFiles(i, position)
              /\ Faults("bounds")

\* vfs_delete: neither the parent's type nor the open files are looked at.
vfs_delete(path) ==
    LET dir == vfs_resolve_path(Walk[path].parent)
    IN  /\ fault = "none"
        /\ \/ dir = Wild /\ Faults("union")
           \/ /\ dir \in Live /\ inodes[dir].type = "FILE" /\ inodes[dir].blocks # <<>>
              /\ Faults("union")
           \/ /\ dir \in Live /\ inodes[dir].type = "DIR"
              /\ shadowfs_delete(dir, Walk[path].name)
              /\ UNCHANGED <<processes, file_table, fault, workload>>

\* The processes go on beside the calls.
ProcessStep ==
    /\ fault = "none" /\ Calls.processes
    /\ \/ process_create
       \/ \E i \in Slots : \/ scheduler_switch(i) \/ process_block(i) \/ process_wake(i)
                          \/ process_exit(i) \/ sys_wait_reap(i)
    /\ UNCHANGED <<disk, file_table, fault, workload>>

Next ==
    \/ \E o \in Calls.opens : vfs_open(o[1], o[2])
    \/ \E path \in Calls.dirs : vfs_mkdir(path)
    \/ \E path \in Calls.deletes : vfs_delete(path)
    \/ \E fd \in Calls.closes : vfs_close(fd)
    \/ \E fd \in FDs :
         \/ vfs_readdir(fd)
         \/ \E n \in Reads : vfs_read(fd, n)
         \/ \E data \in Calls.writes : vfs_write(fd, data)
         \/ \E offset \in Calls.offsets, whence \in {"SEEK_SET", "SEEK_CUR", "SEEK_END"} :
              vfs_seek(fd, offset, whence)
    \/ ProcessStep

Spec == Init /\ [][Next]_vars
-----------------------------------------------------------------------------
Files == {i \in Live : inodes[i].type = "FILE"}
Directories == Live \ Files

\* inode->size, which bounds every read and places O_APPEND and SEEK_END, is the
\* number of bytes in the chain of blocks: shadowfs_write and shadowfs_truncate
\* keep the two in step whatever the number of descriptors on the file and
\* however short the write.
SizeIsContent == \A i \in Files : inodes[i].size = Len(Content(i))

\* "last block may not be full" (shadowfs.h): every other block is, after any mix
\* of short writes, truncations and appends, and the last never holds more than
\* its page does.
OnlyLastBlockPartial ==
    \A i \in Files : \A k \in DOMAIN inodes[i].blocks :
        LET block == inodes[i].blocks[k]
        IN  /\ Len(block) \in 1 .. SHADOWFS_BLOCK_SIZE
            /\ k < Len(inodes[i].blocks) => Len(block) = SHADOWFS_BLOCK_SIZE

\* What shadowfs_read copies, walking the blocks with 32-bit offsets, is the part
\* of the content that the position and the size select: nothing when the
\* position is past the end (a truncation through another descriptor, a seek),
\* even though the remaining size wraps then.
ReadReturnsContent ==
    \A fd \in OpenFDs : File(fd).inode \in Files =>
        \A n \in Reads :
            LET i == File(fd).inode
                position == File(fd).position
            IN  shadowfs_read(i, position, n) =
                SubSeq(Content(i), position + 1, Min({position + n, Len(Content(i))}))

\* mount->used is never less than what the live entries and blocks were charged:
\* truncating and deleting refund no more than was taken, so the unsigned account
\* cannot wrap and close the mount for good.
UsedCoversCost ==
    used >= DENTRY_COST * (Cardinality(Live) - 1)
            + BLOCK_COST * MapThenSumSet(LAMBDA i : Len(inodes[i].blocks), Live)

\* The directories form a forest over live inodes: an entry never points to a
\* freed inode, no inode has two entries, the root has none, and the names in a
\* directory are distinct - although vfs_delete removes directories that are not
\* empty and pointers are reused.
TreeIsSound ==
    LET links == {<<d, k>> \in Directories \X (1 .. Cardinality(Inodes)) :
                    k <= Len(inodes[d].entries)}
        Entry(l) == inodes[l[1]].entries[l[2]]
    IN  /\ \A d \in Directories : Len(inodes[d].entries) <= Cardinality(Inodes)
        /\ \A l \in links : Entry(l).inode \in Live \ {Root}
        /\ \A l, m \in links : l # m =>
             /\ Entry(l).inode # Entry(m).inode
             /\ l[1] = m[1] => Entry(l).name # Entry(m).name

\* What a file holds changes only by a truncation, which leaves nothing, or by a
\* write through a descriptor on it that may write, which moves on; and the bytes
\* before the position where that descriptor stood are what they were ("Write size
\* bytes to file at current position", vfs.h), whatever other descriptors have
\* written and wherever the position is.
WriteKeepsEarlierBytes ==
    [][\A i \in Files \cap Live' :
         \/ Content(i)' \in {Content(i), <<>>}
         \/ \E fd \in OpenFDs :
              LET position == File(fd).position
              IN  /\ File(fd).inode = i /\ MayWrite(fd)
                  /\ File(fd)'.position # position
                  /\ IsPrefix(SubSeq(Content(i), 1, Min({position, Len(Content(i))})),
                              Content(i)')]_vars

\* "vfs_alloc_fd() never hands out 0/1/2 to a normal open()" (kernel.c): whatever
\* programs close and open, what stands at a standard descriptor is the console
\* device installed there at boot or nothing, never another file that would then
\* receive every program's output.
StandardStreams ==
    \A fd \in StdFDs \cap OpenFDs : File(fd).inode = Console(fd).inode

\* The inodes of the files of /process/<pid> that are open.
PidFiles ==
    {i \in {File(fd).inode : fd \in OpenFDs} :
       Generated(i) /\ i.fs = "procfs" /\ i.type = "PID_FILE"}
\* A descriptor on a file of /process/<pid> tells of the process that it was opened
\* on and, once that has been reaped, of none: not of a process that has come into
\* the slot of the table since, nor of one that is given the PID again.
ReportsOneProcess ==
    [][\A i \in PidFiles :
         /\ Range(Text(i)) \subseteq {i.pid} \cup Range(NotFound) \cup Range(Fixed)
         /\ Text(i) = NotFound => Text(i)' = NotFound]_vars
-----------------------------------------------------------------------------
\* "Seek from the start of the file" (vfs.h, SEEK_SET): the new position is the
\* offset.
SeekSetIsAbsolute ==
    \A fd \in OpenFDs : File(fd).inode \in Files =>
        \A offset \in Calls.offsets :
            SeekTo(File(fd).position, inodes[File(fd).inode].size, offset, "SEEK_SET") = offset

\* "Write size bytes to file at current position" (vfs.h, fs_ops.write): the bytes
\* written are those that stand at the position afterwards.
WritesAtPosition ==
    \A fd \in OpenFDs : File(fd).inode \in Files /\ MayWrite(fd) =>
        \A data \in Calls.writes :
            LET end == shadowfs_write(File(fd).inode, data)
                position == File(fd).position
            IN  position <= inodes[File(fd).inode].size =>
                SubSeq(FlattenSeq(end.blocks), position + 1, position + end.written)
                    = SubSeq(data, 1, end.written)

\* "Maximum bytes this mount can use" (shadowfs.h, quota): the data in the files
\* fits the quota, up to the block that crosses it.
DataWithinQuota ==
    MapThenSumSet(LAMBDA i : Len(Content(i)), Files) < Quota + SHADOWFS_BLOCK_SIZE

\* "Bytes currently in use including block overhead" (shadowfs.h, used): the
\* account is what the live entries and blocks were charged.
UsedIsExact ==
    used = DENTRY_COST * (Cardinality(Live) - 1)
           + BLOCK_COST * MapThenSumSet(LAMBDA i : Len(inodes[i].blocks), Live)

\* "Open for writing only" (vfs.h, O_WRONLY): such a descriptor is not read.
WriteOnlyIsNotRead ==
    \A fd \in OpenFDs : "O_WRONLY" \in File(fd).flags => ~MayRead(fd)

\* "Set up fd 0/1/2 (stdin/stdout/stderr) for every process" (kernel.c): they are
\* open.
StdioForEveryProcess == StdFDs \subseteq OpenFDs

\* "Used when inode->type == VFS_TYPE_DIR" (shadowfs.h, dir): the entries of an
\* inode that is a file, or the blocks of one that is a directory, are not used.
UnionFollowsType == fault # "union"

\* "Which file does this descriptor refer to" (vfs.h, file.inode): as long as a
\* descriptor is open its inode exists.
DescriptorHasInode == \A fd \in OpenFDs : ~Dangling(fd)
=============================================================================
