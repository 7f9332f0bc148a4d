------------------------------ MODULE Shadowfs ------------------------------
(***************************************************************************)
(* shadowFS, the file system in RAM mounted at /temp                       *)
(* (file_system/shadowfs/shadowfs.c): what each entry of its operations    *)
(* table does to the inodes and to the quota account of the mount.         *)
(*                                                                         *)
(* An inode pointer is a member of Inodes; inodes maps the pointers that   *)
(* are allocated to the inode they point to.  A deleted inode's memory may *)
(* be handed out again by kmalloc, so a pointer may come back as another   *)
(* file.  private_data is a union: 'blocks' of a file and 'entries' of a   *)
(* directory are the same word, and an operation that takes one for the    *)
(* other leaves the behaviour undefined (Wild, Vfs!Faults).                *)
(***************************************************************************)
EXTENDS Integers, FiniteSets, TLC, SequencesExt, FiniteSetsExt

CONSTANTS
    Inodes, Root,           \* inode pointers, and the root directory's
    NoInode, Wild,          \* NULL, and a pointer to something else
    SHADOWFS_BLOCK_SIZE,
    DENTRY_COST,            \* sizeof(shadowfs_dentry_t) + sizeof(inode_t)
    BLOCK_COST,             \* sizeof(shadowfs_block_t); the data page is not in it
    Quota,
    UINT                    \* 2^32 in the code

ASSUME ShadowfsConstants ==
    /\ Root \in Inodes
    /\ {SHADOWFS_BLOCK_SIZE, DENTRY_COST, BLOCK_COST, Quota, UINT} \subseteq Nat \ {0}

VARIABLES
    inodes,
    used                    \* mount->used

NewInode(type) == [type |-> type, size |-> 0, blocks |-> <<>>, entries |-> <<>>]

\* shadowfs_mount: the root directory is not charged to the quota.
ShadowfsInit ==
    /\ inodes = (Root :> NewInode("DIR"))
    /\ used = 0

Live == DOMAIN inodes
Content(i) == FlattenSeq(inodes[i].blocks)
EntriesNamed(dir, name) == {k \in DOMAIN inodes[dir].entries : inodes[dir].entries[k].name = name}
-----------------------------------------------------------------------------
\* shadowfs_lookup does not look at dir->type: on a file it reads the blocks as
\* directory entries, harmlessly only when there are none.
shadowfs_lookup(dir, name) ==
    IF dir \notin Live THEN dir
    ELSE IF inodes[dir].type = "FILE"
         THEN IF inodes[dir].blocks = <<>> THEN NoInode ELSE Wild
    ELSE LET found == EntriesNamed(dir, name)
         IN  IF found = {} THEN NoInode ELSE inodes[dir].entries[Min(found)].inode

\* Mutants of shadowfs_create.
CreateNoDuplicateCheck(dir, name, type, i) ==
    /\ used < Quota
    /\ inodes' = (i :> NewInode(type)) @@
                 [inodes EXCEPT ![dir].entries = Append(@, [name |-> name, inode |-> i])]
    /\ used' = used + DENTRY_COST
CreateUncharged(dir, name, type, i) ==
    /\ used < Quota
    /\ EntriesNamed(dir, name) = {}
    /\ inodes' = (i :> NewInode(type)) @@
                 [inodes EXCEPT ![dir].entries = Append(@, [name |-> name, inode |-> i])]
    /\ used' = used + BLOCK_COST

\* shadowfs_create in a directory, in the case that it succeeds; i is the pointer
\* that kmalloc returns.
shadowfs_create(dir, name, type, i) ==
    /\ used < Quota
    /\ EntriesNamed(dir, name) = {}
    /\ inodes' = (i :> NewInode(type)) @@
                 [inodes EXCEPT ![dir].entries = Append(@, [name |-> name, inode |-> i])]
    /\ used' = used + DENTRY_COST

\* shadowfs_delete in a directory that has the name.  The blocks of a file are
\* freed but stay on the account; what a directory contains stays allocated.
shadowfs_delete(dir, name) ==
    LET k == Min(EntriesNamed(dir, name))
        cut == [inodes EXCEPT ![dir].entries = RemoveAt(@, k)]
    IN  /\ EntriesNamed(dir, name) # {}
        /\ inodes' = [j \in Live \ {inodes[dir].entries[k].inode} |-> cut[j]]
        /\ used' = used - DENTRY_COST

\* Mutant of Truncated.
TruncatedKeepsSize(inode) == [inode EXCEPT !.blocks = <<>>]

\* shadowfs_truncate(inode, 0), the only way that it is called.
Truncated(inode) == [inode EXCEPT !.blocks = <<>>, !.size = 0]

shadowfs_truncate(i) ==
    /\ inodes' = [inodes EXCEPT ![i] = Truncated(@)]
    /\ used' = used - BLOCK_COST * (Len(inodes[i].blocks) - Len(inodes'[i].blocks))
-----------------------------------------------------------------------------
\* The offset in the file at which a block of the walk ends.
WalkEnd(acc, block) == acc.start + Len(block)

\* Mutant of WalkBlock: a block is always read from its start.
WalkWhole(acc, block) ==
    LET n == Min({acc.remaining, Len(block)})
        hit == acc.remaining > 0 /\ acc.offset < WalkEnd(acc, block)
    IN  [start |-> WalkEnd(acc, block),
         offset |-> IF hit THEN acc.offset + n ELSE acc.offset,
         remaining |-> IF hit THEN acc.remaining - n ELSE acc.remaining,
         data |-> IF hit THEN acc.data \o SubSeq(block, 1, n) ELSE acc.data]

\* One block of the walk of shadowfs_read; 'from' is the offset in the block.
WalkBlock(acc, block) ==
    LET from == acc.offset - acc.start
        n == Min({acc.remaining, Len(block) - from})
        hit == acc.remaining > 0 /\ acc.offset < WalkEnd(acc, block)
    IN  [start |-> WalkEnd(acc, block),
         offset |-> IF hit THEN acc.offset + n ELSE acc.offset,
         remaining |-> IF hit THEN acc.remaining - n ELSE acc.remaining,
         data |-> IF hit THEN acc.data \o SubSeq(block, from + 1, from + n) ELSE acc.data]

\* How much shadowfs_read sets out to read of n bytes: the difference wraps when
\* the position is past the end.
Remaining(size, position, n) ==
    IF (position + n) % UINT > size THEN (size - position) % UINT ELSE n

\* The bytes that shadowfs_read copies to the buffer.
shadowfs_read(i, position, n) ==
    FoldLeft(WalkBlock,
             [start |-> 0, offset |-> position, data |-> <<>>,
              remaining |-> Remaining(inodes[i].size, position, n)],
             inodes[i].blocks).data
-----------------------------------------------------------------------------
\* shadowfs_readdir has an entry to return: the one the position counts to.
shadowfs_readdir(i, position) == position < Len(inodes[i].entries)

NeedsBlock(blocks) == blocks = <<>> \/ Len(Last(blocks)) = SHADOWFS_BLOCK_SIZE

\* Mutant of Put: the copy goes to the start of the block, not behind what is used.
PutAtStart(acc, byte, fresh) ==
    [acc EXCEPT !.written = @ + 1,
                !.used = IF fresh THEN @ + BLOCK_COST ELSE @,
                !.blocks = IF fresh THEN Append(@, <<byte>>)
                           ELSE Front(@) \o <<Append(<<byte>> \o Tail(Last(@)), byte)>>]

Put(acc, byte, fresh) ==
    [acc EXCEPT !.written = @ + 1,
                !.used = IF fresh THEN @ + BLOCK_COST ELSE @,
                !.blocks = IF fresh THEN Append(@, <<byte>>)
                           ELSE Front(@) \o <<Append(Last(@), byte)>>]

\* Mutant of WriteByte: every call starts a block.
WriteByteNewBlock(acc, byte) ==
    LET iteration == acc.written = 0 \/ NeedsBlock(acc.blocks)
    IN  IF acc.stopped \/ (iteration /\ acc.used >= Quota) THEN [acc EXCEPT !.stopped = TRUE]
        ELSE Put(acc, byte, iteration)

\* The loop of shadowfs_write, byte by byte.  An iteration of the code's loop
\* begins with the first byte and wherever a block is needed: there, and only
\* there, the quota is looked at.
WriteByte(acc, byte) ==
    LET iteration == acc.written = 0 \/ NeedsBlock(acc.blocks)
    IN  IF acc.stopped \/ (iteration /\ acc.used >= Quota) THEN [acc EXCEPT !.stopped = TRUE]
        ELSE Put(acc, byte, NeedsBlock(acc.blocks))

shadowfs_write(i, data) ==
    FoldLeft(WriteByte,
             [blocks |-> inodes[i].blocks, used |-> used, written |-> 0, stopped |-> FALSE],
             data)
=============================================================================
