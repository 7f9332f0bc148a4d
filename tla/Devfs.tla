------------------------------- MODULE Devfs -------------------------------
(***************************************************************************)
(* devFS, the devices as files under /devices                              *)
(* (file_system/devfs/devfs.c).  The device table is filled at boot and    *)
(* never changes afterwards, so that it is a constant here.  Every lookup  *)
(* allocates an inode of its own that is never freed and never written:    *)
(* such an inode is modelled by its value.                                 *)
(*                                                                         *)
(* No read or write handler touches the file_t or the tables: null gives   *)
(* end of file and discards, random and rtc fill the buffer (Rtc), the     *)
(* keyboard may block (Processes), display and serial only output.  The    *)
(* calls that reach a handler, or -1 for want of one, change nothing here. *)
(***************************************************************************)
EXTENDS Integers, SequencesExt, FiniteSetsExt

CONSTANT DEVFS_MAX_DEVICES

\* The registrations of kernel_main, in order.
BootDevices ==
    << <<"display">>, <<"keyboard">>, <<"null">>, <<"random">>, <<"serial">>, <<"rtc">> >>

\* devfs_register: nothing looks for the name; with no room the call fails, which
\* kernel_main does not notice.
devfs_register(table, name) ==
    IF Len(table) >= DEVFS_MAX_DEVICES THEN table ELSE Append(table, name)

device_table == FoldLeft(devfs_register, <<>>, BootDevices)

\* An inode holds the device's place in the table, the root directory 0.
DevfsInode(device) == [fs |-> "devfs", device |-> device]
DevfsRoot == DevfsInode(0)
IsDevfsDir(inode) == inode = DevfsRoot

\* devfs_lookup does not look at the directory: it finds a device below a device.
\* What to return for a name that is missing is the caller's.
devfs_lookup(name, missing) ==
    LET named == {d \in DOMAIN device_table : device_table[d] = name}
    IN  IF named = {} THEN missing ELSE DevfsInode(Min(named))

\* devfs_readdir has an entry to return.
devfs_readdir(position) == position < Len(device_table)
=============================================================================
