--------------------------------- MODULE File ---------------------------------
(***************************************************************************)
(* Open files, fs/file.c and the system calls of fs/fs.c: descriptors, the *)
(* table of open files, and reading and writing a file block by block.     *)
(*                                                                         *)
(* All user processes share one table of descriptors, since fork copies the*)
(* pointer to it (kernel/fork.c:104, :109).  The descriptors and files of  *)
(* the console are left out; a client uses a descriptor after the call that*)
(* opened it has returned it, and reads and writes no directory, which the *)
(* kernel does not prevent.                                                *)
(*                                                                         *)
(* A file holds units, and who writes it writes one datum in all of them.  *)
(***************************************************************************)
EXTENDS Directory

CONSTANTS OpenPaths,   \* what clients give to open,
          Creat,       \* with and without O_CREAT
          Data,        \* what they write,
          WriteCounts, \* how much of it at once,
          ReadCounts,  \* and how much they read
          NrFiles,     \* open files
          MaxSize      \* bound: how far clients try to write

ASSUME FileAssumption ==
  /\ NrFiles \in Nat \ {0}
  /\ WriteCounts \subseteq Nat \ {0} /\ ReadCounts \subseteq Nat \ {0}
  /\ MaxSize \in Nat

Fd == 1 .. NrFiles
Slot == 1 .. NrFiles

VARIABLES open_fds,    \* the descriptors in use
          fd_array,    \* the slot of each
          file_table   \* the open files: [count, pos, f_dentry]

files == << open_fds, fd_array, file_table >>

NoFile == [count |-> 0, pos |-> 0, f_dentry |-> 0]

\* The descriptors that a call has returned.
Opening == { loc[p].fd : p \in { q \in Proc : loc[q] # << >> /\ loc[q].call = "open" } }
Returned == open_fds \ Opening

\* The inode of an open file, and what a process reads of one in memory.
FileInode(s) == dentries[file_table[s].f_dentry].inode
IsFile(s) == ~ open_inodes[FileInode(s)].dir
Size(i) == open_inodes[i].size
Pointer(i, n) == open_inodes[i].sectors[n]

Idle(p) == panic = NULL /\ cpu = NULL /\ At(p, "out")

-----------------------------------------------------------------------------
\* open(): sys_openat() takes a descriptor and filp_openat() starts to walk.
open(p, path, creat) ==
  /\ Idle(p) /\ Fd \ open_fds # {}
  /\ open_fds' = open_fds \cup {Min(Fd \ open_fds)}
  /\ parse_path(p, [call |-> "open", fd |-> Min(Fd \ open_fds), creat |-> creat], path)
  /\ UNCHANGED << disk, memory, dirs, fd_array, file_table >>

\* get_free_file_of_table(), and the file of the entry d put there.
get_free_file == Min({ s \in Slot : file_table[s].count = 0 })
Opened(d) ==
  [file_table EXCEPT ![get_free_file] = [count |-> 1, pos |-> 0, f_dentry |-> d]]

\* filp_openat(), when the walk has ended: nothing is there; it is created; it is there,
\* and a slash after its name is not provided for.
filp_openat_none(p) ==
  /\ Parsed(p, "open") /\ loc[p].child = 0
  /\ ~loc[p].creat \/ loc[p].path # << >>
  /\ open_fds' = open_fds \ {loc[p].fd}
  /\ Return(p)
  /\ UNCHANGED << disk, memory, dirs, fd_array, file_table >>
filp_openat_create(p) ==
  /\ Parsed(p, "open") /\ loc[p].child = 0
  /\ loc[p].creat /\ loc[p].path = << >>
  /\ create(p, FALSE)
  /\ UNCHANGED << dirs, files >>
filp_openat(p) ==
  /\ Parsed(p, "open") /\ loc[p].child # 0 /\ loc[p].path = << >>
  /\ file_table' = Opened(loc[p].child)
  /\ fd_array' = [fd_array EXCEPT ![loc[p].fd] = get_free_file]
  /\ Return(p)
  /\ UNCHANGED << disk, memory, dirs, open_fds >>

filp_openat_slash(p) ==
  /\ Parsed(p, "open") /\ loc[p].child # 0 /\ loc[p].path # << >>
  /\ Panic("filp_openat_slash")
  /\ UNCHANGED << disk, memory, dirs, files >>

\* file_create(), from the end of dir_write() on, and install_fd().
file_create(p) ==
  /\ Runs(p, "dirw_end") /\ loc[p].call = "open"
  /\ file_table' = Opened(Len(dentries) + 1)
  /\ dir_written(p, [call |-> "open", fd |-> loc[p].fd, f |-> get_free_file,
                     written |-> TRUE])
  /\ UNCHANGED << open_fds, fd_array >>
install_fd(p) ==
  /\ Runs(p, "created") /\ loc[p].call = "open"
  /\ fd_array' = [fd_array EXCEPT ![loc[p].fd] = loc[p].f]
  /\ Return(p)
  /\ UNCHANGED << disk, memory, dirs, open_fds, file_table >>

\* sys_close(), file_close() and dentry_close(): the root is not counted.  What a free
\* slot holds is overwritten before it is read, and is cleared here.
close(p, fd) ==
  /\ Idle(p) /\ fd \in Returned
  /\ LET d == file_table[fd_array[fd]].f_dentry
     IN IF d # 1 /\ dentries[d].count = 0
        THEN Panic("dentry_close_count") /\ UNCHANGED << dentries, open_fds, file_table >>
        ELSE /\ dentries' = [dentries EXCEPT ![d].count = IF d = 1 THEN @ ELSE @ - 1]
             /\ file_table' = [file_table EXCEPT ![fd_array[fd]] = NoFile]
             /\ open_fds' = open_fds \ {fd}
             /\ UNCHANGED control
  /\ UNCHANGED << disk, memory, cwd, fd_array >>

-----------------------------------------------------------------------------
\* Reading and writing.  at is where the process is in the file and end where it will
\* be; offset and piece are the part of the block it works on.
Sec(p) == loc[p].at \div Units
Offset(p) == loc[p].at % Units
Piece(p) == Min({loc[p].end - loc[p].at, Units - Offset(p)})

\* The loops' condition: what an inode and a table have room for.
More(p) == loc[p].at < loc[p].end /\ Sec(p) < NDIRECT + TabLen

\* The pointer to the block it is at: in the inode, or in the table it holds.
InTable(p) == loc[p].tab[Sec(p) - NDIRECT]
Next_lba(p) == IF Sec(p) < NDIRECT THEN Pointer(loc[p].inode, Sec(p)) ELSE InTable(p)

\* A call begins with the locals r.  From past the first block that the table points
\* to, the table is read first; otherwise the loop does so when it comes to it.
Begin(p, r, loop, slot) ==
  IF r.at \div Units <= NDIRECT THEN Local(p, r) /\ ThenAt(p, loop)
  ELSE IF Pointer(r.inode, NDIRECT) = 0 THEN Panic("file_no_table")
  ELSE /\ Local(p, [lba |-> Pointer(r.inode, NDIRECT), ret |-> slot] ++ r)
       /\ ThenAt(p, "tab_read")

\* The table has been read.
table_read(p) ==
  /\ Runs(p, "tab_read")
  /\ Put(p, [tab |-> TableAt(loc[p].lba)]) /\ ThenAt(p, loc[p].ret)
  /\ UNCHANGED << disk, memory, dirs, files >>

\* sys_write() and the start of file_write().
write(p, fd, n, v) ==
  /\ Idle(p) /\ fd \in Returned
  /\ LET s == fd_array[fd]
         pos == file_table[s].pos
     IN /\ IsFile(s) /\ pos + n <= MaxSize
        /\ Begin(p, [call |-> "write", f |-> s, inode |-> FileInode(s), datum |-> v,
                     at |-> pos, end |-> pos + n, tab |-> NULL, sync2 |-> FALSE],
                 "fw_loop", "fw_loop")
  /\ UNCHANGED << disk, memory, dirs, files >>

\* One turn of the loop, up to the block: the pointer of the inode,
write_direct(p) ==
  /\ Runs(p, "fw_loop") /\ More(p) /\ Sec(p) < NDIRECT
  /\ IF Next_lba(p) = 0 THEN Put(p, [ret |-> "fw_got"]) /\ ThenAt(p, "alloc")
     ELSE Put(p, [lba |-> Next_lba(p)]) /\ ThenAt(p, "fw_read")
  /\ UNCHANGED << disk, memory, dirs, files >>
\* the first of the table, which is allocated or read,
write_table(p) ==
  /\ Runs(p, "fw_loop") /\ More(p) /\ Sec(p) = NDIRECT
  /\ LET b == Pointer(loc[p].inode, NDIRECT)
     IN IF b = 0 THEN Put(p, [ret |-> "fw_table"]) /\ ThenAt(p, "alloc")
        ELSE Put(p, [lba |-> b, ret |-> "fw_slot"]) /\ ThenAt(p, "tab_read")
  /\ UNCHANGED << disk, memory, dirs, files >>
write_new_table(p) ==
  /\ Runs(p, "fw_table")
  /\ open_inodes' = [open_inodes EXCEPT ![loc[p].inode].sectors[NDIRECT] = loc[p].blk]
  /\ ThenAt(p, "tab_zero")
  /\ UNCHANGED << disk, block_bitmap, inode_bitmap, loc, dirs, files >>
write_zero_table(p) ==
  /\ Runs(p, "tab_zero")
  /\ Put(p, [tab |-> EmptyTab, sync2 |-> TRUE]) /\ ThenAt(p, "fw_slot")
  /\ UNCHANGED << disk, memory, dirs, files >>
\* A wrong variant of write_slot: a table that exists is not written back.
write_slot_kept(p) ==
  /\ \/ Runs(p, "fw_slot")
     \/ Runs(p, "fw_loop") /\ More(p) /\ Sec(p) > NDIRECT
  /\ IF InTable(p) = 0 THEN Put(p, [ret |-> "fw_got"]) /\ ThenAt(p, "alloc")
     ELSE Put(p, [lba |-> InTable(p)]) /\ ThenAt(p, "fw_read")
  /\ UNCHANGED << disk, memory, dirs, files >>

\* or any other of the table.
write_slot(p) ==
  /\ \/ Runs(p, "fw_slot")
     \/ Runs(p, "fw_loop") /\ More(p) /\ Sec(p) > NDIRECT
  /\ IF InTable(p) = 0
     THEN /\ Put(p, [sync2 |-> loc[p].sync2 \/ Sec(p) > NDIRECT, ret |-> "fw_got"])
          /\ ThenAt(p, "alloc")
     ELSE Put(p, [lba |-> InTable(p)]) /\ ThenAt(p, "fw_read")
  /\ UNCHANGED << disk, memory, dirs, files >>

\* A block has been allocated.
write_new_block(p) ==
  /\ Runs(p, "fw_got")
  /\ IF Sec(p) < NDIRECT
     THEN /\ open_inodes' =
               [open_inodes EXCEPT ![loc[p].inode].sectors[Sec(p)] = loc[p].blk]
          /\ Put(p, [lba |-> loc[p].blk])
     ELSE /\ Put(p, [lba |-> loc[p].blk,
                     tab |-> [loc[p].tab EXCEPT ![Sec(p) - NDIRECT] = loc[p].blk]])
          /\ UNCHANGED open_inodes
  /\ ThenAt(p, "fw_read")
  /\ UNCHANGED << disk, block_bitmap, inode_bitmap, dirs, files >>

\* The block has been read: the piece goes in, and it is written where the pointer
\* then points to.
Contents(b) == IF disk.block[b] = Dirty THEN [u \in 0 .. Units - 1 |-> Dirty] ELSE disk.block[b]
write_read(p) ==
  /\ Runs(p, "fw_read")
  /\ Put(p, [buf |-> [u \in 0 .. Units - 1 |->
                        IF u \in Offset(p) .. Offset(p) + Piece(p) - 1
                        THEN loc[p].datum ELSE Contents(loc[p].lba)[u]],
             lba |-> Next_lba(p)])
  /\ ThenAt(p, "fw_write")
  /\ UNCHANGED << disk, memory, dirs, files >>
write_write(p) ==
  /\ Runs(p, "fw_write")
  /\ disk' = [disk EXCEPT !.block[loc[p].lba] = loc[p].buf]
  /\ Put(p, [buf |-> NULL, blk |-> 0, lba |-> 0, at |-> loc[p].at + Piece(p)])
  /\ ThenAt(p, "fw_loop")
  /\ UNCHANGED << memory, dirs, files >>

\* The end of the loop: not all fitted; or the inode grows in memory, and the table and
\* the inode, if they have changed, are written.
SyncInode(p, grew) ==
  IF grew
  THEN inode_sync(p, [call |-> "write", f |-> loc[p].f, end |-> loc[p].end],
                  loc[p].inode, "fw_done")
  ELSE Put(p, [tab |-> NULL]) /\ ThenAt(p, "fw_done")
write_too_much(p) ==
  /\ Runs(p, "fw_loop") /\ loc[p].at < loc[p].end /\ ~ More(p)
  /\ Panic("file_write_count")
  /\ UNCHANGED << disk, memory, dirs, files >>
write_end(p) ==
  /\ Runs(p, "fw_loop") /\ loc[p].at = loc[p].end
  /\ LET grew == Size(loc[p].inode) < loc[p].end
     IN /\ open_inodes' = [open_inodes EXCEPT ![loc[p].inode].size = Max({@, loc[p].end})]
        /\ IF loc[p].sync2
           THEN /\ Put(p, [lba |-> Pointer(loc[p].inode, NDIRECT), sync2 |-> grew])
                /\ ThenAt(p, "tab_write")
           ELSE SyncInode(p, grew)
  /\ UNCHANGED << disk, block_bitmap, inode_bitmap, dirs, files >>
write_table_back(p) ==
  /\ Runs(p, "tab_write")
  /\ disk' = [disk EXCEPT !.block[loc[p].lba] = loc[p].tab]
  /\ UNCHANGED << memory, dirs, files >>
  /\ SyncInode(p, loc[p].sync2)
write_done(p) ==
  /\ Runs(p, "fw_done")
  /\ file_table' = [file_table EXCEPT ![loc[p].f].pos = loc[p].end]
  /\ Return(p)
  /\ UNCHANGED << disk, memory, dirs, open_fds, fd_array >>

-----------------------------------------------------------------------------
\* sys_read() and the start of file_read().
read(p, fd, n) ==
  /\ Idle(p) /\ fd \in Returned
  /\ LET s == fd_array[fd]
         i == FileInode(s)
         pos == file_table[s].pos
     IN /\ IsFile(s)
        /\ IF Size(i) < pos THEN Panic("file_read_position")
           ELSE Begin(p, [call |-> "read", f |-> s, inode |-> i, at |-> pos, start |-> pos,
                          n |-> n, end |-> Min({Size(i), pos + n}), tab |-> NULL, got |-> << >>],
                      "fr_loop", "fr_slot")
  /\ UNCHANGED << disk, memory, dirs, files >>

\* One turn of the loop, up to the block.
read_block(p, lba) ==
  IF lba = 0 THEN Panic("file_read_no_block")
  ELSE Put(p, [lba |-> lba]) /\ ThenAt(p, "fr_read")
read_loop(p) ==
  /\ Runs(p, "fr_loop") /\ More(p)
  /\ IF Sec(p) # NDIRECT THEN read_block(p, Next_lba(p))
     ELSE /\ Put(p, [lba |-> Pointer(loc[p].inode, NDIRECT), ret |-> "fr_slot"])
          /\ ThenAt(p, "tab_read")
  /\ UNCHANGED << disk, memory, dirs, files >>
read_slot(p) ==
  /\ Runs(p, "fr_slot")
  /\ IF loc[p].at = loc[p].end THEN ThenAt(p, "fr_loop") /\ UNCHANGED loc
     ELSE read_block(p, InTable(p))
  /\ UNCHANGED << disk, memory, dirs, files >>

\* A wrong variant of read_read: the offset in the block is forgotten.
read_read_start(p) ==
  /\ Runs(p, "fr_read")
  /\ Put(p, [got |-> loc[p].got \o
               [k \in 1 .. Piece(p) |-> Contents(loc[p].lba)[k - 1]],
             lba |-> 0, at |-> loc[p].at + Piece(p)])
  /\ ThenAt(p, "fr_loop")
  /\ UNCHANGED << disk, memory, dirs, files >>

\* The block has been read.
read_read(p) ==
  /\ Runs(p, "fr_read")
  /\ Put(p, [got |-> loc[p].got \o
               [k \in 1 .. Piece(p) |-> Contents(loc[p].lba)[Offset(p) + k - 1]],
             lba |-> 0, at |-> loc[p].at + Piece(p)])
  /\ ThenAt(p, "fr_loop")
  /\ UNCHANGED << disk, memory, dirs, files >>
read_end(p) ==
  /\ Runs(p, "fr_loop") /\ ~ More(p)
  /\ IF loc[p].at # loc[p].end THEN Panic("file_read_count") /\ UNCHANGED file_table
     ELSE /\ file_table' = [file_table EXCEPT ![loc[p].f].pos = loc[p].end]
          /\ Return(p)
  /\ UNCHANGED << disk, memory, dirs, open_fds, fd_array >>

FileStep(p) ==
  \/ \E path \in OpenPaths, creat \in Creat : open(p, path, creat)
  \/ filp_openat_none(p) \/ filp_openat_create(p) \/ filp_openat(p)
  \/ filp_openat_slash(p) \/ file_create(p) \/ install_fd(p)
  \/ \E fd \in Fd : close(p, fd)
  \/ table_read(p)
  \/ \E fd \in Fd, n \in WriteCounts, v \in Data : write(p, fd, n, v)
  \/ write_direct(p) \/ write_table(p) \/ write_new_table(p) \/ write_zero_table(p)
  \/ write_slot(p) \/ write_new_block(p) \/ write_read(p) \/ write_write(p)
  \/ write_too_much(p) \/ write_end(p) \/ write_table_back(p) \/ write_done(p)
  \/ \E fd \in Fd, n \in ReadCounts : read(p, fd, n)
  \/ read_loop(p) \/ read_slot(p) \/ read_read(p) \/ read_end(p)

=============================================================================
