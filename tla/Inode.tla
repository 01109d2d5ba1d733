-------------------------------- MODULE Inode ---------------------------------
(***************************************************************************)
(* Inodes and blocks of the mounted partition, fs/inode.c: the disk, the   *)
(* bitmaps read from it at mount, the inodes in memory, and the calls that *)
(* write them back.                                                        *)
(*                                                                         *)
(* The file system has no lock of its own.  It is entered by system calls, *)
(* which run with interrupts off: a process keeps the processor until it   *)
(* waits for the disk, and only then another runs (cpu says who does).  A  *)
(* step whose label is in IOLabels is the end of such a wait.  The transfer*)
(* belongs to it: ide_read and ide_write hold the channel from the command *)
(* to the transfer, so nobody else's transfer comes in between (IDE shows  *)
(* the requests to be served one at a time).                               *)
(*                                                                         *)
(* The lock of a bitmap is left out.  It is held while the bitmap's sector *)
(* is written, so that the next allocation waits for the write; here that  *)
(* allocation may come first, and its bit is then written twice.           *)
(***************************************************************************)
EXTENDS Integers, FiniteSets, SequencesExt

CONSTANTS Proc,
          NrInodes,  \* MAX_FILES_PER_PART
          NrBlocks,  \* blocks of the data area
          SyncInodes,  \* 512 for each sector of the inode bitmap: what bitmap_sync
          SyncBlocks,  \* takes; the same of the block bitmap
          NDIRECT,   \* 12: pointers to blocks in an inode, one to an index block besides
          DirSlots,  \* 16: directory entries of a block, "." and ".." included
          TabLen,    \* 128: block pointers of an index block
          Units,     \* 512: what a block of a file holds
          Dirty,     \* what is on the disk before it is written
          NULL

ASSUME InodeAssumption ==
  /\ NrInodes \in Nat \ {0} /\ NrBlocks \in Nat \ {0} /\ NDIRECT \in Nat \ {0}
  /\ SyncInodes \in Nat /\ SyncBlocks \in Nat
  /\ DirSlots \in Nat /\ DirSlots > 1
  /\ TabLen \in Nat \ {0} /\ Units \in Nat \ {0}

Ino == 0 .. NrInodes - 1
Block == 1 .. NrBlocks    \* 0 in place of a block: none
Pointers == 0 .. NDIRECT  \* indices of i_sectors; the last is the index block's

VARIABLES disk,          \* bbits, ibits: the bitmaps; itable: the inodes; block: contents
          block_bitmap,  \* the blocks, and
          inode_bitmap,  \* the inodes in use, in memory
          open_inodes,   \* the inodes in memory, the latest last
          cpu,           \* the process that runs in the kernel, if one does
          pc, loc,       \* where each process is, and its local variables
          panic          \* the assertion that failed, if one has

memory == << block_bitmap, inode_bitmap, open_inodes >>
control == << cpu, pc, loc, panic >>

-----------------------------------------------------------------------------
NoBlocks == [i \in Pointers |-> 0]
EmptyDir == [j \in 0 .. DirSlots - 1 |-> NULL]
EmptyTab == [j \in 0 .. TabLen - 1 |-> 0]
Dots(no, parent) ==
  [EmptyDir EXCEPT ![0] = [name |-> ".", no |-> no], ![1] = [name |-> "..", no |-> parent]]

\* What partition_format() leaves on the disk: the root directory, with inode 0 and
\* the first block.
Formatted ==
  [ bbits |-> {1}, ibits |-> {0},
    itable |-> [k \in Ino |->
      IF k = 0 THEN [dir |-> TRUE, size |-> 2, sectors |-> [NoBlocks EXCEPT ![0] = 1]]
      ELSE [dir |-> FALSE, size |-> 0, sectors |-> NoBlocks]],
    block |-> [b \in Block |-> IF b = 1 THEN Dots(0, 0) ELSE Dirty] ]

\* The inode in memory for d, the k-th of the disk.  i_count is left out: inodes are
\* never closed (inode_close has no caller) and nothing else reads it.
InMemory(d, k) ==
  [no |-> k, dir |-> d.itable[k].dir, size |-> d.itable[k].size,
   sectors |-> d.itable[k].sectors]

\* What mount_partition() and open_root_dir() read.
mount_partition ==
  /\ block_bitmap' = disk.bbits /\ inode_bitmap' = disk.ibits
  /\ open_inodes' = << InMemory(disk, 0) >>

-----------------------------------------------------------------------------
\* Where a process waits for the disk.
IOLabels == {"search", "iget", "bsync", "isync_read", "isync_write", "ibsync_write",
             "dirw_read", "dirw_write", "dot_write",
             "tab_read", "tab_zero", "fw_read", "fw_write", "tab_write", "fr_read"}

At(p, l) == pc[p] = l

\* Block b taken for a table, for a directory: one that is not written holds zeros, or
\* else (Misread in FileSystem).
TableAt(b) == IF disk.block[b] = Dirty THEN EmptyTab ELSE disk.block[b]
DirAt(b) == IF disk.block[b] = Dirty THEN EmptyDir ELSE disk.block[b]

\* The process runs: it does already, or it has waited and nobody else runs.  It
\* gives up the processor when it waits again, or leaves.
Runs(p, l) ==
  /\ panic = NULL /\ At(p, l)
  /\ cpu = IF l \in IOLabels THEN NULL ELSE p
ThenAt(p, l) ==
  /\ pc' = [pc EXCEPT ![p] = l]
  /\ cpu' = IF l \in IOLabels \cup {"out"} THEN NULL ELSE p
  /\ UNCHANGED panic

\* A record with the fields of r, and those that only f has.
r ++ f == [x \in DOMAIN r \cup DOMAIN f |-> IF x \in DOMAIN r THEN r[x] ELSE f[x]]

\* Local variables: all of them, some of them, none changed.
Local(p, r) == loc' = [loc EXCEPT ![p] = r]
Put(p, r) == loc' = [loc EXCEPT ![p] = r ++ @]

\* The system call returns.
Return(p) == Local(p, << >>) /\ ThenAt(p, "out")

\* An assertion fails: the machine stops.
Panic(why) == panic' = why /\ UNCHANGED << cpu, pc, loc >>

-----------------------------------------------------------------------------
\* bitmap_scan_set(): the first bit that is clear.
bitmap_scan(bits, all) == Min(all \ bits)

\* The inode in memory that inode_open() finds: the list's first, the latest.  Its
\* place in open_inodes, or 0.
Latest(k) == Max({0} \cup { i \in DOMAIN open_inodes : open_inodes[i].no = k })

\* A wrong variant of inode_alloc: the bit is left for the write of the bitmap.
inode_alloc_late(dir) ==
  /\ open_inodes' = Append(open_inodes,
       [no |-> bitmap_scan(inode_bitmap, Ino), dir |-> dir, size |-> 0, sectors |-> NoBlocks])
  /\ UNCHANGED << disk, block_bitmap, inode_bitmap >>

\* inode_alloc(): the inode is in memory only.
inode_alloc(dir) ==
  /\ LET k == bitmap_scan(inode_bitmap, Ino)
     IN /\ inode_bitmap' = inode_bitmap \cup {k}
        /\ open_inodes' = Append(open_inodes,
             [no |-> k, dir |-> dir, size |-> 0, sectors |-> NoBlocks])
  /\ UNCHANGED << disk, block_bitmap >>

\* A wrong variant of block_bimap_alloc: the bit is left for the write of the bitmap.
block_bimap_alloc_late(p) ==
  /\ Runs(p, "alloc")
  /\ Block \ block_bitmap # {}
  /\ Put(p, [blk |-> bitmap_scan(block_bitmap, Block)]) /\ ThenAt(p, "bsync")
  /\ UNCHANGED << disk, memory >>

\* block_bimap_alloc(), up to the write of the bitmap's sector: block_bimap_alloc
\* puts the block in blk and goes on at ret.  bitmap_sync() divides the bit's number by
\* the bytes of a sector, and so refuses all but an eighth of a bitmap.
block_bimap_alloc(p) ==
  /\ Runs(p, "alloc")
  /\ IF Block \subseteq block_bitmap
     THEN Panic("bitmap_scan_full") /\ UNCHANGED memory
     ELSE LET b == bitmap_scan(block_bitmap, Block)
          IN /\ block_bitmap' = block_bitmap \cup {b}
             /\ IF b <= SyncBlocks THEN Put(p, [blk |-> b]) /\ ThenAt(p, "bsync")
                ELSE Panic("bitmap_sync")
             /\ UNCHANGED << inode_bitmap, open_inodes >>
  /\ UNCHANGED disk

\* bitmap_sync() of the block bitmap: the sector is written.
block_bitmap_sync(p) ==
  /\ Runs(p, "bsync")
  /\ disk' = [disk EXCEPT !.bbits = block_bitmap]
  /\ ThenAt(p, loc[p].ret)
  /\ UNCHANGED << memory, loc >>

\* What inode_sync() copies of an inode in memory.
OnDisk(i) == [dir |-> open_inodes'[i].dir, size |-> open_inodes'[i].size,
              sectors |-> open_inodes'[i].sectors]

\* inode_sync() of the i-th inode in memory: it is copied before the sector is read.
\* Then it goes on at ret.
inode_sync(p, r, i, ret) ==
  /\ Local(p, [inode |-> i, copy |-> OnDisk(i), ret |-> ret] ++ r)
  /\ ThenAt(p, "isync_read")
inode_sync_read(p) ==
  /\ Runs(p, "isync_read")
  /\ Put(p, [buf |-> disk.itable])
  /\ ThenAt(p, "isync_write")
  /\ UNCHANGED << disk, memory >>

\* A wrong variant of inode_sync_write: the sector is written as it was read.
inode_sync_write_old(p) ==
  /\ Runs(p, "isync_write")
  /\ disk' = [disk EXCEPT !.itable = loc[p].buf]
  /\ Put(p, [buf |-> NULL, copy |-> NULL])
  /\ ThenAt(p, loc[p].ret)
  /\ UNCHANGED memory

\* The other half: the sector is written back with the copy in it.
inode_sync_write(p) ==
  /\ Runs(p, "isync_write")
  /\ disk' = [disk EXCEPT !.itable =
       [loc[p].buf EXCEPT ![open_inodes[loc[p].inode].no] = loc[p].copy]]
  /\ Put(p, [buf |-> NULL, copy |-> NULL])
  /\ ThenAt(p, loc[p].ret)
  /\ UNCHANGED memory

\* bitmap_sync() of the inode bitmap, the end of a creation.
inode_bitmap_sync(p) ==
  /\ Runs(p, "ibsync")
  /\ IF open_inodes[loc[p].inode].no < SyncInodes THEN ThenAt(p, "ibsync_write")
     ELSE Panic("bitmap_sync")
  /\ UNCHANGED << disk, memory, loc >>
inode_bitmap_write(p) ==
  /\ Runs(p, "ibsync_write")
  /\ disk' = [disk EXCEPT !.ibits = inode_bitmap]
  /\ ThenAt(p, "created")
  /\ UNCHANGED << memory, loc >>

InodeStep(p) ==
  \/ block_bimap_alloc(p) \/ block_bitmap_sync(p)
  \/ inode_sync_read(p) \/ inode_sync_write(p)
  \/ inode_bitmap_sync(p) \/ inode_bitmap_write(p)

=============================================================================
