-------------------------- MODULE FileSystem_proofs --------------------------
(***************************************************************************)
(* For any processes, blocks and inodes, any sizes and paths, and any      *)
(* number of resets: no block belongs to two inodes, none that an inode    *)
(* points to is free, and, if clients respect what is a directory and what *)
(* is a file, no inode has two names.                                      *)
(*                                                                         *)
(* What holds in every state is that each block can be given an owner, and *)
(* marked as a block of data or of pointers, such that every pointer - on  *)
(* the disk, in memory, in the table or the buffer that a process carries  *)
(* across its waits - is to a block whose bit is on the disk and whose     *)
(* owner is the inode that points.  A process that has allocated a block   *)
(* is known to be the only one, and where it will put it; this needs to be *)
(* said of every label at which it can be found.  The owners are not part  *)
(* of the state: they are quantified over, as the view e that a step       *)
(* begins with.                                                            *)
(*                                                                         *)
(* Descriptors come in since a read or write takes its inode from one: an  *)
(* open descriptor has a slot of its own, which has an entry.              *)
(*                                                                         *)
(* Names rest on the owners: an entry is in a block of its directory.  For *)
(* each inode in use there is, again quantified over, the directory and    *)
(* the name it was created under, g.named, and every entry on the disk, or *)
(* in a buffer on its way there, is told to agree with it; g.kept are the  *)
(* inodes that the disk, by its bitmap or by an entry, already speaks of.  *)
(***************************************************************************)
EXTENDS FileSystem, SequenceTheorems, FiniteSetTheorems, NaturalsInduction, TLAPS

-----------------------------------------------------------------------------
\* Who owns which block, who is given; which blocks are index blocks, tabs; which are in
\* use, on the disk and in memory; the number of each inode in memory, and the inode of each
\* entry.
View(who, tabs) ==
  [who |-> who, tabs |-> tabs, synced |-> disk.bbits, used |-> block_bitmap,
   no |-> [i \in DOMAIN open_inodes |-> open_inodes[i].no],
   inode |-> [d \in DOMAIN dentries |-> dentries[d].inode]]

\* x is no block, or one of inode k: a block of data, an index block.
Data_of(e, k, x) == x = 0 \/ (x \in e.synced /\ e.who[x] = k /\ x \notin e.tabs)
Tab_of(e, k, x) == x = 0 \/ (x \in e.synced /\ e.who[x] = k /\ x \in e.tabs)

\* The pointers of inode k, and of its index block.
SectorsOf(e, k, s) ==
  /\ s \in [Pointers -> Nat]
  /\ Tab_of(e, k, s[NDIRECT])
  /\ \A n \in Pointers \ {NDIRECT} : Data_of(e, k, s[n])
TableOf(e, k, tab) ==
  /\ DOMAIN tab = 0 .. TabLen - 1
  /\ \A n \in 0 .. TabLen - 1 : Data_of(e, k, tab[n])

Allocated(e) ==
  /\ e.who \in [Block -> Ino] /\ e.tabs \subseteq Block
  /\ e.synced \subseteq e.used /\ e.used \subseteq Block

MemInode == [no : Ino, dir : BOOLEAN, size : Nat, sectors : [Pointers -> Nat]]
DiskInode == [dir : BOOLEAN, size : Nat, sectors : [Pointers -> Nat]]

InodesOf(e, table) ==
  /\ table \in [Ino -> DiskInode]
  /\ \A k \in Ino : SectorsOf(e, k, table[k].sectors)

\* The disk: a block not in use was never written, and an index block holds pointers of
\* its inode.
OnTheDisk(e, d) ==
  /\ d = [bbits |-> d.bbits, ibits |-> d.ibits, itable |-> d.itable, block |-> d.block]
  /\ d.ibits \subseteq Ino
  /\ InodesOf(e, d.itable)
  /\ DOMAIN d.block = Block
  /\ \A b \in Block \ e.synced : d.block[b] = Dirty
  /\ \A b \in e.synced \cap e.tabs : d.block[b] = Dirty \/ TableOf(e, e.who[b], d.block[b])

InMemoryOf(e, m) ==
  /\ m \in Seq(MemInode)
  /\ \A i \in DOMAIN m : SectorsOf(e, m[i].no, m[i].sectors)

Entered(m, ds) ==
  /\ ds \in Seq(Range(ds)) /\ ds # << >>
  /\ \A d \in DOMAIN ds : /\ DOMAIN ds[d] = {"name", "parent", "inode", "count"}
                          /\ ds[d].parent \in DOMAIN ds
                          /\ ds[d].inode \in DOMAIN m

-----------------------------------------------------------------------------
\* What a process has in its local variables L when it is at label l.
Inode_in(e, L) == "inode" \in DOMAIN L /\ L.inode \in DOMAIN e.no
Call_in(L, calls) == "call" \in DOMAIN L /\ L.call \in calls
File_in(L) == L.call = "open" => {"fd", "f"} \subseteq DOMAIN L

Walks(e, L) ==
  /\ Call_in(L, {"open", "mkdir", "chdir"})
  /\ {"fd", "parent", "child"} \subseteq DOMAIN L
  /\ L.parent \in DOMAIN e.inode /\ L.child \in DOMAIN e.inode \cup {0}
  /\ "f" \notin DOMAIN L

Creates(e, L) ==
  /\ Call_in(L, {"open", "mkdir"}) /\ Inode_in(e, L)
  /\ {"fd", "parent", "idx"} \subseteq DOMAIN L
  /\ L.parent \in DOMAIN e.inode /\ L.idx \in Pointers
  /\ "f" \notin DOMAIN L

Writes(e, L) ==
  /\ Call_in(L, {"write"}) /\ Inode_in(e, L)
  /\ {"at", "end", "tab", "sync2"} \subseteq DOMAIN L
  /\ L.at \in Nat /\ L.end \in Nat /\ L.at <= L.end
  /\ L.sync2 \in BOOLEAN /\ (L.sync2 => TableOf(e, e.no[L.inode], L.tab))

Reads(L) == Call_in(L, {"read"}) /\ "end" \in DOMAIN L /\ L.end \in Nat

\* It has a table of its inode.
Tabled(e, L) == TableOf(e, e.no[L.inode], L.tab)
Sect(L) == L.at \div Units
Room(L) == L.at < L.end /\ Sect(L) < NDIRECT + TabLen

\* It writes the block at which it is.
WritesBlock(e, L) ==
  /\ Writes(e, L) /\ Room(L)
  /\ Sect(L) >= NDIRECT => Tabled(e, L)

\* It may go on at l, with a block to come, which belongs to inode ForInode.
Awaits(e, l, L) ==
  \/ l = "dirw_zero" /\ Creates(e, L) /\ L.idx # NDIRECT
  \/ l = "dot" /\ Creates(e, L)
  \/ l = "fw_got" /\ WritesBlock(e, L)
  \/ l = "fw_table" /\ Writes(e, L) /\ Room(L) /\ Sect(L) = NDIRECT
ForInode(e, l, L) == IF l = "dirw_zero" THEN e.no[e.inode[L.parent]] ELSE e.no[L.inode]
Given(e, l, L, used) ==
  /\ "blk" \in DOMAIN L /\ L.blk \in used
  /\ e.who[L.blk] = ForInode(e, l, L)
  /\ (L.blk \in e.tabs <=> l = "fw_table")

\* The block that it will write is not an index block.
PlainBlock(e, L) == "lba" \in DOMAIN L /\ (L.lba = 0 \/ L.lba \in e.synced \ e.tabs)

Syncs(e, L) ==
  /\ Call_in(L, {"open", "mkdir", "write"}) /\ Inode_in(e, L) /\ File_in(L)
  /\ {"copy", "ret"} \subseteq DOMAIN L
  /\ L.copy \in DiskInode /\ SectorsOf(e, e.no[L.inode], L.copy.sectors)
  /\ \/ L.ret = "ibsync" /\ L.call # "write"
     \/ L.ret = "fw_done" /\ L.call = "write" /\ "end" \in DOMAIN L /\ L.end \in Nat

\* Where the calls are: looking for a name,
Looking(e, l, L) ==
  /\ l \in {"walk", "search", "iget"} /\ Walks(e, L)
  /\ l = "iget" => "no" \in DOMAIN L /\ L.no \in Ino
\* writing an entry,
Creating(e, l, L) ==
  /\ l \in {"dirw", "dirw_read", "dirw_write", "dot_write", "dirw_end"} /\ Creates(e, L)
  /\ l \in {"dirw_read", "dirw_write", "dot_write"} => PlainBlock(e, L)
  /\ l = "dirw_read" => L.idx # NDIRECT
\* allocating a block,
Allocating(e, l, L) ==
  \/ /\ l \in {"alloc", "bsync"} /\ "ret" \in DOMAIN L /\ Awaits(e, L.ret, L)
     /\ l = "bsync" => Given(e, L.ret, L, e.used)
  \/ Awaits(e, l, L) /\ Given(e, l, L, e.synced)
\* writing an inode back,
Syncing(e, l, L) ==
  \/ /\ l \in {"isync_read", "isync_write"} /\ Syncs(e, L)
     /\ l = "isync_write" => "buf" \in DOMAIN L /\ InodesOf(e, L.buf)
  \/ l \in {"ibsync", "ibsync_write", "created"} /\ Call_in(L, {"open", "mkdir"}) /\ File_in(L)
  \/ l = "fw_done" /\ Call_in(L, {"write"}) /\ "end" \in DOMAIN L /\ L.end \in Nat
\* writing a file,
Writing(e, l, L) ==
  \/ l = "fw_loop" /\ Writes(e, L) /\ (Sect(L) > NDIRECT => Tabled(e, L))
  \/ l \in {"fw_slot", "fw_read", "fw_write"} /\ WritesBlock(e, L)
     /\ IF l = "fw_slot" THEN Sect(L) >= NDIRECT ELSE PlainBlock(e, L)
\* and its table,
WritingTable(e, l, L) ==
  \/ l = "tab_zero" /\ Writes(e, L) /\ Room(L) /\ Sect(L) = NDIRECT
  \/ l = "tab_read" /\ Writes(e, L) /\ Sect(L) >= NDIRECT
     /\ {"lba", "ret"} \subseteq DOMAIN L /\ L.lba # 0 /\ Tab_of(e, e.no[L.inode], L.lba)
     /\ (L.ret = "fw_loop" \/ (L.ret = "fw_slot" /\ Room(L)))
  \/ l = "tab_write" /\ Writes(e, L) /\ Tabled(e, L)
     /\ "lba" \in DOMAIN L /\ Tab_of(e, e.no[L.inode], L.lba)
\* reading one.
Reading(l, L) ==
  /\ l \in {"fr_loop", "fr_slot", "fr_read", "tab_read"} /\ Reads(L)
  /\ l = "tab_read" => "ret" \in DOMAIN L /\ L.ret = "fr_slot"

LocalsOf(e, l, L) ==
  \/ l = "out" /\ L = << >>
  \/ Looking(e, l, L) \/ Creating(e, l, L) \/ Allocating(e, l, L) \/ Syncing(e, l, L)
  \/ Writing(e, l, L) \/ WritingTable(e, l, L) \/ Reading(l, L)

\* The table it has in hand.
TableIn(e, L) ==
  L # << >> /\ L.call = "write" /\ "tab" \in DOMAIN L =>
    L.tab = NULL \/ (Inode_in(e, L) /\ Tabled(e, L))
LocalsOK(e, l, L) == LocalsOf(e, l, L) /\ TableIn(e, L)

Owners(e) ==
  /\ Allocated(e) /\ inode_bitmap \subseteq Ino
  /\ OnTheDisk(e, disk) /\ InMemoryOf(e, open_inodes) /\ Entered(open_inodes, dentries)
  /\ cwd \in DOMAIN dentries
  /\ DOMAIN pc = Proc /\ DOMAIN loc = Proc
  /\ \A p \in Proc : LocalsOK(e, pc[p], loc[p])

-----------------------------------------------------------------------------
\* Descriptors: L is of a process that opens, that has taken a slot.
Opens(L) == L # << >> /\ L.call = "open"
Took(L) == Opens(L) /\ "f" \in DOMAIN L

\* Slot s is that of descriptor fd, which a call has returned or is about to.
Uses(fd, s) ==
  \/ fd \in Returned /\ fd_array[fd] = s
  \/ \E p \in Proc : Took(loc[p]) /\ loc[p].fd = fd /\ loc[p].f = s

\* Who opens has a descriptor of his own.
Numbered ==
  /\ open_fds \subseteq Fd
  /\ \A p \in Proc : Opens(loc[p]) => "fd" \in DOMAIN loc[p] /\ loc[p].fd \in open_fds
  /\ \A p, q \in Proc : Opens(loc[p]) /\ Opens(loc[q]) /\ loc[p].fd = loc[q].fd => p = q

\* A slot is of one descriptor if it is in use, of none if not.
Slotted ==
  /\ \A fd \in Fd : \A s : Uses(fd, s) =>
       s \in Slot /\ file_table[s].count = 1 /\ file_table[s].f_dentry \in DOMAIN dentries
  /\ \A fd, gd \in Fd : \A s : Uses(fd, s) /\ Uses(gd, s) => fd = gd
  /\ \A s \in Slot : file_table[s].count = 1 => \E fd \in Fd : Uses(fd, s)

OpenFile == [count : {0, 1}, pos : Nat, f_dentry : Nat]
Descriptors ==
  /\ DOMAIN fd_array = Fd /\ file_table \in [Slot -> OpenFile]
  /\ Numbered /\ Slotted

OwnInv == \E who \in [Block -> Ino], tabs \in SUBSET Block : Owners(View(who, tabs))
IInv == Descriptors /\ OwnInv

\* The owners as everybody sees them: e is what a step begins with.
Seen(e) == \E who \in [Block -> Ino], tabs \in SUBSET Block : e = View(who, tabs) /\ Owners(e)
-----------------------------------------------------------------------------
\* The least and the greatest of a set of naturals.
LEMMA LeastIn == ASSUME NEW S \in SUBSET Nat, S # {} PROVE Min(S) \in S /\ \A n \in S : Min(S) <= n
<1>1. PICK n \in S : \A m \in S : << m, n >> \notin OpToRel(<, Nat)
  BY WFMin, NatLessThanWellFounded
<1>2. \A m \in S : n <= m
  <2> SUFFICES ASSUME NEW m \in S, m < n PROVE FALSE
    OBVIOUS
  <2>1. << m, n >> \in OpToRel(<, Nat)
    BY DEF OpToRel
  <2>2. QED
    BY <1>1, <2>1
<1>3. QED
  BY <1>2 DEF Min

\* The greatest of a set of numbers up to n is in it.
LEMMA GreatestIn ==
  ASSUME NEW n \in Nat, NEW S \in SUBSET (0 .. n), S # {}
  PROVE  Max(S) \in S /\ \A j \in S : j <= Max(S)
<1> DEFINE T == { n - i : i \in S }
<1>1. T \in SUBSET Nat /\ T # {}
  OBVIOUS
<1>2. Min(T) \in T /\ \A m \in T : Min(T) <= m
  <2> HIDE DEF T
  <2>1. QED
    BY <1>1, LeastIn
<1>3. PICK i \in S : Min(T) = n - i
  BY <1>2
<1>4. \A j \in S : j <= i
  <2> SUFFICES ASSUME NEW j \in S PROVE j <= i
    OBVIOUS
  <2>1. n - j \in T
    OBVIOUS
  <2>2. i \in 0 .. n /\ j \in 0 .. n
    OBVIOUS
  <2>3. n - i <= n - j
    BY <1>2, <1>3, <2>1
  <2>4. QED
    BY <2>2, <2>3
<1>5. QED
  BY <1>4 DEF Max

\* What appending does to a sequence of whatever.
LEMMA Appended ==
  ASSUME NEW s, s \in Seq(Range(s)), NEW e
  PROVE  /\ Len(s) \in Nat /\ DOMAIN s = 1 .. Len(s)
         /\ LET r == Append(s, e)
            IN /\ r \in Seq(Range(r)) /\ r # << >> /\ Len(r) = Len(s) + 1
               /\ DOMAIN r = 1 .. Len(s) + 1
               /\ \A i \in DOMAIN s : r[i] = s[i]
               /\ r[Len(s) + 1] = e
<1> DEFINE S == Range(s) \cup {e}
           r == Append(s, e)
<1>1. Len(s) \in Nat /\ DOMAIN s = 1 .. Len(s)
  BY LenProperties
<1>2. s \in Seq(S) /\ e \in S
  BY <1>1, LenProperties
<1>3. /\ r \in Seq(S) /\ r # << >> /\ Len(r) = Len(s) + 1
      /\ \A i \in 1 .. Len(s) : r[i] = s[i]
      /\ r[Len(s) + 1] = e
  <2> HIDE DEF S
  <2>1. QED
    BY <1>2, AppendProperties
<1>4. r \in Seq(Range(r)) /\ DOMAIN r = 1 .. Len(r)
  <2> HIDE DEF r, S
  <2>1. QED
    BY <1>3, SeqOfRange, LenProperties
<1>5. QED
  BY <1>1, <1>3, <1>4

\* A call goes on: what it knew of the owners of blocks still holds when others have
\* allocated, written and opened more.
Grows(e, f) ==
  /\ e.synced \subseteq e.used
  /\ e.synced \subseteq f.synced /\ e.used \subseteq f.used
  /\ \A b \in e.used : f.who[b] = e.who[b] /\ (b \in f.tabs <=> b \in e.tabs)
  /\ DOMAIN e.no \subseteq DOMAIN f.no /\ \A i \in DOMAIN e.no : f.no[i] = e.no[i]
  /\ DOMAIN e.inode \subseteq DOMAIN f.inode /\ \A d \in DOMAIN e.inode : f.inode[d] = e.inode[d]
  /\ \A d \in DOMAIN e.inode : e.inode[d] \in DOMAIN e.no

\* Pointers stay those of inode k when the owners grow,
LEMMA GrowsPointers ==
  ASSUME NEW e, NEW f, Grows(e, f), NEW k
  PROVE  /\ \A s : SectorsOf(e, k, s) => SectorsOf(f, k, s)
         /\ \A tab : TableOf(e, k, tab) => TableOf(f, k, tab)
         /\ \A x : Tab_of(e, k, x) => Tab_of(f, k, x)
         /\ \A x : Data_of(e, k, x) => Data_of(f, k, x)
BY DEF Grows, SectorsOf, TableOf, Tab_of, Data_of

\* and so does what a process holds.
LEMMA GrowsLocals ==
  ASSUME NEW e, NEW f, Grows(e, f), NEW l, NEW L, LocalsOK(e, l, L)
  PROVE  LocalsOK(f, l, L)
<1>1. Inode_in(e, L) => Inode_in(f, L) /\ f.no[L.inode] = e.no[L.inode]
  BY DEF Grows, Inode_in
<1>2. /\ Walks(e, L) => Walks(f, L)
      /\ Creates(e, L) => Creates(f, L)
      /\ PlainBlock(e, L) => PlainBlock(f, L)
  BY <1>1 DEF Grows, Walks, Creates, PlainBlock
<1>3. /\ Inode_in(e, L) /\ Tabled(e, L) => Tabled(f, L)
      /\ Writes(e, L) => Writes(f, L)
      /\ WritesBlock(e, L) => WritesBlock(f, L)
  BY <1>1, GrowsPointers DEF Tabled, Writes, WritesBlock
<1>4. \A r : Awaits(e, r, L) => Awaits(f, r, L) /\ ForInode(f, r, L) = ForInode(e, r, L)
  BY <1>1, <1>2, <1>3 DEF Awaits, ForInode, Grows, Creates, WritesBlock, Writes
<1>5. \A r : Awaits(e, r, L) =>
        /\ Given(e, r, L, e.used) => Given(f, r, L, f.used)
        /\ Given(e, r, L, e.synced) => Given(f, r, L, f.synced)
  BY <1>4 DEF Given, Grows
<1>6. Syncs(e, L) => Syncs(f, L)
  BY <1>1, GrowsPointers DEF Syncs
<1>7. \A b : InodesOf(e, b) => InodesOf(f, b)
  BY GrowsPointers DEF InodesOf
<1>8. TableIn(f, L)
  BY <1>1, <1>3 DEF TableIn, LocalsOK
<1>9. /\ Looking(e, l, L) => Looking(f, l, L)
      /\ Creating(e, l, L) => Creating(f, l, L)
  BY <1>2 DEF Looking, Creating
<1>10. Allocating(e, l, L) => Allocating(f, l, L)
  BY <1>4, <1>5 DEF Allocating
<1>11. Syncing(e, l, L) => Syncing(f, l, L)
  BY <1>6, <1>7 DEF Syncing
<1>12. Writing(e, l, L) => Writing(f, l, L)
  BY <1>2, <1>3 DEF Writing, Writes, WritesBlock
<1>13. WritingTable(e, l, L) => WritingTable(f, l, L)
  <2>1. Writes(e, L) => (Tab_of(e, e.no[L.inode], L.lba) => Tab_of(f, f.no[L.inode], L.lba))
    BY <1>1, GrowsPointers DEF Writes
  <2>2. Writes(e, L) => Inode_in(e, L)
    BY DEF Writes
  <2>3. QED
    BY <2>1, <2>2, <1>3 DEF WritingTable
<1>14. QED
  BY <1>8, <1>9, <1>10, <1>11, <1>12, <1>13 DEF LocalsOK, LocalsOf
\* The disk and the inodes, seen by later owners.
LEMMA GrowsStores ==
  ASSUME NEW e, NEW f, Grows(e, f), f.synced \subseteq Block
  PROVE  /\ \A d : OnTheDisk(e, d) => OnTheDisk(f, d)
         /\ \A m : InMemoryOf(e, m) => InMemoryOf(f, m)
<1>1. \A d : InodesOf(e, d) => InodesOf(f, d)
  BY GrowsPointers DEF InodesOf
<1>2. ASSUME NEW d, OnTheDisk(e, d), NEW b \in f.synced \cap f.tabs
      PROVE  d.block[b] = Dirty \/ TableOf(f, f.who[b], d.block[b])
  <2>1. CASE b \in e.synced
    <3>1. b \in e.synced \cap e.tabs /\ f.who[b] = e.who[b]
      BY <2>1, <1>2 DEF Grows
    <3>2. d.block[b] = Dirty \/ TableOf(e, e.who[b], d.block[b])
      BY <3>1, <1>2 DEF OnTheDisk
    <3>3. QED
      BY <3>1, <3>2, GrowsPointers
  <2>2. CASE b \notin e.synced
    BY <2>2, <1>2 DEF OnTheDisk
  <2>3. QED
    BY <2>1, <2>2
<1>3. ASSUME NEW d, OnTheDisk(e, d) PROVE OnTheDisk(f, d)
  <2>1. \A b \in Block \ f.synced : d.block[b] = Dirty
    BY <1>3 DEF OnTheDisk, Grows
  <2>2. QED
    BY <1>1, <1>2, <1>3, <2>1 DEF OnTheDisk
<1>4. \A m : InMemoryOf(e, m) => InMemoryOf(f, m)
  BY GrowsPointers DEF InMemoryOf
<1>5. QED
  BY <1>3, <1>4

\* What a process at a label has in its local variables.
LEMMA LocalsAt ==
  ASSUME NEW e, NEW l, NEW L, LocalsOK(e, l, L)
  PROVE  /\ TableIn(e, L)
         /\ l = "out" => L = << >>
         /\ l \in {"walk", "search", "iget"} => Looking(e, l, L)
         /\ l \in {"dirw", "dirw_read", "dirw_write", "dot_write", "dirw_end"} => Creating(e, l, L)
         /\ l \in {"alloc", "bsync", "dirw_zero", "dot", "fw_got", "fw_table"} => Allocating(e, l, L)
         /\ l \in {"isync_read", "isync_write", "ibsync", "ibsync_write", "created", "fw_done"}
              => Syncing(e, l, L)
         /\ l \in {"fw_loop", "fw_slot", "fw_read", "fw_write"} => Writing(e, l, L)
         /\ l \in {"tab_zero", "tab_write"} => WritingTable(e, l, L)
         /\ l \in {"fr_loop", "fr_slot", "fr_read"} => Reading(l, L)
         /\ l = "tab_read" => WritingTable(e, l, L) \/ Reading(l, L)
<1>1. Awaits(e, l, L) => l \in {"dirw_zero", "dot", "fw_got", "fw_table"}
  BY DEF Awaits
<1>2. QED
  BY <1>1 DEF LocalsOK, LocalsOf, Looking, Creating, Allocating, Syncing, Writing, WritingTable, Reading

\* A step after which the owners are the same, or there are more.
Grown(e) == \E f : Grows(e, f) /\ Seen(f)'

\* A step of p that leaves everybody what he knows.
LEMMA Step ==
  ASSUME NEW e, Owners(e), NEW p \in Proc,
         NEW who \in [Block -> Ino], NEW tabs \in SUBSET Block, NEW f, f = View(who, tabs)',
         Grows(e, f), Allocated(f), inode_bitmap' \subseteq Ino,
         OnTheDisk(f, disk'), InMemoryOf(f, open_inodes'),
         Entered(open_inodes', dentries'), cwd' \in DOMAIN dentries',
         DOMAIN pc' = Proc, DOMAIN loc' = Proc,
         \A q \in Proc \ {p} : pc'[q] = pc[q] /\ loc'[q] = loc[q],
         LocalsOK(f, pc'[p], loc'[p])
  PROVE  Grown(e)
<1>1. ASSUME NEW q \in Proc PROVE LocalsOK(f, pc'[q], loc'[q])
  <2>1. CASE q = p
    BY <2>1
  <2>2. CASE q # p
    <3>1. LocalsOK(e, pc[q], loc[q])
      BY DEF Owners
    <3>2. LocalsOK(f, pc[q], loc[q])
      BY <3>1, GrowsLocals
    <3>3. QED
      BY <2>2, <3>2
  <2>3. QED
    BY <2>1, <2>2
<1>2. Owners(f)'
  BY <1>1 DEF Owners
<1>3. Seen(f)'
  BY <1>2 DEF Seen
<1>4. QED
  BY <1>3 DEF Grown

\* The owners as everybody sees them.
LEMMA Same ==
  ASSUME NEW e, Seen(e)
  PROVE  /\ Owners(e) /\ Grows(e, e)
         /\ e.synced = disk.bbits /\ e.used = block_bitmap
         /\ DOMAIN e.no = DOMAIN open_inodes
         /\ \A i \in DOMAIN open_inodes : e.no[i] = open_inodes[i].no
         /\ DOMAIN e.inode = DOMAIN dentries
         /\ \A d \in DOMAIN dentries : e.inode[d] = dentries[d].inode
<1>1. PICK who \in [Block -> Ino], tabs \in SUBSET Block : e = View(who, tabs) /\ Owners(e)
  BY DEF Seen
<1>2. /\ e.synced = disk.bbits /\ e.used = block_bitmap
      /\ e.no = [i \in DOMAIN open_inodes |-> open_inodes[i].no]
      /\ e.inode = [d \in DOMAIN dentries |-> dentries[d].inode]
  BY <1>1 DEF View
<1>3. Grows(e, e)
  BY <1>1, <1>2 DEF Grows, Owners, Allocated, Entered
<1>4. QED
  BY <1>1, <1>2, <1>3

\* A step that changes local variables only.
LEMMA LocalStep ==
  ASSUME NEW e, Seen(e), UNCHANGED << disk, memory, dentries >>, cwd' \in DOMAIN dentries,
         NEW p \in Proc, NEW l, NEW L, pc' = [pc EXCEPT ![p] = l],
         loc' = [loc EXCEPT ![p] = L] \/ (UNCHANGED loc /\ L = loc[p]),
         LocalsOK(e, l, L)
  PROVE  Grown(e)
<1>1. PICK who \in [Block -> Ino], tabs \in SUBSET Block : e = View(who, tabs)'
  BY DEF Seen, View, memory
<1>2. /\ DOMAIN pc' = Proc /\ DOMAIN loc' = Proc /\ pc'[p] = l /\ loc'[p] = L
      /\ \A q \in Proc \ {p} : pc'[q] = pc[q] /\ loc'[q] = loc[q]
  BY Same DEF Owners
<1>3. /\ Grows(e, e) /\ Allocated(e) /\ inode_bitmap' \subseteq Ino
      /\ OnTheDisk(e, disk') /\ InMemoryOf(e, open_inodes')
      /\ Entered(open_inodes', dentries')
  BY Same DEF Owners, memory
<1>4. LocalsOK(e, pc'[p], loc'[p])
  BY <1>2
<1>5. QED
  BY <1>1, <1>2, <1>3, <1>4, Same, Step

\* A step that changes nothing that is owned.
LEMMA NoStep ==
  ASSUME NEW e, Seen(e), UNCHANGED << disk, memory, dirs, pc, loc >>
  PROVE  Grown(e)
<1>1. Seen(e)'
  BY DEF Seen, Owners, View, memory, dirs
<1>2. QED
  BY <1>1, Same DEF Grown

\* What each label says of the process that is there.
LEMMA Known ==
  ASSUME NEW e, Seen(e), NEW p \in Proc
  PROVE  LET l == pc[p]
             L == loc[p]
         IN /\ TableIn(e, L)
            /\ l \in {"walk", "search", "iget"} => Looking(e, l, L)
            /\ l \in {"dirw", "dirw_read", "dirw_write", "dot_write", "dirw_end"} => Creating(e, l, L)
            /\ l \in {"alloc", "bsync", "dirw_zero", "dot", "fw_got", "fw_table"} => Allocating(e, l, L)
            /\ l \in {"isync_read", "isync_write", "ibsync", "ibsync_write", "created", "fw_done"}
                 => Syncing(e, l, L)
            /\ l \in {"fw_loop", "fw_slot", "fw_read", "fw_write"} => Writing(e, l, L)
            /\ l \in {"tab_zero", "tab_write"} => WritingTable(e, l, L)
            /\ l \in {"fr_loop", "fr_slot", "fr_read"} => Reading(l, L)
            /\ l = "tab_read" => WritingTable(e, l, L) \/ Reading(l, L)
<1>1. LocalsOK(e, pc[p], loc[p])
  BY Same DEF Owners
<1>2. QED
  BY <1>1, LocalsAt

\* A step that returns.
LEMMA ReturnStep ==
  ASSUME NEW e, Seen(e), UNCHANGED << disk, memory, dentries >>, cwd' \in DOMAIN dentries,
         NEW p \in Proc, Return(p)
  PROVE  Grown(e)
<1>1. LocalsOK(e, "out", << >>)
  BY DEF LocalsOK, LocalsOf, TableIn
<1>2. QED
  BY <1>1, LocalStep DEF Return, Local, ThenAt

-----------------------------------------------------------------------------
\* A call that looks for a name has no table.
LEMMA LookingOK ==
  ASSUME NEW e, NEW l, NEW L, Looking(e, l, L) PROVE LocalsOK(e, l, L)
BY DEF Looking, Walks, Call_in, LocalsOK, LocalsOf, TableIn

\* A call with a path begins at the root or the current directory.
LEMMA ParsePath ==
  ASSUME NEW e, Seen(e), UNCHANGED << disk, memory, dirs >>, NEW p \in Proc, NEW path, NEW r,
         parse_path(p, r, path), DOMAIN r \subseteq {"call", "fd", "creat"},
         "fd" \in DOMAIN r, Call_in(r, {"open", "mkdir", "chdir"})
  PROVE  Grown(e)
<1> DEFINE absolute == path # << >> /\ path[1] = "/"
           start == IF absolute THEN 1 ELSE cwd
           L == r ++ [path |-> IF absolute THEN Tail(path) ELSE path,
                      parent |-> start, child |-> start, name |-> NULL]
<1>1. start \in DOMAIN e.inode
  <2>1. 1 \in DOMAIN dentries
    BY Same, Appended DEF Owners, Entered
  <2>2. QED
    BY <2>1, Same DEF Owners
<1>2. Looking(e, "walk", L)
  BY <1>1 DEF Looking, Walks, Call_in, ++
<1>3. loc' = [loc EXCEPT ![p] = L] /\ pc' = [pc EXCEPT ![p] = "walk"]
  BY DEF parse_path, Local, ThenAt
<1>4. cwd' \in DOMAIN dentries /\ UNCHANGED << disk, memory, dentries >>
  BY Same DEF Owners, dirs
<1> HIDE DEF L
<1>5. QED
  BY <1>2, <1>3, <1>4, LookingOK, LocalStep

\* The search of a directory's blocks goes on, or is over.
LEMMA SearchFrom ==
  ASSUME NEW e, Seen(e), UNCHANGED << disk, memory, dirs >>, NEW p \in Proc,
         NEW parent, NEW idx, NEW r, search_from(p, parent, idx, r), Walks(e, r)
  PROVE  Grown(e)
<1> DEFINE more == { i \in idx .. NDIRECT - 1 : DirInode(parent).sectors[i] # 0 }
           K == [child |-> 0] ++ Restrict(r, DOMAIN r \ {"idx", "lba"})
           M == [idx |-> Min(more), lba |-> DirInode(parent).sectors[Min(more)]] ++ r
<1>1. Looking(e, "walk", K) /\ Looking(e, "search", M)
  BY DEF Looking, Walks, Call_in, Restrict, ++
<1>2. \/ loc' = [loc EXCEPT ![p] = K] /\ pc' = [pc EXCEPT ![p] = "walk"]
      \/ loc' = [loc EXCEPT ![p] = M] /\ pc' = [pc EXCEPT ![p] = "search"]
  BY DEF search_from, Local, ThenAt
<1>3. cwd' \in DOMAIN dentries /\ UNCHANGED << disk, memory, dentries >>
  BY Same DEF Owners, dirs
<1> HIDE DEF K, M
<1>4. QED
  BY <1>1, <1>2, <1>3, LookingOK, LocalStep
\* What a new entry does to the entries in memory, and a new inode to the inodes.
LEMMA Entering ==
  ASSUME NEW m, NEW ds, Entered(m, ds), NEW n, DOMAIN m \subseteq DOMAIN n,
         NEW parent \in DOMAIN ds, NEW name, NEW i \in DOMAIN n
  PROVE  LET es == Append(ds, Dentry(parent, name, i))
         IN /\ Entered(n, es) /\ DOMAIN ds \subseteq DOMAIN es
            /\ \A d \in DOMAIN ds : es[d] = ds[d]
            /\ Len(es) = Len(ds) + 1 /\ Len(es) \in DOMAIN es
<1> DEFINE es == Append(ds, Dentry(parent, name, i))
<1>1. /\ Len(ds) \in Nat /\ DOMAIN ds = 1 .. Len(ds)
      /\ es \in Seq(Range(es)) /\ es # << >> /\ Len(es) = Len(ds) + 1
      /\ DOMAIN es = 1 .. Len(ds) + 1
      /\ \A d \in DOMAIN ds : es[d] = ds[d]
      /\ es[Len(ds) + 1] = Dentry(parent, name, i)
  <2>1. ds \in Seq(Range(ds))
    BY DEF Entered
  <2> HIDE DEF es
  <2>2. QED
    BY <2>1, Appended DEF es
<1> HIDE DEF es
<1>2. \A d \in DOMAIN es : /\ DOMAIN es[d] = {"name", "parent", "inode", "count"}
                           /\ es[d].parent \in DOMAIN es /\ es[d].inode \in DOMAIN n
  <2> SUFFICES ASSUME NEW d \in DOMAIN es
               PROVE  /\ DOMAIN es[d] = {"name", "parent", "inode", "count"}
                      /\ es[d].parent \in DOMAIN es /\ es[d].inode \in DOMAIN n
    OBVIOUS
  <2>1. CASE d \in DOMAIN ds
    BY <1>1, <2>1 DEF Entered
  <2>2. CASE d = Len(ds) + 1
    BY <1>1, <2>2 DEF Dentry
  <2>3. QED
    BY <1>1, <2>1, <2>2
<1>3. Entered(n, es)
  BY <1>1, <1>2 DEF Entered
<1>4. DOMAIN ds \subseteq DOMAIN es /\ Len(es) \in DOMAIN es
  BY <1>1
<1>5. QED
  BY <1>1, <1>3, <1>4 DEF es

\* Another inode comes into memory.
LEMMA Linking ==
  ASSUME NEW e, NEW m, InMemoryOf(e, m), NEW i \in MemInode, SectorsOf(e, i.no, i.sectors)
  PROVE  LET n == Append(m, i)
         IN /\ InMemoryOf(e, n) /\ DOMAIN m \subseteq DOMAIN n
            /\ \A j \in DOMAIN m : n[j] = m[j]
            /\ Len(n) \in DOMAIN n /\ n[Len(n)] = i
<1> DEFINE n == Append(m, i)
<1>1. m \in Seq(MemInode)
  BY DEF InMemoryOf
<1>2. /\ Len(m) \in Nat /\ DOMAIN m = 1 .. Len(m)
      /\ n \in Seq(MemInode) /\ Len(n) = Len(m) + 1
      /\ \A j \in 1 .. Len(m) : n[j] = m[j]
      /\ n[Len(m) + 1] = i
  BY <1>1, LenProperties, AppendProperties
<1>3. DOMAIN n = 1 .. Len(m) + 1
  <2> HIDE DEF n
  <2>1. QED
    BY <1>2, LenProperties
<1> HIDE DEF n
<1>4. \A j \in DOMAIN n : SectorsOf(e, n[j].no, n[j].sectors)
  BY <1>2, <1>3 DEF InMemoryOf
<1>5. QED
  BY <1>2, <1>3, <1>4 DEF InMemoryOf, n

\* A step after which more inodes and entries are in memory.
LEMMA MoreStep ==
  ASSUME NEW e, Seen(e), UNCHANGED << disk, block_bitmap, cwd >>, inode_bitmap' \subseteq Ino,
         NEW p \in Proc, NEW l, NEW L, pc' = [pc EXCEPT ![p] = l] \/ (UNCHANGED pc /\ l = pc[p]),
         loc' = [loc EXCEPT ![p] = L] \/ (UNCHANGED loc /\ L = loc[p]),
         InMemoryOf(e, open_inodes'), DOMAIN open_inodes \subseteq DOMAIN open_inodes',
         \A i \in DOMAIN open_inodes : open_inodes'[i].no = open_inodes[i].no,
         Entered(open_inodes', dentries'), DOMAIN dentries \subseteq DOMAIN dentries',
         \A d \in DOMAIN dentries : dentries'[d].inode = dentries[d].inode,
         \A f : /\ Grows(e, f) /\ f.synced = e.synced /\ f.used = e.used
                /\ DOMAIN f.no = DOMAIN open_inodes'
                /\ \A i \in DOMAIN f.no : f.no[i] = open_inodes'[i].no
                /\ DOMAIN f.inode = DOMAIN dentries'
                /\ \A d \in DOMAIN f.inode : f.inode[d] = dentries'[d].inode
                => LocalsOK(f, l, L)
  PROVE  Grown(e)
<1>1. PICK who \in [Block -> Ino], tabs \in SUBSET Block : e = View(who, tabs) /\ Owners(e)
  BY DEF Seen
<1> DEFINE f == View(who, tabs)'
<1>2. /\ f.who = e.who /\ f.tabs = e.tabs /\ f.synced = e.synced /\ f.used = e.used
      /\ DOMAIN f.no = DOMAIN open_inodes' /\ \A i \in DOMAIN f.no : f.no[i] = open_inodes'[i].no
      /\ DOMAIN f.inode = DOMAIN dentries'
      /\ \A d \in DOMAIN f.inode : f.inode[d] = dentries'[d].inode
  BY <1>1 DEF View
<1> HIDE DEF f
<1>3. Grows(e, f)
  BY <1>2, Same DEF Grows
<1>4. Allocated(f) /\ f.synced \subseteq Block
  BY <1>1, <1>2 DEF Allocated, Owners
<1>5. OnTheDisk(f, disk') /\ InMemoryOf(f, open_inodes')
  BY <1>1, <1>3, <1>4, GrowsStores DEF Owners
<1>6. /\ DOMAIN pc' = Proc /\ DOMAIN loc' = Proc /\ pc'[p] = l /\ loc'[p] = L
      /\ \A q \in Proc \ {p} : pc'[q] = pc[q] /\ loc'[q] = loc[q]
  BY <1>1 DEF Owners
<1>7. LocalsOK(f, pc'[p], loc'[p])
  BY <1>2, <1>3, <1>6
<1>8. cwd' \in DOMAIN dentries'
  BY <1>1 DEF Owners
<1>9. QED
  BY <1>1, <1>3, <1>4, <1>5, <1>6, <1>7, <1>8, Step DEF f
\* Latest() and Cached() find what is there, or 0.
LEMMA Finds ==
  ASSUME NEW e, Seen(e)
  PROVE  /\ \A k : Latest(k) \in DOMAIN open_inodes \cup {0}
         /\ \A d, n : Cached(d, n) \in DOMAIN dentries \cup {0}
<1>1. Len(open_inodes) \in Nat /\ DOMAIN open_inodes = 1 .. Len(open_inodes)
  <2>1. open_inodes \in Seq(MemInode)
    BY Same DEF Owners, InMemoryOf
  <2>2. QED
    BY <2>1, LenProperties
<1>2. Len(dentries) \in Nat /\ DOMAIN dentries = 1 .. Len(dentries)
  <2>1. dentries \in Seq(Range(dentries))
    BY Same DEF Owners, Entered
  <2>2. QED
    BY <2>1, LenProperties
<1>3. ASSUME NEW k PROVE Latest(k) \in DOMAIN open_inodes \cup {0}
  <2> DEFINE S == {0} \cup { i \in DOMAIN open_inodes : open_inodes[i].no = k }
  <2>1. S \in SUBSET (0 .. Len(open_inodes)) /\ S # {}
    BY <1>1
  <2>2. Max(S) \in S
    <3> HIDE DEF S
    <3>1. QED
      BY <1>1, <2>1, GreatestIn
  <2>3. QED
    BY <2>2 DEF Latest
<1>4. ASSUME NEW d, NEW n PROVE Cached(d, n) \in DOMAIN dentries \cup {0}
  <2> DEFINE S == {0} \cup { c \in DOMAIN dentries \ {1} : dentries[c].parent = d /\ dentries[c].name = n }
  <2>1. S \in SUBSET (0 .. Len(dentries)) /\ S # {}
    BY <1>2
  <2>2. Max(S) \in S
    <3> HIDE DEF S
    <3>1. QED
      BY <1>2, <2>1, GreatestIn
  <2>3. QED
    BY <2>2 DEF Cached
<1>5. QED
  BY <1>3, <1>4

\* The local variables of a walk that has come to an entry.
LEMMA Walked ==
  ASSUME NEW e, NEW L, Walks(e, L), NEW f, Grows(e, f), NEW c \in DOMAIN f.inode
  PROVE  LocalsOK(f, "walk", [child |-> c] ++ Restrict(L, DOMAIN L \ {"idx", "lba", "no"}))
<1> DEFINE K == [child |-> c] ++ Restrict(L, DOMAIN L \ {"idx", "lba", "no"})
<1>1. Looking(f, "walk", K)
  BY DEF Looking, Walks, Call_in, Restrict, ++, Grows
<1> HIDE DEF K
<1>2. QED
  BY <1>1, LookingOK DEF K

\* A use of an entry is counted.
Used(ds, c, n) == [ds EXCEPT ![c].count = n]

\* A use count changes.
LEMMA Counts ==
  ASSUME NEW m, NEW ds, Entered(m, ds), NEW c \in DOMAIN ds, NEW n
  PROVE  LET es == Used(ds, c, n)
         IN /\ Entered(m, es) /\ DOMAIN es = DOMAIN ds
            /\ \A d \in DOMAIN ds : es[d].inode = ds[d].inode /\ es[d].parent = ds[d].parent
<1> DEFINE es == Used(ds, c, n)
           S == Range(ds) \cup {[ds[c] EXCEPT !.count = n]}
<1>1. ds \in Seq(Range(ds)) /\ Len(ds) \in Nat /\ DOMAIN ds = 1 .. Len(ds)
  BY LenProperties DEF Entered
<1>2. ds \in Seq(S) /\ [ds[c] EXCEPT !.count = n] \in S
  BY <1>1, LenProperties
<1>3. es \in Seq(S) /\ Len(es) = Len(ds)
  <2> HIDE DEF S
  <2>1. QED
    BY <1>1, <1>2, ExceptSeq DEF Used
<1>4. DOMAIN es = DOMAIN ds /\ es # << >> /\ es \in Seq(Range(es))
  <2>1. es \in Seq(Range(es))
    <3> HIDE DEF es, S
    <3>1. QED
      BY <1>3, SeqOfRange
  <2>2. QED
    BY <1>1, <1>3, <2>1 DEF Entered
<1>5. \A d \in DOMAIN ds : /\ es[d].inode = ds[d].inode /\ es[d].parent = ds[d].parent
                           /\ DOMAIN es[d] = {"name", "parent", "inode", "count"}
  <2> SUFFICES ASSUME NEW d \in DOMAIN ds
               PROVE  /\ es[d].inode = ds[d].inode /\ es[d].parent = ds[d].parent
                      /\ DOMAIN es[d] = {"name", "parent", "inode", "count"}
    OBVIOUS
  <2>1. DOMAIN ds[d] = {"name", "parent", "inode", "count"}
    BY DEF Entered
  <2>2. es[d] = IF d = c THEN [ds[d] EXCEPT !.count = n] ELSE ds[d]
    BY DEF Used
  <2> HIDE DEF es
  <2>3. QED
    BY <2>1, <2>2
<1> HIDE DEF es
<1>6. QED
  BY <1>4, <1>5 DEF Entered, es

\* The next name of a path: it is in the cache, or the directory's blocks are searched.
LEMMA SearchDentry ==
  ASSUME NEW e, Seen(e), NEW p \in Proc, search_dentry(p) PROVE Grown(e)
<1> DEFINE parent == loc[p].child
           n == Head(loc[p].path)
           c == Cached(parent, n)
           r == [parent |-> parent, name |-> n, path |-> Tail(loc[p].path)] ++ loc[p]
<1>1. Walks(e, loc[p]) /\ parent \in DOMAIN dentries
  <2>1. pc[p] = "walk" /\ loc[p].child # 0
    BY DEF search_dentry, Runs, At
  <2>2. Looking(e, pc[p], loc[p]) /\ DOMAIN e.inode = DOMAIN dentries
    BY <2>1, Known, Same
  <2>3. QED
    BY <2>1, <2>2 DEF Looking, Walks
<1>2. Walks(e, r)
  BY <1>1, Same DEF Walks, Call_in, ++
<1>3. ASSUME NEW d \in DOMAIN dentries PROVE LocalsOK(e, "walk", [child |-> d] ++ r)
  <2>1. Looking(e, "walk", [child |-> d] ++ r)
    <3> HIDE DEF r
    <3>1. QED
      BY <1>2, Same DEF Looking, Walks, Call_in, ++
  <2>2. QED
    BY <2>1, LookingOK
<1>4. UNCHANGED << disk, memory, cwd >>
  BY DEF search_dentry
<1> HIDE DEF r
<1>5. CASE /\ loc' = [loc EXCEPT ![p] = [child |-> IF n = "." THEN parent ELSE dentries[parent].parent] ++ r]
           /\ pc' = [pc EXCEPT ![p] = "walk"] /\ UNCHANGED dentries
  <2> DEFINE d == IF n = "." THEN parent ELSE dentries[parent].parent
  <2>1. d \in DOMAIN dentries /\ cwd' \in DOMAIN dentries
    BY <1>1, <1>4, Same DEF Owners, Entered
  <2> HIDE DEF d
  <2>2. LocalsOK(e, "walk", [child |-> d] ++ r)
    BY <1>3, <2>1
  <2>3. QED
    BY <1>4, <1>5, <2>1, <2>2, LocalStep DEF d
<1>6. CASE /\ c # 0 /\ dentries' = [dentries EXCEPT ![c].count = Counted(@)]
           /\ loc' = [loc EXCEPT ![p] = [child |-> c] ++ r] /\ pc' = [pc EXCEPT ![p] = "walk"]
  <2>1. c \in DOMAIN dentries
    BY <1>6, Finds
  <2> HIDE DEF c
  <2> DEFINE k == Counted(dentries[c].count)
  <2>2. dentries' = Used(dentries, c, k) /\ Entered(open_inodes, dentries)
    BY <1>6, Same DEF Owners, Used
  <2> HIDE DEF k
  <2>3. /\ Entered(open_inodes, dentries') /\ DOMAIN dentries' = DOMAIN dentries
        /\ \A d \in DOMAIN dentries : dentries'[d].inode = dentries[d].inode
    BY <2>1, <2>2, Counts
  <2>4. InMemoryOf(e, open_inodes) /\ inode_bitmap \subseteq Ino
    BY Same DEF Owners
  <2>5. \A f : Grows(e, f) => LocalsOK(f, "walk", [child |-> c] ++ r)
    BY <1>3, <2>1, GrowsLocals
  <2>6. QED
    BY <1>4, <1>6, <2>3, <2>4, <2>5, MoreStep DEF memory
<1>7. CASE search_from(p, parent, 0, r) /\ UNCHANGED dentries
  BY <1>2, <1>4, <1>7, SearchFrom DEF dirs
<1>8. QED
  BY <1>5, <1>6, <1>7 DEF search_dentry, Local, ThenAt, r
\* The step that caches an entry for the i-th inode in memory, and goes on with the walk.
LEMMA Enters ==
  ASSUME NEW e, Seen(e), UNCHANGED << disk, block_bitmap, inode_bitmap, cwd >>,
         NEW p \in Proc, Walks(e, loc[p]), InMemoryOf(e, open_inodes'),
         DOMAIN open_inodes \subseteq DOMAIN open_inodes',
         \A j \in DOMAIN open_inodes : open_inodes'[j].no = open_inodes[j].no,
         NEW i \in DOMAIN open_inodes',
         dentries' = Append(dentries, Dentry(loc[p].parent, loc[p].name, i)),
         Walk(p, Len(dentries'))
  PROVE  Grown(e)
<1> DEFINE c == Len(dentries')
           L == [child |-> c] ++ Restrict(loc[p], DOMAIN loc[p] \ {"idx", "lba", "no"})
<1>1. loc[p].parent \in DOMAIN dentries /\ Entered(open_inodes, dentries) /\ inode_bitmap \subseteq Ino
  BY Same DEF Walks, Owners
<1>2. /\ Entered(open_inodes', dentries') /\ DOMAIN dentries \subseteq DOMAIN dentries'
      /\ \A d \in DOMAIN dentries : dentries'[d] = dentries[d]
      /\ c \in DOMAIN dentries'
  BY <1>1, Entering
<1>3. loc' = [loc EXCEPT ![p] = L] /\ pc' = [pc EXCEPT ![p] = "walk"]
  BY DEF Walk, Local, ThenAt
<1>4. \A f : Grows(e, f) /\ DOMAIN f.inode = DOMAIN dentries' => LocalsOK(f, "walk", L)
  <2> HIDE DEF c
  <2>1. QED
    BY <1>2, Walked
<1> HIDE DEF L
<1>5. inode_bitmap' \subseteq Ino
  BY <1>1
<1>6. QED
  BY <1>2, <1>3, <1>4, <1>5, MoreStep

\* A block of a directory has been read.
LEMMA SearchBlock ==
  ASSUME NEW e, Seen(e), NEW p \in Proc, search_block(p) PROVE Grown(e)
<1> DEFINE b == DirAt(loc[p].lba)
           hits == { j \in DOMAIN b : b[j] # NULL /\ b[j].name = loc[p].name }
           k == b[Min(hits)].no
<1>1. Walks(e, loc[p]) /\ pc[p] = "search"
  <2>1. pc[p] = "search"
    BY DEF search_block, Runs, At
  <2>2. Looking(e, pc[p], loc[p])
    BY <2>1, Known
  <2>3. QED
    BY <2>1, <2>2 DEF Looking
<1>2. UNCHANGED << disk, memory, cwd >> /\ inode_bitmap \subseteq Ino
  BY Same DEF search_block, Owners
<1> HIDE DEF b, hits, k
<1>3. CASE UNCHANGED << dentries, pc, loc >>
  BY <1>2, <1>3, NoStep DEF dirs
<1>4. CASE search_from(p, loc[p].parent, loc[p].idx + 1, loc[p]) /\ UNCHANGED dentries
  BY <1>1, <1>2, <1>4, SearchFrom DEF dirs
<1>5. CASE /\ Latest(k) # 0
           /\ dentries' = Append(dentries, Dentry(loc[p].parent, loc[p].name, Latest(k)))
           /\ Walk(p, Len(dentries'))
  <2>1. Latest(k) \in DOMAIN open_inodes /\ InMemoryOf(e, open_inodes)
    BY <1>5, Finds, Same DEF Owners
  <2>2. QED
    BY <1>1, <1>2, <1>5, <2>1, Enters DEF memory
<1>6. CASE k \in inode_bitmap /\ Put(p, [no |-> k]) /\ ThenAt(p, "iget") /\ UNCHANGED dentries
  <2> DEFINE L == [no |-> k] ++ loc[p]
  <2>1. Looking(e, "iget", L)
    BY <1>1, <1>2, <1>6 DEF Looking, Walks, Call_in, ++
  <2>2. loc' = [loc EXCEPT ![p] = L] /\ pc' = [pc EXCEPT ![p] = "iget"]
    BY <1>6 DEF Put, ThenAt
  <2>3. cwd' \in DOMAIN dentries
    BY <1>2, Same DEF Owners
  <2> HIDE DEF L
  <2>4. QED
    BY <1>2, <1>6, <2>1, <2>2, <2>3, LookingOK, LocalStep
<1>7. QED
  BY <1>3, <1>4, <1>5, <1>6 DEF search_block, Panic, b, hits, k

\* An inode has been read, and is linked.
LEMMA InodeOpen ==
  ASSUME NEW e, Seen(e), NEW p \in Proc, inode_open(p) PROVE Grown(e)
<1> DEFINE i == InMemory(disk, loc[p].no)
<1>1. Walks(e, loc[p]) /\ loc[p].no \in Ino
  <2>1. pc[p] = "iget"
    BY DEF inode_open, Runs, At
  <2>2. Looking(e, pc[p], loc[p])
    BY <2>1, Known
  <2>3. QED
    BY <2>1, <2>2 DEF Looking
<1>2. InMemoryOf(e, open_inodes) /\ InodesOf(e, disk.itable)
  BY Same DEF Owners, OnTheDisk
<1>3. i \in MemInode /\ SectorsOf(e, i.no, i.sectors)
  BY <1>1, <1>2 DEF InMemory, InodesOf, MemInode, DiskInode
<1> HIDE DEF i
<1>4. open_inodes' = Append(open_inodes, i)
  BY DEF inode_open, i
<1>5. /\ InMemoryOf(e, open_inodes') /\ DOMAIN open_inodes \subseteq DOMAIN open_inodes'
      /\ \A j \in DOMAIN open_inodes : open_inodes'[j] = open_inodes[j]
      /\ Len(open_inodes') \in DOMAIN open_inodes'
  BY <1>2, <1>3, <1>4, Linking
<1>6. QED
  BY <1>1, <1>5, Enters DEF inode_open

-----------------------------------------------------------------------------
\* A call that writes an entry, and what holds while it does.
LEMMA CreatingOK ==
  ASSUME NEW e, NEW l, NEW L, Creates(e, L),
         \/ Creating(e, l, L)
         \/ Allocating(e, l, L)
  PROVE  LocalsOK(e, l, L)
BY DEF Creates, Call_in, LocalsOK, LocalsOf, TableIn

\* inode_alloc() and the start of dir_write().
LEMMA Create ==
  ASSUME NEW e, Seen(e), UNCHANGED dirs, NEW p \in Proc, NEW dir \in BOOLEAN,
         At(p, "walk"), loc[p].call \in {"open", "mkdir"}, create(p, dir)
  PROVE  Grown(e)
<1> DEFINE k == bitmap_scan(inode_bitmap, Ino)
           i == [no |-> k, dir |-> dir, size |-> 0, sectors |-> NoBlocks]
           L == [call |-> loc[p].call, fd |-> loc[p].fd, parent |-> loc[p].parent,
                 name |-> loc[p].name, inode |-> Len(open_inodes'), idx |-> 0]
<1>1. CASE Ino \subseteq inode_bitmap
  <2>1. UNCHANGED << disk, memory, dirs, pc, loc >>
    BY <1>1 DEF create, Panic
  <2>2. QED
    BY <2>1, NoStep
<1>2. CASE ~(Ino \subseteq inode_bitmap)
  <2>1. k \in Ino
    <3>1. Ino \ inode_bitmap \in SUBSET Nat /\ Ino \ inode_bitmap # {}
      BY <1>2, InodeAssumption DEF Ino
    <3>2. QED
      BY <3>1, LeastIn DEF bitmap_scan
  <2> HIDE DEF k
  <2>2. /\ inode_bitmap' = inode_bitmap \cup {k} /\ open_inodes' = Append(open_inodes, i)
        /\ UNCHANGED << disk, block_bitmap >>
        /\ loc' = [loc EXCEPT ![p] = L] /\ pc' = [pc EXCEPT ![p] = "dirw"]
    BY <1>2 DEF create, inode_alloc, Local, ThenAt, k
  <2>3. i \in MemInode /\ SectorsOf(e, i.no, i.sectors)
    BY <2>1, InodeAssumption DEF MemInode, SectorsOf, NoBlocks, Pointers, Data_of, Tab_of
  <2>4. /\ InMemoryOf(e, open_inodes) /\ inode_bitmap \subseteq Ino
        /\ Entered(open_inodes, dentries)
    BY Same DEF Owners
  <2> HIDE DEF i
  <2>5. /\ InMemoryOf(e, open_inodes') /\ DOMAIN open_inodes \subseteq DOMAIN open_inodes'
        /\ \A j \in DOMAIN open_inodes : open_inodes'[j] = open_inodes[j]
        /\ Len(open_inodes') \in DOMAIN open_inodes'
    BY <2>2, <2>3, <2>4, Linking
  <2>6. Entered(open_inodes', dentries)
    BY <2>4, <2>5 DEF Entered
  <2>7. Walks(e, loc[p])
    <3>1. Looking(e, pc[p], loc[p])
      BY Known DEF At
    <3>2. QED
      BY <3>1 DEF Looking
  <2>8. ASSUME NEW f, Grows(e, f), DOMAIN f.no = DOMAIN open_inodes' PROVE LocalsOK(f, "dirw", L)
    <3>1. Creates(f, L)
      BY <2>5, <2>7, <2>8, InodeAssumption DEF Walks, Creates, Call_in, Inode_in, Grows, Pointers
    <3>2. Creating(f, "dirw", L)
      BY <3>1 DEF Creating
    <3> HIDE DEF L
    <3>3. QED
      BY <3>1, <3>2, CreatingOK
  <2> HIDE DEF L
  <2>9. inode_bitmap' \subseteq Ino /\ UNCHANGED << dentries, cwd >>
    BY <2>1, <2>2, <2>4 DEF dirs
  <2>10. QED
    BY <2>2, <2>5, <2>6, <2>8, <2>9, MoreStep
<1>3. QED
  BY <1>1, <1>2
-----------------------------------------------------------------------------
\* A pointer or the size of an inode in memory changes.
Pointed(m, i, n, b) == [m EXCEPT ![i].sectors[n] = b]
Resized(m, i, s) == [m EXCEPT ![i].size = s]

\* A pointer of an inode in memory is set.
LEMMA Pointing ==
  ASSUME NEW e, NEW m, InMemoryOf(e, m), NEW i \in DOMAIN m, NEW n \in Pointers, NEW b \in Nat,
         IF n = NDIRECT THEN Tab_of(e, m[i].no, b) ELSE Data_of(e, m[i].no, b)
  PROVE  LET r == Pointed(m, i, n, b)
         IN /\ InMemoryOf(e, r) /\ DOMAIN r = DOMAIN m
            /\ \A j \in DOMAIN m : r[j].no = m[j].no
<1> DEFINE r == Pointed(m, i, n, b)
           x == [m[i] EXCEPT !.sectors[n] = b]
<1>1. m \in Seq(MemInode) /\ Len(m) \in Nat /\ DOMAIN m = 1 .. Len(m) /\ m[i] \in MemInode
  <2>1. m \in Seq(MemInode)
    BY DEF InMemoryOf
  <2>2. QED
    BY <2>1, LenProperties, ElementOfSeq
<1>2. /\ x \in MemInode /\ x.no = m[i].no
      /\ x.sectors = [m[i].sectors EXCEPT ![n] = b]
  BY <1>1 DEF MemInode
<1>3. SectorsOf(e, x.no, x.sectors)
  <2>1. SectorsOf(e, m[i].no, m[i].sectors)
    BY DEF InMemoryOf
  <2> HIDE DEF x
  <2>2. QED
    BY <1>2, <2>1 DEF SectorsOf
<1>4. r \in Seq(MemInode) /\ Len(r) = Len(m) /\ \A j \in 1 .. Len(m) : r[j] = IF j = i THEN x ELSE m[j]
  <2>1. r = [m EXCEPT ![i] = x]
    BY DEF Pointed
  <2> HIDE DEF r, x
  <2>2. QED
    BY <1>1, <1>2, <2>1, ExceptSeq
<1>5. DOMAIN r = DOMAIN m
  <2> HIDE DEF r
  <2>1. QED
    BY <1>1, <1>4, LenProperties
<1> HIDE DEF r, x
<1>6. \A j \in DOMAIN r : SectorsOf(e, r[j].no, r[j].sectors) /\ r[j].no = m[j].no
  BY <1>1, <1>2, <1>3, <1>4, <1>5 DEF InMemoryOf
<1>7. QED
  BY <1>4, <1>5, <1>6 DEF InMemoryOf, r

\* The size of an inode in memory is set.
LEMMA Resizing ==
  ASSUME NEW e, NEW m, InMemoryOf(e, m), NEW i \in DOMAIN m, NEW s \in Nat
  PROVE  LET r == Resized(m, i, s)
         IN /\ InMemoryOf(e, r) /\ DOMAIN r = DOMAIN m
            /\ \A j \in DOMAIN m : r[j].no = m[j].no /\ r[j].sectors = m[j].sectors
<1> DEFINE r == Resized(m, i, s)
           x == [m[i] EXCEPT !.size = s]
<1>1. m \in Seq(MemInode) /\ Len(m) \in Nat /\ DOMAIN m = 1 .. Len(m) /\ m[i] \in MemInode
  <2>1. m \in Seq(MemInode)
    BY DEF InMemoryOf
  <2>2. QED
    BY <2>1, LenProperties, ElementOfSeq
<1>2. x \in MemInode /\ x.no = m[i].no /\ x.sectors = m[i].sectors
  BY <1>1 DEF MemInode
<1>3. r \in Seq(MemInode) /\ Len(r) = Len(m) /\ \A j \in 1 .. Len(m) : r[j] = IF j = i THEN x ELSE m[j]
  <2>1. r = [m EXCEPT ![i] = x]
    BY DEF Resized
  <2> HIDE DEF r, x
  <2>2. QED
    BY <1>1, <1>2, <2>1, ExceptSeq
<1>4. DOMAIN r = DOMAIN m
  <2> HIDE DEF r
  <2>1. QED
    BY <1>1, <1>3, LenProperties
<1> HIDE DEF r, x
<1>5. QED
  BY <1>1, <1>2, <1>3, <1>4 DEF InMemoryOf, r

\* A step that changes inodes in memory.
LEMMA InodeChange ==
  ASSUME NEW e, Seen(e), UNCHANGED << disk, block_bitmap, inode_bitmap, cwd >>,
         InMemoryOf(e, open_inodes'), DOMAIN open_inodes' = DOMAIN open_inodes,
         \A i \in DOMAIN open_inodes : open_inodes'[i].no = open_inodes[i].no,
         Entered(open_inodes, dentries'), DOMAIN dentries \subseteq DOMAIN dentries',
         \A d \in DOMAIN dentries : dentries'[d].inode = dentries[d].inode,
         NEW p \in Proc, NEW l, NEW L, pc' = [pc EXCEPT ![p] = l] \/ (UNCHANGED pc /\ l = pc[p]),
         loc' = [loc EXCEPT ![p] = L] \/ (UNCHANGED loc /\ L = loc[p]),
         LocalsOK(e, l, L)
  PROVE  Grown(e)
<1>1. Entered(open_inodes', dentries') /\ inode_bitmap' \subseteq Ino
  BY Same DEF Owners, Entered
<1>2. \A f : Grows(e, f) => LocalsOK(f, l, L)
  BY GrowsLocals
<1>3. QED
  BY <1>1, <1>2, MoreStep

-----------------------------------------------------------------------------
\* A block, or the inodes, on the disk change.
Stored(d, b, x) == [d EXCEPT !.block[b] = x]

\* A block is written: an index block with a table of its owner.
LEMMA Storing ==
  ASSUME NEW e, e.synced \subseteq Block, NEW d, OnTheDisk(e, d), NEW b, NEW x,
         b \in Block => b \in e.synced /\ (b \in e.tabs => TableOf(e, e.who[b], x))
  PROVE  OnTheDisk(e, Stored(d, b, x)) /\ Stored(d, b, x).bbits = d.bbits
<1> DEFINE r == Stored(d, b, x)
<1>1. /\ r = [bbits |-> d.bbits, ibits |-> d.ibits, itable |-> d.itable, block |-> r.block]
      /\ DOMAIN r.block = Block
      /\ \A c \in Block : r.block[c] = IF c = b THEN x ELSE d.block[c]
  BY DEF Stored, OnTheDisk
<1> HIDE DEF r
<1>2. /\ r.bbits = d.bbits /\ r.ibits = d.ibits /\ r.itable = d.itable
  BY <1>1
<1>3. \A c \in Block \ e.synced : r.block[c] = Dirty
  BY <1>1 DEF OnTheDisk
<1>4. \A c \in e.synced \cap e.tabs : r.block[c] = Dirty \/ TableOf(e, e.who[c], r.block[c])
  BY <1>1 DEF OnTheDisk
<1>5. QED
  BY <1>1, <1>2, <1>3, <1>4 DEF OnTheDisk, r

\* A step of p that changes the disk and keeps it right.
LEMMA DiskChange ==
  ASSUME NEW e, Seen(e), UNCHANGED << memory, dirs >>,
         OnTheDisk(e, disk'), disk'.bbits = disk.bbits,
         NEW p \in Proc, NEW l, NEW L, pc' = [pc EXCEPT ![p] = l],
         loc' = [loc EXCEPT ![p] = L] \/ (UNCHANGED loc /\ L = loc[p]),
         LocalsOK(e, l, L)
  PROVE  Grown(e)
<1>1. PICK who \in [Block -> Ino], tabs \in SUBSET Block : e = View(who, tabs)'
  BY DEF Seen, View, memory, dirs
<1>2. /\ DOMAIN pc' = Proc /\ DOMAIN loc' = Proc /\ pc'[p] = l /\ loc'[p] = L
      /\ \A q \in Proc \ {p} : pc'[q] = pc[q] /\ loc'[q] = loc[q]
  BY Same DEF Owners
<1>3. /\ Grows(e, e) /\ Allocated(e) /\ inode_bitmap' \subseteq Ino
      /\ InMemoryOf(e, open_inodes') /\ Entered(open_inodes', dentries') /\ cwd' \in DOMAIN dentries'
  BY Same DEF Owners, memory, dirs
<1>4. LocalsOK(e, pc'[p], loc'[p])
  BY <1>2
<1>5. QED
  BY <1>1, <1>2, <1>3, <1>4, Same, Step
-----------------------------------------------------------------------------
\* A call that goes on with a file's or a directory's entry keeps what it needs.
LEMMA CreatesOn ==
  ASSUME NEW e, NEW L, Creates(e, L), NEW r, DOMAIN r \subseteq {"ret", "lba", "blk", "buf", "written"}
  PROVE  Creates(e, r ++ L) /\ (r ++ L).idx = L.idx /\ (r ++ L).parent = L.parent /\ (r ++ L).inode = L.inode
BY DEF Creates, Call_in, Inode_in, ++

\* The directory in which an entry is written, and the inode it is for.
LEMMA Involved ==
  ASSUME NEW e, Seen(e), NEW p \in Proc, Creates(e, loc[p])
  PROVE  LET i == dentries[loc[p].parent].inode
             j == loc[p].inode
         IN /\ i \in DOMAIN open_inodes /\ e.no[e.inode[loc[p].parent]] = open_inodes[i].no
            /\ SectorsOf(e, open_inodes[i].no, open_inodes[i].sectors)
            /\ open_inodes[i] \in MemInode
            /\ j \in DOMAIN open_inodes /\ e.no[j] = open_inodes[j].no
            /\ InMemoryOf(e, open_inodes) /\ Entered(open_inodes, dentries)
<1> DEFINE i == dentries[loc[p].parent].inode
           j == loc[p].inode
<1>1. /\ DOMAIN e.no = DOMAIN open_inodes
      /\ \A k \in DOMAIN open_inodes : e.no[k] = open_inodes[k].no
      /\ DOMAIN e.inode = DOMAIN dentries
      /\ \A d \in DOMAIN dentries : e.inode[d] = dentries[d].inode
      /\ InMemoryOf(e, open_inodes) /\ Entered(open_inodes, dentries)
  BY Same DEF Owners
<1>2. loc[p].parent \in DOMAIN dentries /\ j \in DOMAIN open_inodes
  BY <1>1 DEF Creates, Inode_in
<1>3. i \in DOMAIN open_inodes /\ e.inode[loc[p].parent] = i
  BY <1>1, <1>2 DEF Entered
<1>4. open_inodes[i] \in MemInode
  <2>1. open_inodes \in Seq(MemInode)
    BY <1>1 DEF InMemoryOf
  <2> HIDE DEF i
  <2>2. QED
    BY <1>3, <2>1, LenProperties, ElementOfSeq
<1>5. SectorsOf(e, open_inodes[i].no, open_inodes[i].sectors)
  BY <1>1, <1>3 DEF InMemoryOf
<1>6. QED
  BY <1>1, <1>2, <1>3, <1>4, <1>5

\* What the steps that write an entry begin with.
LEMMA CreatingAt ==
  ASSUME NEW e, Seen(e), NEW p \in Proc
  PROVE  LET l == pc[p]
             L == loc[p]
         IN /\ l \in {"dirw", "dirw_read", "dirw_write", "dot_write", "dirw_end"} => Creates(e, L) /\ Creating(e, l, L)
            /\ l \in {"dirw_zero", "dot"} =>
                 Creates(e, L) /\ Awaits(e, l, L) /\ Given(e, l, L, e.synced)
<1>1. pc[p] \in {"dirw_zero", "dot"} => Awaits(e, pc[p], loc[p]) /\ Given(e, pc[p], loc[p], e.synced)
  BY Known DEF Allocating
<1>2. pc[p] \in {"dirw_zero", "dot"} /\ Awaits(e, pc[p], loc[p]) => Creates(e, loc[p])
  BY DEF Awaits
<1>3. QED
  BY <1>1, <1>2, Known DEF Creating

\* What is in use, on the disk or in memory, are blocks, and those are numbered from 1.
LEMMA Synced == ASSUME NEW e, Seen(e) PROVE e.synced \subseteq Block /\ e.used \subseteq Block /\ Block \subseteq Nat \ {0}
BY Same DEF Owners, Allocated, Block

\* dir_write() looks for a block with room, or for a new one;
LEMMA DirWrite ==
  ASSUME NEW e, Seen(e), NEW p \in Proc, dir_write(p), UNCHANGED dirs PROVE Grown(e)
<1> DEFINE b == DirInode(loc[p].parent).sectors[loc[p].idx]
<1>1. pc[p] = "dirw" /\ UNCHANGED << disk, memory, dirs >>
  BY DEF dir_write, Runs, At
<1>2. Creates(e, loc[p])
  BY <1>1, CreatingAt
<1>3. cwd' \in DOMAIN dentries /\ UNCHANGED << disk, memory, dentries >>
  BY <1>1, Same DEF Owners, dirs
<1>4. CASE UNCHANGED << pc, loc >>
  BY <1>1, <1>4, NoStep
<1>8. loc[p].idx \in Pointers /\ (loc[p].idx < NDIRECT => loc[p].idx # NDIRECT)
  <2>1. loc[p].idx \in Pointers
    BY <1>2 DEF Creates
  <2>2. QED
    BY <2>1, InodeAssumption DEF Pointers
<1>5. CASE loc[p].idx < NDIRECT /\ Put(p, [ret |-> "dirw_zero"]) /\ ThenAt(p, "alloc")
  <2> DEFINE L == [ret |-> "dirw_zero"] ++ loc[p]
  <2>1. Creates(e, L) /\ L.idx = loc[p].idx
    BY <1>2, CreatesOn
  <2>2. L.ret = "dirw_zero" /\ "ret" \in DOMAIN L
    BY DEF ++
  <2>3. loc' = [loc EXCEPT ![p] = L] /\ pc' = [pc EXCEPT ![p] = "alloc"]
    BY <1>5 DEF Put, ThenAt
  <2> HIDE DEF L
  <2>4. loc[p].idx # NDIRECT
    BY <1>5, <1>8
  <2>5. Allocating(e, "alloc", L)
    BY <2>1, <2>2, <2>4 DEF Allocating, Awaits
  <2>6. QED
    BY <1>3, <2>1, <2>3, <2>5, CreatingOK, LocalStep
<1>6. CASE loc[p].idx < NDIRECT /\ b # 0 /\ Put(p, [lba |-> b]) /\ ThenAt(p, "dirw_read")
  <2> DEFINE L == [lba |-> b] ++ loc[p]
  <2>1. Creates(e, L) /\ L.idx = loc[p].idx
    BY <1>2, CreatesOn
  <2>2. L.lba = b /\ "lba" \in DOMAIN L
    BY DEF ++
  <2>3. loc' = [loc EXCEPT ![p] = L] /\ pc' = [pc EXCEPT ![p] = "dirw_read"]
    BY <1>6 DEF Put, ThenAt
  <2>4. loc[p].idx # NDIRECT /\ loc[p].idx \in Pointers
    BY <1>6, <1>8
  <2>5. b \in e.synced \ e.tabs
    BY <1>2, <1>6, <2>4, Involved DEF SectorsOf, Data_of, DirInode
  <2> HIDE DEF L, b
  <2>6. Creating(e, "dirw_read", L)
    BY <2>1, <2>2, <2>4, <2>5 DEF Creating, PlainBlock
  <2>7. QED
    BY <1>3, <2>1, <2>3, <2>6, CreatingOK, LocalStep
<1>7. QED
  BY <1>4, <1>5, <1>6 DEF dir_write, Panic

\* a new one is zeroed in memory;
LEMMA DirWriteZero ==
  ASSUME NEW e, Seen(e), NEW p \in Proc, dir_write_zero(p) PROVE Grown(e)
<1> DEFINE i == dentries[loc[p].parent].inode
           b == loc[p].blk
           L == [lba |-> b, blk |-> 0, buf |-> Filled(p, EmptyDir)] ++ loc[p]
<1>1. pc[p] = "dirw_zero"
  BY DEF dir_write_zero, Runs, At
<1>2. Creates(e, loc[p]) /\ Awaits(e, "dirw_zero", loc[p]) /\ Given(e, "dirw_zero", loc[p], e.synced)
  BY <1>1, CreatingAt
<1>3. /\ i \in DOMAIN open_inodes /\ e.no[e.inode[loc[p].parent]] = open_inodes[i].no
      /\ InMemoryOf(e, open_inodes) /\ Entered(open_inodes, dentries)
  BY <1>2, Involved
<1>4. b \in e.synced \ e.tabs /\ e.who[b] = open_inodes[i].no /\ b \in Nat
  BY <1>2, <1>3, Synced DEF Given, ForInode
<1>5. loc[p].idx \in Pointers /\ loc[p].idx # NDIRECT
  BY <1>2 DEF Creates, Awaits
<1>6. open_inodes' = Pointed(open_inodes, i, loc[p].idx, b)
  BY DEF dir_write_zero, Pointed
<1> HIDE DEF i, b
<1>7. /\ InMemoryOf(e, open_inodes') /\ DOMAIN open_inodes' = DOMAIN open_inodes
      /\ \A j \in DOMAIN open_inodes : open_inodes'[j].no = open_inodes[j].no
  BY <1>3, <1>4, <1>5, <1>6, Pointing DEF Data_of
<1>8. Creates(e, L) /\ L.lba = b /\ "lba" \in DOMAIN L
  <2>1. Creates(e, L)
    BY <1>2, CreatesOn
  <2>2. QED
    BY <2>1 DEF ++
<1>9. loc' = [loc EXCEPT ![p] = L] /\ pc' = [pc EXCEPT ![p] = "dirw_write"]
  BY DEF dir_write_zero, Put, ThenAt, b
<1> HIDE DEF L
<1>10. Creating(e, "dirw_write", L)
  BY <1>4, <1>8 DEF Creating, PlainBlock
<1>11. UNCHANGED << disk, block_bitmap, inode_bitmap, dirs >>
  BY DEF dir_write_zero
<1>12. QED
  BY <1>3, <1>7, <1>8, <1>9, <1>10, <1>11, CreatingOK, InodeChange DEF dirs

\* one with entries is read;
LEMMA DirWriteRead ==
  ASSUME NEW e, Seen(e), NEW p \in Proc, dir_write_read(p) PROVE Grown(e)
<1> DEFINE b == DirAt(loc[p].lba)
           x == DirInode(loc[p].parent).sectors[loc[p].idx]
<1>1. pc[p] = "dirw_read" /\ UNCHANGED << disk, memory, dirs >>
  BY DEF dir_write_read, Runs, At
<1>2. Creates(e, loc[p]) /\ Creating(e, "dirw_read", loc[p])
  BY <1>1, CreatingAt
<1>3. cwd' \in DOMAIN dentries /\ UNCHANGED << disk, memory, dentries >>
  BY <1>1, Same DEF Owners, dirs
<1>5. CASE Put(p, [buf |-> Filled(p, b), lba |-> x]) /\ ThenAt(p, "dirw_write")
  <2> DEFINE L == [buf |-> Filled(p, b), lba |-> x] ++ loc[p]
  <2>1. Creates(e, L)
    BY <1>2, CreatesOn
  <2>2. loc' = [loc EXCEPT ![p] = L] /\ pc' = [pc EXCEPT ![p] = "dirw_write"]
    BY <1>5 DEF Put, ThenAt
  <2>3. PlainBlock(e, L)
    <3>1. loc[p].idx \in Pointers /\ loc[p].idx # NDIRECT
      BY <1>2 DEF Creates, Creating
    <3>2. x = 0 \/ x \in e.synced \ e.tabs
      BY <1>2, <3>1, Involved DEF SectorsOf, Data_of, DirInode
    <3> HIDE DEF x
    <3>3. L.lba = x /\ "lba" \in DOMAIN L
      BY DEF ++
    <3>4. QED
      BY <3>2, <3>3 DEF PlainBlock
  <2> HIDE DEF L
  <2>4. Creating(e, "dirw_write", L)
    BY <2>1, <2>3 DEF Creating
  <2>5. QED
    BY <1>3, <2>1, <2>2, <2>4, CreatingOK, LocalStep
<1>6. CASE Put(p, [idx |-> loc[p].idx + 1]) /\ ThenAt(p, "dirw")
  <2> DEFINE L == [idx |-> loc[p].idx + 1] ++ loc[p]
  <2>1. loc[p].idx + 1 \in Pointers
    BY <1>2, InodeAssumption DEF Creating, Creates, Pointers
  <2>2. Creates(e, L)
    BY <1>2, <2>1 DEF Creates, Call_in, Inode_in, ++
  <2>3. loc' = [loc EXCEPT ![p] = L] /\ pc' = [pc EXCEPT ![p] = "dirw"]
    BY <1>6 DEF Put, ThenAt
  <2> HIDE DEF L
  <2>4. Creating(e, "dirw", L)
    BY <2>2 DEF Creating
  <2>5. QED
    BY <1>3, <2>2, <2>3, <2>4, CreatingOK, LocalStep
<1>7. QED
  BY <1>5, <1>6 DEF dir_write_read
\* A transfer to a block that is no index block.
LEMMA PlainWrite ==
  ASSUME NEW e, Seen(e), NEW L, PlainBlock(e, L), NEW x, disk' = Stored(disk, L.lba, x)
  PROVE  OnTheDisk(e, disk') /\ disk'.bbits = disk.bbits
<1>1. OnTheDisk(e, disk) /\ e.synced \subseteq Block
  BY Same, Synced DEF Owners
<1>2. L.lba \in Block => L.lba \in e.synced /\ L.lba \notin e.tabs
  BY Synced DEF PlainBlock
<1>3. QED
  BY <1>1, <1>2, Storing

\* and it is written.
LEMMA DirWriteWrite ==
  ASSUME NEW e, Seen(e), NEW p \in Proc, dir_write_write(p) PROVE Grown(e)
<1> DEFINE L == [buf |-> NULL, written |-> TRUE, ret |-> "dot"] ++ loc[p]
           l == IF open_inodes[loc[p].inode].dir THEN "alloc" ELSE "dirw_end"
<1>1. pc[p] = "dirw_write" /\ UNCHANGED << memory, dirs >>
  BY DEF dir_write_write, Runs, At
<1>2. Creates(e, loc[p]) /\ PlainBlock(e, loc[p])
  BY <1>1, CreatingAt DEF Creating
<1>3. disk' = Stored(disk, loc[p].lba, loc[p].buf)
  BY DEF dir_write_write, Stored
<1>4. OnTheDisk(e, disk') /\ disk'.bbits = disk.bbits
  BY <1>2, <1>3, PlainWrite
<1>5. Creates(e, L) /\ "ret" \in DOMAIN L /\ L.ret = "dot"
  <2>1. Creates(e, L)
    BY <1>2, CreatesOn
  <2>2. QED
    BY <2>1 DEF ++
<1>6. loc' = [loc EXCEPT ![p] = L] /\ pc' = [pc EXCEPT ![p] = l]
  BY DEF dir_write_write, Put, ThenAt
<1> HIDE DEF L
<1>7. Allocating(e, "alloc", L) /\ Creating(e, "dirw_end", L)
  BY <1>5 DEF Allocating, Awaits, Creating
<1>8. LocalsOK(e, l, L)
  BY <1>5, <1>7, CreatingOK
<1> HIDE DEF l
<1>9. QED
  BY <1>1, <1>4, <1>6, <1>8, DiskChange

\* The first block of a new directory,
LEMMA DirWriteDots ==
  ASSUME NEW e, Seen(e), NEW p \in Proc, dir_write_dots(p) PROVE Grown(e)
<1> DEFINE i == loc[p].inode
           b == loc[p].blk
           m == Pointed(open_inodes, i, 0, b)
           L == [lba |-> b, blk |-> 0,
                 buf |-> Dots(Entry(p).no, DirInode(loc[p].parent).no)] ++ loc[p]
<1>1. pc[p] = "dot"
  BY DEF dir_write_dots, Runs, At
<1>2. Creates(e, loc[p]) /\ Given(e, "dot", loc[p], e.synced)
  BY <1>1, CreatingAt
<1>3. /\ i \in DOMAIN open_inodes /\ e.no[i] = open_inodes[i].no
      /\ InMemoryOf(e, open_inodes) /\ Entered(open_inodes, dentries)
  BY <1>2, Involved
<1>4. b \in e.synced \ e.tabs /\ e.who[b] = open_inodes[i].no /\ b \in Nat
  BY <1>2, <1>3, Synced DEF Given, ForInode
<1>5. 0 \in Pointers /\ 0 # NDIRECT
  BY InodeAssumption DEF Pointers
<1>6. open_inodes' = Resized(m, i, 2)
  BY DEF dir_write_dots, Pointed, Resized
<1> HIDE DEF i, b
<1>7. InMemoryOf(e, m) /\ DOMAIN m = DOMAIN open_inodes /\ \A j \in DOMAIN open_inodes : m[j].no = open_inodes[j].no
  BY <1>3, <1>4, <1>5, Pointing DEF Data_of
<1> HIDE DEF m
<1>8. /\ InMemoryOf(e, open_inodes') /\ DOMAIN open_inodes' = DOMAIN open_inodes
      /\ \A j \in DOMAIN open_inodes : open_inodes'[j].no = open_inodes[j].no
  BY <1>3, <1>6, <1>7, Resizing
<1>9. Creates(e, L) /\ L.lba = b /\ "lba" \in DOMAIN L
  <2>1. Creates(e, L)
    BY <1>2, CreatesOn
  <2>2. QED
    BY <2>1 DEF ++
<1>10. loc' = [loc EXCEPT ![p] = L] /\ pc' = [pc EXCEPT ![p] = "dot_write"]
  BY DEF dir_write_dots, Put, ThenAt, b
<1> HIDE DEF L
<1>11. Creating(e, "dot_write", L)
  BY <1>4, <1>9 DEF Creating, PlainBlock
<1>12. UNCHANGED << disk, block_bitmap, inode_bitmap, dirs >>
  BY DEF dir_write_dots
<1>13. QED
  BY <1>3, <1>8, <1>9, <1>10, <1>11, <1>12, CreatingOK, InodeChange DEF dirs

\* which is written.
LEMMA DirWriteDotsWrite ==
  ASSUME NEW e, Seen(e), NEW p \in Proc, dir_write_dots_write(p) PROVE Grown(e)
<1> DEFINE L == [buf |-> NULL] ++ loc[p]
<1>1. pc[p] = "dot_write" /\ UNCHANGED << memory, dirs >>
  BY DEF dir_write_dots_write, Runs, At
<1>2. Creates(e, loc[p]) /\ PlainBlock(e, loc[p])
  BY <1>1, CreatingAt DEF Creating
<1>3. disk' = Stored(disk, loc[p].lba, loc[p].buf)
  BY DEF dir_write_dots_write, Stored
<1>4. OnTheDisk(e, disk') /\ disk'.bbits = disk.bbits
  BY <1>2, <1>3, PlainWrite
<1>5. Creates(e, L)
  BY <1>2, CreatesOn
<1>6. loc' = [loc EXCEPT ![p] = L] /\ pc' = [pc EXCEPT ![p] = "dirw_end"]
  BY DEF dir_write_dots_write, Put, ThenAt
<1> HIDE DEF L
<1>7. Creating(e, "dirw_end", L)
  BY <1>5 DEF Creating
<1>8. QED
  BY <1>1, <1>4, <1>5, <1>6, <1>7, CreatingOK, DiskChange

-----------------------------------------------------------------------------
\* inode_sync() begins with a copy of the inode.
Copied(i) == [dir |-> i.dir, size |-> i.size, sectors |-> i.sectors]

\* The locals with which an inode's write-back begins.
LEMMA SyncsOK ==
  ASSUME NEW e, NEW m, InMemoryOf(e, m), DOMAIN e.no = DOMAIN m, \A j \in DOMAIN m : m[j].no = e.no[j],
         NEW i \in DOMAIN m, NEW r, DOMAIN r \subseteq {"call", "fd", "f", "written", "end"},
         Call_in(r, {"open", "mkdir", "write"}), File_in(r), NEW ret,
         \/ ret = "ibsync" /\ r.call # "write"
         \/ ret = "fw_done" /\ r.call = "write" /\ "end" \in DOMAIN r /\ r.end \in Nat
  PROVE  LocalsOK(e, "isync_read", [inode |-> i, copy |-> Copied(m[i]), ret |-> ret] ++ r)
<1> DEFINE L == [inode |-> i, copy |-> Copied(m[i]), ret |-> ret] ++ r
<1>1. Copied(m[i]) \in DiskInode /\ SectorsOf(e, e.no[i], Copied(m[i]).sectors)
  <2>1. m \in Seq(MemInode) /\ SectorsOf(e, m[i].no, m[i].sectors)
    BY DEF InMemoryOf
  <2>2. m[i] \in MemInode
    BY <2>1, LenProperties, ElementOfSeq
  <2>3. QED
    BY <2>1, <2>2 DEF MemInode, DiskInode, Copied
<1>2. /\ L.inode = i /\ L.copy = Copied(m[i]) /\ L.ret = ret /\ L.call = r.call
      /\ DOMAIN L = {"inode", "copy", "ret"} \cup DOMAIN r
      /\ \A x \in DOMAIN r : L[x] = r[x]
  BY DEF ++, Call_in
<1> HIDE DEF L
<1>3. Syncs(e, L)
  BY <1>1, <1>2 DEF Syncs, Call_in, Inode_in, File_in
<1>4. TableIn(e, L)
  BY <1>2 DEF TableIn
<1>5. QED
  BY <1>3, <1>4 DEF LocalsOK, LocalsOf, Syncing, L

\* The end of dir_write().
LEMMA DirWritten ==
  ASSUME NEW e, Seen(e), NEW p \in Proc, pc[p] = "dirw_end", NEW r, dir_written(p, r),
         DOMAIN r \subseteq {"call", "fd", "f", "written"}, Call_in(r, {"open", "mkdir"}), File_in(r)
  PROVE  Grown(e)
<1> DEFINE i == dentries[loc[p].parent].inode
           s == open_inodes[i].size + 1
           j == loc[p].inode
           L == [inode |-> j, copy |-> Copied(open_inodes'[j]), ret |-> "ibsync"] ++ r
<1> HIDE DEF L
<1>1. Creates(e, loc[p])
  BY CreatingAt
<1>2. /\ i \in DOMAIN open_inodes /\ open_inodes[i] \in MemInode
      /\ j \in DOMAIN open_inodes
      /\ InMemoryOf(e, open_inodes) /\ Entered(open_inodes, dentries)
  BY <1>1, Involved
<1>3. s \in Nat
  <2>1. open_inodes[i].size \in Nat
    BY <1>2 DEF MemInode
  <2>2. QED
    BY <2>1
<1>4. open_inodes' = Resized(open_inodes, i, s)
  BY DEF dir_written, Resized
<1> HIDE DEF s, i, j
<1>5. /\ InMemoryOf(e, open_inodes') /\ DOMAIN open_inodes' = DOMAIN open_inodes
      /\ \A k \in DOMAIN open_inodes : open_inodes'[k].no = open_inodes[k].no
  BY <1>2, <1>3, <1>4, Resizing
<1>6. dentries' = Append(dentries, Dentry(loc[p].parent, loc[p].name, j))
  BY DEF dir_written, j
<1>7. loc[p].parent \in DOMAIN dentries
  BY <1>1, Same DEF Creates
<1>8. /\ Entered(open_inodes, dentries') /\ DOMAIN dentries \subseteq DOMAIN dentries'
      /\ \A d \in DOMAIN dentries : dentries'[d] = dentries[d]
  BY <1>2, <1>6, <1>7, Entering
<1>9. DOMAIN e.no = DOMAIN open_inodes' /\ \A k \in DOMAIN open_inodes' : open_inodes'[k].no = e.no[k]
  BY <1>5, Same
<1>10. LocalsOK(e, "isync_read", L)
  BY <1>2, <1>5, <1>9, SyncsOK DEF Call_in, L
<1>11. loc' = [loc EXCEPT ![p] = L] /\ pc' = [pc EXCEPT ![p] = "isync_read"]
  BY DEF dir_written, inode_sync, Local, ThenAt, OnDisk, Copied, L, j
<1>12. UNCHANGED << disk, block_bitmap, inode_bitmap, cwd >>
  BY DEF dir_written
<1>13. QED
  BY <1>5, <1>8, <1>10, <1>11, <1>12, InodeChange
-----------------------------------------------------------------------------
\* A call that allocates keeps what it needs.
LEMMA AwaitsOn ==
  ASSUME NEW e, NEW l, NEW L, Awaits(e, l, L), NEW r, DOMAIN r \subseteq {"blk"}
  PROVE  LET M == r ++ L
         IN /\ Awaits(e, l, M) /\ ForInode(e, l, M) = ForInode(e, l, L)
            /\ ("ret" \in DOMAIN L => "ret" \in DOMAIN M /\ M.ret = L.ret)
            /\ (TableIn(e, L) => TableIn(e, M))
<1> DEFINE M == r ++ L
<1>1. \A x \in DOMAIN L \ {"blk"} : x \in DOMAIN M /\ M[x] = L[x]
  BY DEF ++
<1>2. "call" \in DOMAIN L /\ "inode" \in DOMAIN L
  BY DEF Awaits, Creates, WritesBlock, Writes, Call_in, Inode_in
<1>3. "tab" \in DOMAIN M => "tab" \in DOMAIN L /\ L # << >>
  <2>1. L # << >>
    BY <1>2
  <2>2. QED
    BY <2>1 DEF ++
<1> HIDE DEF M
<1>4. Creates(e, L) => Creates(e, M) /\ M.parent = L.parent /\ M.idx = L.idx
  <2>1. Creates(e, L) => Creates(e, M)
    BY CreatesOn DEF M
  <2>2. Creates(e, L) => M.parent = L.parent /\ M.idx = L.idx
    BY <1>1 DEF Creates
  <2>3. QED
    BY <2>1, <2>2
<1>5. Writes(e, L) => Writes(e, M) /\ M.at = L.at /\ M.end = L.end /\ (Tabled(e, L) => Tabled(e, M))
  <2> SUFFICES ASSUME Writes(e, L) PROVE Writes(e, M) /\ M.at = L.at /\ M.end = L.end /\ (Tabled(e, L) => Tabled(e, M))
    OBVIOUS
  <2>1. {"at", "end", "tab", "sync2", "call", "inode"} \subseteq DOMAIN L
    BY DEF Writes, Call_in, Inode_in
  <2>2. /\ {"at", "end", "tab", "sync2", "call", "inode"} \subseteq DOMAIN M
        /\ M.at = L.at /\ M.end = L.end /\ M.tab = L.tab /\ M.sync2 = L.sync2
        /\ M.call = L.call /\ M.inode = L.inode
    BY <1>1, <2>1
  <2>3. QED
    BY <2>2 DEF Writes, Call_in, Inode_in, Tabled
<1>6. WritesBlock(e, L) => WritesBlock(e, M)
  BY <1>5 DEF WritesBlock, Room, Sect
<1>7. M.inode = L.inode /\ M.call = L.call
  BY <1>1, <1>2
<1>8. Awaits(e, l, M) /\ ForInode(e, l, M) = ForInode(e, l, L)
  <2>1. Awaits(e, l, M)
    BY <1>4, <1>5, <1>6 DEF Awaits, Room, Sect
  <2>2. l = "dirw_zero" => M.parent = L.parent
    BY <1>4 DEF Awaits
  <2>3. QED
    BY <1>7, <2>1, <2>2 DEF ForInode
<1>9. TableIn(e, L) => TableIn(e, M)
  <2> SUFFICES ASSUME TableIn(e, L), M.call = "write", "tab" \in DOMAIN M
               PROVE  M.tab = NULL \/ (Inode_in(e, M) /\ Tabled(e, M))
    BY DEF TableIn
  <2>1. L.tab = NULL \/ (Inode_in(e, L) /\ Tabled(e, L))
    BY <1>3, <1>7 DEF TableIn
  <2>2. M.tab = L.tab
    BY <1>1, <1>3
  <2>3. "inode" \in DOMAIN M
    BY <1>1, <1>2
  <2>4. QED
    BY <1>7, <2>1, <2>2, <2>3 DEF Inode_in, Tabled
<1>10. QED
  BY <1>1, <1>8, <1>9 DEF M

\* A call that waits for a block knows which inode it is for.
LEMMA ForWhom ==
  ASSUME NEW e, Seen(e), NEW l, NEW L, Awaits(e, l, L) PROVE ForInode(e, l, L) \in Ino
<1>1. \A i \in DOMAIN e.no : e.no[i] \in Ino
  <2>1. open_inodes \in Seq(MemInode)
    BY Same DEF Owners, InMemoryOf
  <2>2. \A i \in DOMAIN open_inodes : open_inodes[i] \in MemInode
    BY <2>1, LenProperties, ElementOfSeq
  <2>3. QED
    BY <2>2, Same DEF MemInode
<1>2. \A d \in DOMAIN e.inode : e.inode[d] \in DOMAIN e.no
  BY Same DEF Grows
<1>3. QED
  BY <1>1, <1>2 DEF Awaits, ForInode, Creates, WritesBlock, Writes, Inode_in

\* A block is allocated: it gets an owner.
LEMMA BlockAlloc ==
  ASSUME NEW e, Seen(e), NEW p \in Proc, block_bimap_alloc(p), UNCHANGED dirs PROVE Grown(e)
<1> DEFINE b == bitmap_scan(block_bitmap, Block)
           L == loc[p]
           M == [blk |-> b] ++ L
           k == ForInode(e, L.ret, L)
<1>1. pc[p] = "alloc" /\ UNCHANGED << disk, dirs >>
  BY DEF block_bimap_alloc, Runs, At
<1>2. "ret" \in DOMAIN L /\ Awaits(e, L.ret, L) /\ TableIn(e, L)
  <2>1. Allocating(e, "alloc", L) /\ TableIn(e, L)
    BY <1>1, Known
  <2>2. QED
    BY <2>1 DEF Allocating, Awaits
<1>3. CASE Block \subseteq block_bitmap
  BY <1>1, <1>3, NoStep DEF block_bimap_alloc, Panic
<1>4. CASE ~(Block \subseteq block_bitmap)
  <2>1. b \in Block \ block_bitmap
    <3>1. Block \ block_bitmap \in SUBSET Nat /\ Block \ block_bitmap # {}
      BY <1>4, InodeAssumption DEF Block
    <3>2. QED
      BY <3>1, LeastIn DEF bitmap_scan
  <2>2. /\ block_bitmap' = block_bitmap \cup {b} /\ UNCHANGED << inode_bitmap, open_inodes >>
        /\ \/ loc' = [loc EXCEPT ![p] = M] /\ pc' = [pc EXCEPT ![p] = "bsync"]
           \/ UNCHANGED << pc, loc >>
    BY <1>4 DEF block_bimap_alloc, Put, ThenAt, Panic
  <2>3. k \in Ino
    BY <1>2, ForWhom
  <2> HIDE DEF b
  <2>4. /\ Awaits(e, L.ret, M) /\ ForInode(e, L.ret, M) = k
        /\ "ret" \in DOMAIN M /\ M.ret = L.ret /\ TableIn(e, M)
    BY <1>2, AwaitsOn
  <2>5. "blk" \in DOMAIN M /\ M.blk = b
    BY DEF ++
  <2> HIDE DEF M, k
  <2>6. LocalsOK(e, "alloc", M)
    BY <2>4 DEF LocalsOK, LocalsOf, Allocating
  <2>7. PICK who \in [Block -> Ino], tabs \in SUBSET Block : e = View(who, tabs) /\ Owners(e)
    BY DEF Seen
  <2>8. PICK who2 \in [Block -> Ino], tabs2 \in SUBSET Block :
          /\ who2 = [who EXCEPT ![b] = k]
          /\ tabs2 = IF L.ret = "fw_table" THEN tabs \cup {b} ELSE tabs \ {b}
    <3>1. [who EXCEPT ![b] = k] \in [Block -> Ino]
      BY <2>1, <2>3
    <3>2. (IF L.ret = "fw_table" THEN tabs \cup {b} ELSE tabs \ {b}) \in SUBSET Block
      BY <2>1
    <3>3. QED
      BY <3>1, <3>2
  <2> DEFINE f == View(who2, tabs2)'
  <2>9. /\ f.synced = e.synced /\ f.used = e.used \cup {b} /\ f.no = e.no /\ f.inode = e.inode
        /\ f.who = who2 /\ f.tabs = tabs2 /\ e.who = who /\ e.tabs = tabs
        /\ e.used = block_bitmap /\ e.synced = disk.bbits
    BY <1>1, <2>2, <2>7 DEF View, dirs
  <2> HIDE DEF f
  <2>10. Grows(e, f)
    <3>1. \A x \in e.used : f.who[x] = e.who[x] /\ (x \in f.tabs <=> x \in e.tabs)
      BY <2>1, <2>7, <2>8, <2>9, Synced
    <3>2. QED
      BY <2>9, <3>1, Same DEF Grows
  <2>11. Allocated(f) /\ f.synced \subseteq Block
    BY <2>1, <2>7, <2>8, <2>9 DEF Owners, Allocated
  <2>12. /\ OnTheDisk(f, disk') /\ InMemoryOf(f, open_inodes')
         /\ Entered(open_inodes', dentries') /\ inode_bitmap' \subseteq Ino /\ cwd' \in DOMAIN dentries'
    BY <1>1, <2>2, <2>7, <2>10, <2>11, GrowsStores DEF Owners, dirs
  <2>13. LocalsOK(f, "bsync", M)
    <3>1. LocalsOK(f, "alloc", M)
      BY <2>6, <2>10, GrowsLocals
    <3>2. Allocating(f, "alloc", M) /\ TableIn(f, M)
      BY <3>1, LocalsAt
    <3>3. Awaits(f, M.ret, M)
      BY <3>2 DEF Allocating, Awaits
    <3>4. ForInode(f, M.ret, M) = k
      BY <2>4, <2>9 DEF ForInode
    <3>5. f.who[b] = k /\ b \in f.used /\ (b \in f.tabs <=> M.ret = "fw_table")
      BY <2>1, <2>4, <2>8, <2>9
    <3>6. Given(f, M.ret, M, f.used)
      BY <2>5, <3>4, <3>5 DEF Given
    <3>7. QED
      BY <2>4, <3>2, <3>3, <3>6 DEF LocalsOK, LocalsOf, Allocating
  <2>14. /\ DOMAIN pc' = Proc /\ DOMAIN loc' = Proc
         /\ \A q \in Proc \ {p} : pc'[q] = pc[q] /\ loc'[q] = loc[q]
         /\ \/ pc'[p] = "bsync" /\ loc'[p] = M
            \/ pc'[p] = pc[p] /\ loc'[p] = loc[p]
    BY <2>2, <2>7 DEF Owners
  <2>15. LocalsOK(f, pc[p], loc[p])
    <3>1. LocalsOK(e, pc[p], loc[p])
      BY <2>7 DEF Owners
    <3>2. QED
      BY <2>10, <3>1, GrowsLocals
  <2>16. LocalsOK(f, pc'[p], loc'[p])
    BY <2>13, <2>14, <2>15
  <2>17. QED
    BY <2>7, <2>8, <2>10, <2>11, <2>12, <2>14, <2>16, Step DEF f
<1>5. QED
  BY <1>3, <1>4

\* The bitmap of blocks is written.
LEMMA BlockSync ==
  ASSUME NEW e, Seen(e), NEW p \in Proc, block_bitmap_sync(p), UNCHANGED dirs PROVE Grown(e)
<1> DEFINE L == loc[p]
           l == L.ret
<1>1. /\ pc[p] = "bsync" /\ UNCHANGED << memory, dirs, loc >>
      /\ disk' = [disk EXCEPT !.bbits = block_bitmap] /\ pc' = [pc EXCEPT ![p] = l]
  BY DEF block_bitmap_sync, Runs, At, ThenAt
<1>2. LocalsOK(e, "bsync", L)
  BY <1>1, Same DEF Owners
<1> HIDE DEF l
<1>3. PICK who \in [Block -> Ino], tabs \in SUBSET Block : e = View(who, tabs) /\ Owners(e)
  BY DEF Seen
<1> DEFINE f == View(who, tabs)'
<1>4. OnTheDisk(e, disk)
  BY <1>3 DEF Owners
<1>5. /\ disk' = [bbits |-> block_bitmap, ibits |-> disk.ibits, itable |-> disk.itable, block |-> disk.block]
      /\ disk'.bbits = block_bitmap /\ disk'.ibits = disk.ibits
      /\ disk'.itable = disk.itable /\ disk'.block = disk.block
  BY <1>1, <1>4 DEF OnTheDisk
<1>6. /\ f.synced = block_bitmap /\ f.used = e.used /\ f.no = e.no /\ f.inode = e.inode
      /\ f.who = e.who /\ f.tabs = e.tabs
      /\ e.used = block_bitmap /\ e.synced = disk.bbits
  BY <1>1, <1>3, <1>5 DEF View, dirs, memory
<1> HIDE DEF f
<1>7. Grows(e, f) /\ Allocated(f) /\ f.synced \subseteq Block
  BY <1>3, <1>6, Same DEF Grows, Allocated, Owners
<1>8. OnTheDisk(f, disk')
  <2>1. OnTheDisk(f, disk)
    BY <1>4, <1>7, GrowsStores
  <2>2. QED
    BY <1>5, <2>1 DEF OnTheDisk
<1>9. /\ InMemoryOf(f, open_inodes') /\ Entered(open_inodes', dentries')
      /\ inode_bitmap' \subseteq Ino /\ cwd' \in DOMAIN dentries'
  BY <1>1, <1>3, <1>7, GrowsStores DEF Owners, dirs, memory
<1>10. LocalsOK(f, l, L)
  <2>1. LocalsOK(f, "bsync", L)
    BY <1>2, <1>7, GrowsLocals
  <2>2. Allocating(f, "bsync", L) /\ TableIn(f, L)
    BY <2>1, LocalsAt
  <2>3. Awaits(f, l, L) /\ Given(f, l, L, f.synced)
    BY <1>6, <2>2 DEF Allocating, Awaits, l
  <2>4. QED
    BY <2>2, <2>3 DEF LocalsOK, LocalsOf, Allocating
<1>11. /\ DOMAIN pc' = Proc /\ DOMAIN loc' = Proc /\ pc'[p] = l /\ loc'[p] = L
       /\ \A q \in Proc \ {p} : pc'[q] = pc[q] /\ loc'[q] = loc[q]
  BY <1>1, <1>3 DEF Owners
<1>12. QED
  BY <1>3, <1>7, <1>8, <1>9, <1>10, <1>11, Step DEF f
-----------------------------------------------------------------------------
\* A call that writes an inode back keeps what it needs, and so does its table.
LEMMA SyncsOn ==
  ASSUME NEW e, NEW L, Syncs(e, L), TableIn(e, L), NEW r, DOMAIN r \subseteq {"buf"}
  PROVE  LET M == r ++ L
         IN Syncs(e, M) /\ TableIn(e, M)
<1> DEFINE M == r ++ L
<1>1. \A x \in DOMAIN L \ {"buf"} : x \in DOMAIN M /\ M[x] = L[x]
  BY DEF ++
<1>2. \A x \in DOMAIN M \ {"buf"} : x \in DOMAIN L
  BY DEF ++
<1>3. {"call", "inode", "copy", "ret"} \subseteq DOMAIN L
  BY DEF Syncs, Call_in, Inode_in
<1> HIDE DEF M
<1>4. /\ {"call", "inode", "copy", "ret"} \subseteq DOMAIN M
      /\ M.call = L.call /\ M.inode = L.inode /\ M.copy = L.copy /\ M.ret = L.ret
  BY <1>1, <1>3
<1>5. File_in(M)
  BY <1>1, <1>4 DEF File_in, Syncs
<1>6. "end" \in DOMAIN L => "end" \in DOMAIN M /\ M.end = L.end
  BY <1>1
<1>7. Syncs(e, M)
  BY <1>4, <1>5, <1>6 DEF Syncs, Call_in, Inode_in
<1>8. "tab" \in DOMAIN M => "tab" \in DOMAIN L /\ M.tab = L.tab
  BY <1>1, <1>2
<1>9. L # << >>
  BY <1>3
<1>10. TableIn(e, M)
  BY <1>4, <1>8, <1>9 DEF TableIn, Inode_in, Tabled
<1>11. QED
  BY <1>7, <1>10 DEF M

\* The sector of the inode is read,
LEMMA InodeSyncRead ==
  ASSUME NEW e, Seen(e), NEW p \in Proc, inode_sync_read(p), UNCHANGED dirs PROVE Grown(e)
<1> DEFINE L == [buf |-> disk.itable] ++ loc[p]
<1>1. pc[p] = "isync_read" /\ UNCHANGED << disk, memory, dirs >>
  BY DEF inode_sync_read, Runs, At
<1>2. Syncs(e, loc[p]) /\ TableIn(e, loc[p])
  BY <1>1, Known DEF Syncing
<1>3. Syncs(e, L) /\ TableIn(e, L)
  BY <1>2, SyncsOn
<1>4. "buf" \in DOMAIN L /\ InodesOf(e, L.buf)
  <2>1. L.buf = disk.itable \/ ("buf" \in DOMAIN loc[p])
    BY DEF ++
  <2>2. "buf" \in DOMAIN L /\ L.buf = disk.itable
    BY DEF ++
  <2> HIDE DEF L
  <2>3. QED
    BY <2>2, Same DEF Owners, OnTheDisk
<1>5. loc' = [loc EXCEPT ![p] = L] /\ pc' = [pc EXCEPT ![p] = "isync_write"]
  BY DEF inode_sync_read, Put, ThenAt
<1> HIDE DEF L
<1>6. LocalsOK(e, "isync_write", L)
  BY <1>3, <1>4 DEF LocalsOK, LocalsOf, Syncing
<1>7. cwd' \in DOMAIN dentries /\ UNCHANGED << disk, memory, dentries >>
  BY <1>1, Same DEF Owners, dirs
<1>8. QED
  BY <1>5, <1>6, <1>7, LocalStep

\* The call that has written an inode goes on.
LEMMA SyncedOK ==
  ASSUME NEW e, NEW L, Syncs(e, L), TableIn(e, L)
  PROVE  LocalsOK(e, L.ret, [buf |-> NULL, copy |-> NULL] ++ L)
<1> DEFINE M == [buf |-> NULL, copy |-> NULL] ++ L
<1>1. \A x \in DOMAIN L \ {"buf", "copy"} : x \in DOMAIN M /\ M[x] = L[x]
  BY DEF ++
<1>2. \A x \in DOMAIN M \ {"buf", "copy"} : x \in DOMAIN L
  BY DEF ++
<1>3. {"call", "inode", "ret"} \subseteq DOMAIN L
  BY DEF Syncs, Call_in, Inode_in
<1> HIDE DEF M
<1>4. {"call", "inode", "ret"} \subseteq DOMAIN M /\ M.call = L.call /\ M.inode = L.inode
  BY <1>1, <1>3
<1>5. File_in(M)
  BY <1>1, <1>4 DEF File_in, Syncs
<1>6. "end" \in DOMAIN L => "end" \in DOMAIN M /\ M.end = L.end
  BY <1>1
<1>7. "tab" \in DOMAIN M => "tab" \in DOMAIN L /\ M.tab = L.tab
  BY <1>1, <1>2
<1>8. L # << >>
  BY <1>3
<1>9. TableIn(e, M)
  BY <1>4, <1>7, <1>8 DEF TableIn, Inode_in, Tabled
<1>10. Syncing(e, L.ret, M)
  BY <1>4, <1>5, <1>6 DEF Syncs, Syncing, Call_in
<1>11. QED
  BY <1>9, <1>10 DEF LocalsOK, LocalsOf, M

\* and written with the inode in it;
LEMMA InodeSyncWrite ==
  ASSUME NEW e, Seen(e), NEW p \in Proc, inode_sync_write(p), UNCHANGED dirs PROVE Grown(e)
<1> DEFINE k == open_inodes[loc[p].inode].no
           L == [buf |-> NULL, copy |-> NULL] ++ loc[p]
           l == loc[p].ret
<1>1. pc[p] = "isync_write" /\ UNCHANGED << memory, dirs >>
  BY DEF inode_sync_write, Runs, At
<1>2. Syncs(e, loc[p]) /\ InodesOf(e, loc[p].buf) /\ TableIn(e, loc[p])
  BY <1>1, Known DEF Syncing
<1>3. LocalsOK(e, l, L)
  BY <1>2, SyncedOK
<1>4. loc' = [loc EXCEPT ![p] = L] /\ pc' = [pc EXCEPT ![p] = l]
  BY DEF inode_sync_write, Put, ThenAt
<1> DEFINE t == [loc[p].buf EXCEPT ![k] = loc[p].copy]
<1>5. disk' = [disk EXCEPT !.itable = t]
  BY DEF inode_sync_write
<1>6. e.no[loc[p].inode] = k
  BY <1>2, Same DEF Syncs, Inode_in
<1> HIDE DEF k, l, L
<1>7. InodesOf(e, t)
  <2>1. SectorsOf(e, k, loc[p].copy.sectors) /\ loc[p].copy \in DiskInode
    BY <1>2, <1>6 DEF Syncs
  <2>2. QED
    BY <1>2, <2>1 DEF InodesOf
<1> HIDE DEF t
<1>8. OnTheDisk(e, disk)
  BY Same DEF Owners
<1>9. OnTheDisk(e, disk') /\ disk'.bbits = disk.bbits
  <2>1. disk' = [bbits |-> disk.bbits, ibits |-> disk.ibits, itable |-> t, block |-> disk.block]
    BY <1>5, <1>8 DEF OnTheDisk
  <2>2. QED
    BY <1>7, <1>8, <2>1 DEF OnTheDisk
<1>10. QED
  BY <1>1, <1>3, <1>4, <1>9, DiskChange

\* then the bitmap of inodes, if its bit is one of the first.
LEMMA InodeBitmapSync ==
  ASSUME NEW e, Seen(e), NEW p \in Proc, inode_bitmap_sync(p), UNCHANGED dirs PROVE Grown(e)
<1>1. pc[p] = "ibsync" /\ UNCHANGED << disk, memory, dirs, loc >>
  BY DEF inode_bitmap_sync, Runs, At
<1>2. CASE UNCHANGED pc
  BY <1>1, <1>2, NoStep
<1>3. CASE pc' = [pc EXCEPT ![p] = "ibsync_write"]
  <2>1. LocalsOK(e, "ibsync_write", loc[p])
    BY <1>1, Known DEF Syncing, LocalsOK, LocalsOf
  <2>2. cwd' \in DOMAIN dentries /\ UNCHANGED << disk, memory, dentries >>
    BY <1>1, Same DEF Owners, dirs
  <2>3. QED
    BY <1>1, <1>3, <2>1, <2>2, LocalStep
<1>4. QED
  BY <1>2, <1>3 DEF inode_bitmap_sync, ThenAt, Panic
LEMMA InodeBitmapWrite ==
  ASSUME NEW e, Seen(e), NEW p \in Proc, inode_bitmap_write(p), UNCHANGED dirs PROVE Grown(e)
<1>1. /\ pc[p] = "ibsync_write" /\ UNCHANGED << memory, dirs, loc >>
      /\ disk' = [disk EXCEPT !.ibits = inode_bitmap] /\ pc' = [pc EXCEPT ![p] = "created"]
  BY DEF inode_bitmap_write, Runs, At, ThenAt
<1>2. LocalsOK(e, "created", loc[p])
  BY <1>1, Known DEF Syncing, LocalsOK, LocalsOf
<1>3. OnTheDisk(e, disk) /\ inode_bitmap \subseteq Ino /\ DOMAIN loc = Proc
  BY Same DEF Owners
<1>4. OnTheDisk(e, disk') /\ disk'.bbits = disk.bbits
  <2>1. disk' = [bbits |-> disk.bbits, ibits |-> inode_bitmap, itable |-> disk.itable, block |-> disk.block]
    BY <1>1, <1>3 DEF OnTheDisk
  <2>2. QED
    BY <1>3, <2>1 DEF OnTheDisk
<1>5. QED
  BY <1>1, <1>2, <1>4, DiskChange

\* So each step of fs/inode.c keeps the owners.
LEMMA InodeSteps ==
  ASSUME NEW e, Seen(e), NEW p \in Proc, InodeStep(p), UNCHANGED dirs PROVE Grown(e)
BY BlockAlloc, BlockSync, InodeSyncRead, InodeSyncWrite, InodeBitmapSync, InodeBitmapWrite
   DEF InodeStep

-----------------------------------------------------------------------------
\* The calls of directories.
LEMMA ChDir ==
  ASSUME NEW e, Seen(e), NEW p \in Proc, sys_chdir(p) PROVE Grown(e)
<1>1. UNCHANGED << disk, memory, dentries >>
  BY DEF sys_chdir
<1>2. CASE UNCHANGED << pc, loc, cwd >>
  BY <1>1, <1>2, NoStep DEF dirs
<1>3. CASE Return(p) /\ (UNCHANGED cwd \/ (loc[p].child # 0 /\ cwd' = loc[p].child))
  <2>1. pc[p] = "walk"
    BY DEF sys_chdir, Parsed, Runs, At
  <2>2. loc[p].child \in DOMAIN dentries \cup {0}
    BY <2>1, Known, Same DEF Looking, Walks
  <2>3. cwd' \in DOMAIN dentries
    BY <1>3, <2>2, Same DEF Owners
  <2>4. QED
    BY <1>1, <1>3, <2>3, ReturnStep
<1>4. QED
  BY <1>2, <1>3 DEF sys_chdir, Panic

\* mkdir() begins to create.
LEMMA MkDir ==
  ASSUME NEW e, Seen(e), NEW p \in Proc, sys_mkdirat(p) PROVE Grown(e)
<1>1. UNCHANGED dirs /\ pc[p] = "walk" /\ loc[p].call = "mkdir"
  BY DEF sys_mkdirat, Parsed, Runs, At
<1>2. CASE UNCHANGED << disk, memory, pc, loc >>
  BY <1>1, <1>2, NoStep
<1>3. CASE create(p, TRUE)
  BY <1>1, <1>3, Create DEF At
<1>4. QED
  BY <1>2, <1>3 DEF sys_mkdirat, Panic

\* A call with a path begins.
LEMMA Begins ==
  ASSUME NEW e, Seen(e), NEW p \in Proc, NEW path, mkdir(p, path) \/ chdir(p, path)
  PROVE  Grown(e)
<1> DEFINE r(call) == [call |-> call, fd |-> 0]
<1>1. \A call : DOMAIN r(call) = {"call", "fd"} /\ r(call).call = call
  OBVIOUS
<1>2. PICK call \in {"mkdir", "chdir"} : parse_path(p, r(call), path)
  BY DEF mkdir, chdir
<1>3. UNCHANGED << disk, memory, dirs >>
  BY DEF mkdir, chdir
<1>4. Call_in(r(call), {"open", "mkdir", "chdir"})
  BY <1>1 DEF Call_in
<1> HIDE DEF r
<1>5. QED
  BY <1>1, <1>2, <1>3, <1>4, ParsePath

\* So each step of fs/dir.c keeps the owners.
LEMMA DirectorySteps ==
  ASSUME NEW e, Seen(e), NEW p \in Proc, DirectoryStep(p) PROVE Grown(e)
<1>1. CASE dir_create(p)
  <2> DEFINE r == [call |-> "mkdir", written |-> TRUE]
  <2>1. /\ DOMAIN r \subseteq {"call", "fd", "f", "written"}
        /\ Call_in(r, {"open", "mkdir"}) /\ File_in(r)
    BY DEF Call_in, File_in
  <2>2. dir_written(p, r) /\ pc[p] = "dirw_end"
    BY <1>1 DEF dir_create, Runs, At
  <2> HIDE DEF r
  <2>3. QED
    BY <2>1, <2>2, DirWritten
<1>2. CASE mkdir_end(p)
  <2>1. cwd' \in DOMAIN dentries /\ UNCHANGED << disk, memory, dentries >> /\ Return(p)
    BY <1>2, Same DEF mkdir_end, Owners, dirs
  <2>2. QED
    BY <2>1, ReturnStep
<1>3. dir_write(p) => UNCHANGED dirs
  BY DEF dir_write
<1>4. QED
  BY <1>1, <1>2, <1>3, SearchDentry, SearchBlock, InodeOpen, DirWrite, DirWriteZero, DirWriteRead,
     DirWriteWrite, DirWriteDots, DirWriteDotsWrite, Begins, MkDir, ChDir DEF DirectoryStep
-----------------------------------------------------------------------------
\* The calls that open and close.
LEMMA OpenStep ==
  ASSUME NEW e, Seen(e), NEW p \in Proc, NEW path, NEW creat, open(p, path, creat) PROVE Grown(e)
<1> DEFINE r == [call |-> "open", fd |-> Min(Fd \ open_fds), creat |-> creat]
<1>1. /\ DOMAIN r \subseteq {"call", "fd", "creat"} /\ "fd" \in DOMAIN r
      /\ Call_in(r, {"open", "mkdir", "chdir"})
  BY DEF Call_in
<1>2. parse_path(p, r, path) /\ UNCHANGED << disk, memory, dirs >>
  BY DEF open
<1> HIDE DEF r
<1>3. QED
  BY <1>1, <1>2, ParsePath

\* A creation begins and ends.
LEMMA OpensStep ==
  ASSUME NEW e, Seen(e), NEW p \in Proc, filp_openat_create(p) \/ file_create(p) PROVE Grown(e)
<1>1. CASE filp_openat_create(p)
  <2>1. UNCHANGED dirs /\ At(p, "walk") /\ loc[p].call = "open" /\ create(p, FALSE)
    BY <1>1 DEF filp_openat_create, Parsed, Runs
  <2>2. QED
    BY <2>1, Create
<1>2. CASE file_create(p)
  <2> DEFINE r == [call |-> "open", fd |-> loc[p].fd, f |-> get_free_file, written |-> TRUE]
  <2>1. /\ DOMAIN r \subseteq {"call", "fd", "f", "written"}
        /\ Call_in(r, {"open", "mkdir"}) /\ File_in(r)
    BY DEF Call_in, File_in
  <2>2. dir_written(p, r) /\ pc[p] = "dirw_end"
    BY <1>2 DEF file_create, Runs, At
  <2> HIDE DEF r
  <2>3. QED
    BY <2>1, <2>2, DirWritten
<1>3. QED
  BY <1>1, <1>2

\* The steps with which a call returns.
LEMMA ReturnsStep ==
  ASSUME NEW e, Seen(e), NEW p \in Proc,
         filp_openat_none(p) \/ filp_openat(p) \/ install_fd(p) \/ write_done(p) \/ read_end(p)
  PROVE  Grown(e)
<1>1. UNCHANGED << disk, memory, dirs >> /\ (Return(p) \/ UNCHANGED << pc, loc >>)
  BY DEF filp_openat_none, filp_openat, install_fd, write_done, read_end, Panic
<1>2. cwd' \in DOMAIN dentries /\ UNCHANGED << disk, memory, dentries >>
  BY <1>1, Same DEF Owners, dirs
<1>3. CASE Return(p)
  BY <1>2, <1>3, ReturnStep
<1>4. CASE UNCHANGED << pc, loc >>
  BY <1>1, <1>4, NoStep
<1>5. QED
  BY <1>1, <1>3, <1>4

\* The steps with which the machine stops.
LEMMA StopsStep ==
  ASSUME NEW e, Seen(e), NEW p \in Proc, filp_openat_slash(p) \/ write_too_much(p)
  PROVE  Grown(e)
<1>1. UNCHANGED << disk, memory, dirs, pc, loc >>
  BY DEF filp_openat_slash, write_too_much, Panic
<1>2. QED
  BY <1>1, NoStep

\* The file of a descriptor that a call has returned.
LEMMA FileOf ==
  ASSUME Descriptors, NEW e, Seen(e), NEW fd \in Returned
  PROVE  LET s == fd_array[fd]
         IN /\ file_table[s].f_dentry \in DOMAIN dentries /\ file_table[s].pos \in Nat
            /\ FileInode(s) \in DOMAIN open_inodes /\ e.no[FileInode(s)] = open_inodes[FileInode(s)].no
            /\ open_inodes[FileInode(s)] \in MemInode
            /\ SectorsOf(e, e.no[FileInode(s)], open_inodes[FileInode(s)].sectors)
<1> DEFINE s == fd_array[fd]
           d == file_table[s].f_dentry
           i == dentries[d].inode
<1>1. fd \in Fd /\ Uses(fd, s)
  BY DEF Uses, Returned, Descriptors, Numbered
<1>2. s \in Slot /\ d \in DOMAIN dentries
  BY <1>1 DEF Descriptors, Slotted
<1>3. file_table[s].pos \in Nat
  BY <1>2 DEF Descriptors, OpenFile
<1>4. i \in DOMAIN open_inodes /\ InMemoryOf(e, open_inodes)
  BY <1>2, Same DEF Owners, Entered
<1>5. open_inodes[i] \in MemInode
  <2>1. open_inodes \in Seq(MemInode)
    BY <1>4 DEF InMemoryOf
  <2> HIDE DEF i
  <2>2. QED
    BY <1>4, <2>1, LenProperties, ElementOfSeq
<1>6. SectorsOf(e, open_inodes[i].no, open_inodes[i].sectors) /\ e.no[i] = open_inodes[i].no
  BY <1>4, Same DEF InMemoryOf
<1>7. QED
  BY <1>2, <1>3, <1>4, <1>5, <1>6 DEF FileInode

\* close() changes a use count.
LEMMA CloseStep ==
  ASSUME Descriptors, NEW e, Seen(e), NEW p \in Proc, NEW fd, close(p, fd) PROVE Grown(e)
<1> DEFINE d == file_table[fd_array[fd]].f_dentry
           n == IF d = 1 THEN dentries[d].count ELSE dentries[d].count - 1
<1>1. UNCHANGED << disk, memory, cwd, pc, loc >>
  BY DEF close, Panic, control
<1>2. d \in DOMAIN dentries
  BY FileOf DEF close
<1>3. CASE UNCHANGED dentries
  BY <1>1, <1>3, NoStep DEF dirs
<1>4. CASE dentries' = [dentries EXCEPT ![d].count = IF d = 1 THEN @ ELSE @ - 1]
  <2>1. dentries' = Used(dentries, d, n) /\ Entered(open_inodes, dentries) /\ InMemoryOf(e, open_inodes)
    BY <1>4, Same DEF Owners, Used
  <2> HIDE DEF d, n
  <2>2. /\ Entered(open_inodes, dentries') /\ DOMAIN dentries' = DOMAIN dentries
        /\ \A c \in DOMAIN dentries : dentries'[c].inode = dentries[c].inode
    BY <1>2, <2>1, Counts
  <2>3. LocalsOK(e, pc[p], loc[p])
    BY Same DEF Owners
  <2>4. QED
    BY <1>1, <2>1, <2>2, <2>3, InodeChange DEF memory
<1>5. QED
  BY <1>3, <1>4 DEF close

-----------------------------------------------------------------------------
\* The calls that read.
LEMMA ReadsOn ==
  ASSUME NEW e, NEW l \in {"fr_loop", "fr_slot", "fr_read", "tab_read"}, NEW L, Reads(L), NEW r,
         {"call", "end"} \cap DOMAIN r = {}, l = "tab_read" => "ret" \in DOMAIN r /\ r.ret = "fr_slot"
  PROVE  LocalsOK(e, l, r ++ L)
<1> DEFINE M == r ++ L
<1>1. "call" \in DOMAIN L /\ "end" \in DOMAIN L /\ L.call = "read"
  BY DEF Reads, Call_in
<1>2. /\ {"call", "end"} \subseteq DOMAIN M /\ M.call = L.call /\ M.end = L.end
      /\ "ret" \in DOMAIN r => "ret" \in DOMAIN M /\ M.ret = r.ret
  BY <1>1 DEF ++
<1> HIDE DEF M
<1>3. Reads(M)
  BY <1>2 DEF Reads, Call_in
<1>4. QED
  BY <1>2, <1>3, <1>1 DEF LocalsOK, LocalsOf, Reading, TableIn, M

\* A reader goes on,
LEMMA ReadingStep ==
  ASSUME NEW e, Seen(e), UNCHANGED << disk, memory, dirs >>, NEW p \in Proc, Reads(loc[p]),
         NEW l \in {"fr_loop", "fr_slot", "fr_read", "tab_read"}, NEW r, Put(p, r), ThenAt(p, l),
         {"call", "end"} \cap DOMAIN r = {}, l = "tab_read" => "ret" \in DOMAIN r /\ r.ret = "fr_slot"
  PROVE  Grown(e)
<1> DEFINE L == r ++ loc[p]
<1>1. LocalsOK(e, l, L)
  BY ReadsOn
<1>2. loc' = [loc EXCEPT ![p] = L] /\ pc' = [pc EXCEPT ![p] = l]
  BY DEF Put, ThenAt
<1> HIDE DEF L
<1>3. cwd' \in DOMAIN dentries /\ UNCHANGED << disk, memory, dentries >>
  BY Same DEF Owners, dirs
<1>4. QED
  BY <1>1, <1>2, <1>3, LocalStep

\* to a block,
LEMMA ReadBlock ==
  ASSUME NEW e, Seen(e), UNCHANGED << disk, memory, dirs >>, NEW p \in Proc, Reads(loc[p]),
         NEW lba, read_block(p, lba)
  PROVE  Grown(e)
<1>1. CASE UNCHANGED << pc, loc >>
  BY <1>1, NoStep
<1>2. CASE Put(p, [lba |-> lba]) /\ ThenAt(p, "fr_read")
  BY <1>2, ReadingStep
<1>3. QED
  BY <1>1, <1>2 DEF read_block, Panic

\* and through the loop.
LEMMA ReadSteps ==
  ASSUME NEW e, Seen(e), NEW p \in Proc, read_loop(p) \/ read_slot(p) \/ read_read(p)
  PROVE  Grown(e)
<1>1. pc[p] \in {"fr_loop", "fr_slot", "fr_read"} /\ UNCHANGED << disk, memory, dirs >>
  BY DEF read_loop, read_slot, read_read, Runs, At
<1>2. Reads(loc[p])
  BY <1>1, Known DEF Reading
<1>3. CASE read_loop(p)
  <2>1. CASE read_block(p, Next_lba(p))
    BY <1>1, <1>2, <2>1, ReadBlock
  <2>2. CASE /\ Put(p, [lba |-> Pointer(loc[p].inode, NDIRECT), ret |-> "fr_slot"])
             /\ ThenAt(p, "tab_read")
    BY <1>1, <1>2, <2>2, ReadingStep
  <2>3. QED
    BY <1>3, <2>1, <2>2 DEF read_loop
<1>4. CASE read_slot(p)
  <2>1. CASE ThenAt(p, "fr_loop") /\ UNCHANGED loc
    <3>1. LocalsOK(e, "fr_loop", loc[p])
      BY <1>2 DEF LocalsOK, LocalsOf, Reading, TableIn, Reads, Call_in
    <3>2. cwd' \in DOMAIN dentries /\ UNCHANGED << disk, memory, dentries >>
      BY <1>1, Same DEF Owners, dirs
    <3>3. QED
      BY <2>1, <3>1, <3>2, LocalStep DEF ThenAt
  <2>2. CASE read_block(p, InTable(p))
    BY <1>1, <1>2, <2>2, ReadBlock
  <2>3. QED
    BY <1>4, <2>1, <2>2 DEF read_slot
<1>5. CASE read_read(p)
  <2> DEFINE r == [got |-> loc[p].got \o
                     [k \in 1 .. Piece(p) |-> Contents(loc[p].lba)[Offset(p) + k - 1]],
                   lba |-> 0, at |-> loc[p].at + Piece(p)]
  <2>1. {"call", "end"} \cap DOMAIN r = {}
    OBVIOUS
  <2>2. Put(p, r) /\ ThenAt(p, "fr_loop")
    BY <1>5 DEF read_read
  <2> HIDE DEF r
  <2>3. QED
    BY <1>1, <1>2, <2>1, <2>2, ReadingStep
<1>6. QED
  BY <1>3, <1>4, <1>5

\* A read begins with the inode of its descriptor.
LEMMA ReadBegins ==
  ASSUME Descriptors, NEW e, Seen(e), NEW p \in Proc, NEW fd, NEW n \in Nat, read(p, fd, n)
  PROVE  Grown(e)
<1> DEFINE s == fd_array[fd]
           i == FileInode(s)
           pos == file_table[s].pos
           L == [call |-> "read", f |-> s, inode |-> i, at |-> pos,
                 start |-> pos, n |-> n, end |-> Min({Size(i), pos + n}), tab |-> NULL,
                 got |-> << >>]
           M == [lba |-> Pointer(L.inode, NDIRECT), ret |-> "fr_slot"] ++ L
<1>1. pos \in Nat /\ open_inodes[i] \in MemInode
  BY FileOf DEF read
<1>2. L.end \in Nat
  <2>1. {Size(i), pos + n} \in SUBSET Nat
    BY <1>1 DEF MemInode, Size
  <2>2. QED
    BY <2>1, LeastIn
<1>3. UNCHANGED << disk, memory, dirs >> /\ cwd' \in DOMAIN dentries /\ UNCHANGED dentries
  BY Same DEF read, Owners, dirs
<1>4. \/ UNCHANGED << pc, loc >>
      \/ loc' = [loc EXCEPT ![p] = L] /\ pc' = [pc EXCEPT ![p] = "fr_loop"]
      \/ loc' = [loc EXCEPT ![p] = M] /\ pc' = [pc EXCEPT ![p] = "tab_read"]
  BY DEF read, Begin, Panic, Local, ThenAt
<1>5. Reads(L) /\ L.call = "read"
  BY <1>2 DEF Reads, Call_in
<1>6. LocalsOK(e, "fr_loop", L)
  <2> HIDE DEF L
  <2>1. QED
    BY <1>5 DEF LocalsOK, LocalsOf, Reading, TableIn
<1>7. LocalsOK(e, "tab_read", M)
  <2> HIDE DEF L
  <2>1. QED
    BY <1>5, ReadsOn
<1> HIDE DEF L, M
<1>8. QED
  BY <1>3, <1>4, <1>6, <1>7, NoStep, LocalStep
-----------------------------------------------------------------------------
\* A piece goes at most to the beginning of the next block.
LEMMA NextBlock ==
  ASSUME NEW a \in Nat, NEW u \in Nat \ {0}, NEW m \in Nat, m <= u - (a % u)
  PROVE  (a + m) \div u <= (a \div u) + 1
<1> DEFINE q == a \div u
           r == a % u
           t == (a + m) \div u
           v == (a + m) % u
<1>1. q \in Nat /\ r \in Nat /\ a = u * q + r /\ t \in Nat /\ v \in Nat /\ a + m = u * t + v
  OBVIOUS
<1>2. m <= u - r
  OBVIOUS
<1> HIDE DEF q, r, t, v
<1>3. t <= q + 1
  <2> SUFFICES ASSUME t > q + 1 PROVE FALSE
    BY <1>1
  <2>1. PICK x \in Nat : t = q + 2 + x
    <3>1. t - (q + 2) \in Nat /\ t = q + 2 + (t - (q + 2))
      BY <1>1
    <3>2. QED
      BY <3>1
  <2>2. u * t = u * q + u * 2 + u * x /\ u * x \in Nat /\ u * q \in Nat
    BY <1>1, <2>1
  <2>3. u * t <= u * q + r + (u - r)
    BY <1>1, <1>2, <2>2
  <2>4. QED
    BY <1>1, <2>2, <2>3
<1>4. QED
  BY <1>3 DEF q, t

\* A writer is at a sector.
LEMMA AtSect == ASSUME NEW e, NEW L, Writes(e, L) PROVE Sect(L) \in Nat
<1>1. L.at \in Nat /\ Units \in Nat \ {0}
  BY InodeAssumption DEF Writes
<1>2. QED
  BY <1>1 DEF Sect

\* What is written has a pointer in the inode or in the table.
LEMMA InTheTable ==
  ASSUME NEW e, NEW L, Writes(e, L), Room(L)
  PROVE  /\ Sect(L) \in Nat
         /\ Sect(L) < NDIRECT => Sect(L) \in Pointers \ {NDIRECT}
         /\ Sect(L) >= NDIRECT => Sect(L) - NDIRECT \in 0 .. TabLen - 1
<1>1. Sect(L) \in Nat
  BY AtSect
<1>2. NDIRECT \in Nat /\ TabLen \in Nat
  BY InodeAssumption
<1>3. QED
  BY <1>1, <1>2 DEF Room, Pointers

-----------------------------------------------------------------------------
\* A call that writes a file keeps what it needs, with the locals r.
LEMMA WritesOn ==
  ASSUME NEW e, NEW L, Writes(e, L), TableIn(e, L), NEW r,
         {"call", "inode", "at", "end"} \cap DOMAIN r = {},
         "tab" \in DOMAIN r => TableOf(e, e.no[L.inode], r.tab),
         "sync2" \in DOMAIN r =>
           r.sync2 \in BOOLEAN /\ (r.sync2 => "tab" \in DOMAIN r \/ Tabled(e, L))
  PROVE  LET M == r ++ L
         IN /\ Writes(e, M) /\ TableIn(e, M)
            /\ M.at = L.at /\ M.end = L.end /\ M.inode = L.inode /\ M.call = L.call
            /\ Sect(M) = Sect(L) /\ (Room(L) => Room(M))
            /\ "tab" \in DOMAIN r \/ Tabled(e, L) => Tabled(e, M)
            /\ \A x \in DOMAIN r : x \in DOMAIN M /\ M[x] = r[x]
<1> DEFINE M == r ++ L
<1>1. /\ \A x \in DOMAIN r : x \in DOMAIN M /\ M[x] = r[x]
      /\ \A x \in DOMAIN L \ DOMAIN r : x \in DOMAIN M /\ M[x] = L[x]
  BY DEF ++
<1> HIDE DEF M
<1>2. {"call", "inode", "at", "end", "tab", "sync2"} \subseteq DOMAIN L
  BY DEF Writes, Call_in, Inode_in
<1>3. /\ {"call", "inode", "at", "end", "tab", "sync2"} \subseteq DOMAIN M
      /\ M.at = L.at /\ M.end = L.end /\ M.inode = L.inode /\ M.call = L.call
  BY <1>1, <1>2
<1>4. IF "tab" \in DOMAIN r THEN M.tab = r.tab ELSE M.tab = L.tab
  BY <1>1, <1>2
<1>5. IF "sync2" \in DOMAIN r THEN M.sync2 = r.sync2 ELSE M.sync2 = L.sync2
  BY <1>1, <1>2
<1>6. "tab" \in DOMAIN r \/ Tabled(e, L) => Tabled(e, M)
  BY <1>3, <1>4 DEF Tabled
<1>7. M.sync2 \in BOOLEAN /\ (M.sync2 => TableOf(e, e.no[M.inode], M.tab))
  <2>1. L.sync2 \in BOOLEAN /\ (L.sync2 => Tabled(e, L))
    BY DEF Writes, Tabled
  <2>2. CASE "sync2" \in DOMAIN r
    BY <1>5, <1>6, <2>2 DEF Tabled
  <2>3. CASE "sync2" \notin DOMAIN r
    BY <1>5, <1>6, <2>1, <2>3 DEF Tabled
  <2>4. QED
    BY <2>2, <2>3
<1>8. Writes(e, M)
  BY <1>3, <1>7 DEF Writes, Call_in, Inode_in
<1>9. TableIn(e, M)
  <2>1. L # << >> /\ L.call = "write"
    BY <1>2 DEF Writes, Call_in
  <2>2. L.tab = NULL \/ Tabled(e, L)
    BY <1>2, <2>1 DEF TableIn
  <2>3. M.tab = NULL \/ Tabled(e, M)
    BY <1>4, <1>6, <2>2
  <2>4. Inode_in(e, M)
    BY <1>8 DEF Writes
  <2>5. QED
    BY <2>3, <2>4 DEF TableIn
<1>10. Sect(M) = Sect(L) /\ (Room(L) => Room(M))
  BY <1>3 DEF Sect, Room
<1>11. QED
  BY <1>1, <1>3, <1>6, <1>8, <1>9, <1>10 DEF M

\* The inode of the file that is written.
LEMMA WritesTo ==
  ASSUME NEW e, Seen(e), NEW L, Writes(e, L)
  PROVE  LET i == L.inode
         IN /\ i \in DOMAIN open_inodes /\ e.no[i] = open_inodes[i].no /\ open_inodes[i] \in MemInode
            /\ SectorsOf(e, e.no[i], open_inodes[i].sectors)
            /\ InMemoryOf(e, open_inodes) /\ Entered(open_inodes, dentries)
<1> DEFINE i == L.inode
<1>1. i \in DOMAIN open_inodes /\ InMemoryOf(e, open_inodes) /\ e.no[i] = open_inodes[i].no
  BY Same DEF Writes, Inode_in, Owners
<1>2. open_inodes \in Seq(MemInode)
  BY <1>1 DEF InMemoryOf
<1>3. open_inodes[i] \in MemInode
  <2> HIDE DEF i
  <2>1. QED
    BY <1>1, <1>2, LenProperties, ElementOfSeq
<1>4. QED
  BY <1>1, <1>3, Same DEF InMemoryOf, Owners

\* What the steps that write a file begin with.
LEMMA WritingAt ==
  ASSUME NEW e, Seen(e), NEW p \in Proc
  PROVE  LET l == pc[p]
             L == loc[p]
         IN /\ l = "fw_loop" => Writes(e, L) /\ (Sect(L) > NDIRECT => Tabled(e, L))
            /\ l \in {"fw_slot", "fw_read", "fw_write", "fw_got"} => WritesBlock(e, L) /\ Writes(e, L)
            /\ l = "fw_slot" => Sect(L) >= NDIRECT
            /\ l \in {"fw_read", "fw_write"} => PlainBlock(e, L)
            /\ l \in {"fw_got", "fw_table"} => Given(e, l, L, e.synced)
            /\ l \in {"fw_table", "tab_zero"} => Writes(e, L) /\ Room(L) /\ Sect(L) = NDIRECT
            /\ l = "tab_write" =>
                 Writes(e, L) /\ Tabled(e, L) /\ "lba" \in DOMAIN L /\ Tab_of(e, e.no[L.inode], L.lba)
            /\ TableIn(e, L)
<1>1. pc[p] = "fw_loop" => Writing(e, pc[p], loc[p])
  BY Known
<1>2. pc[p] \in {"fw_slot", "fw_read", "fw_write"} => Writing(e, pc[p], loc[p])
  BY Known
<1>3. pc[p] \in {"fw_got", "fw_table"} => Allocating(e, pc[p], loc[p])
  BY Known
<1>4. pc[p] \in {"tab_zero", "tab_write"} => WritingTable(e, pc[p], loc[p])
  BY Known
<1>5. /\ pc[p] = "fw_got" => WritesBlock(e, loc[p]) /\ Given(e, pc[p], loc[p], e.synced)
      /\ pc[p] = "fw_table" =>
           Writes(e, loc[p]) /\ Room(loc[p]) /\ Sect(loc[p]) = NDIRECT /\ Given(e, pc[p], loc[p], e.synced)
  BY <1>3 DEF Allocating, Awaits
<1>6. /\ pc[p] = "fw_loop" => Writes(e, loc[p]) /\ (Sect(loc[p]) > NDIRECT => Tabled(e, loc[p]))
      /\ pc[p] \in {"fw_slot", "fw_read", "fw_write"} => WritesBlock(e, loc[p])
      /\ pc[p] = "fw_slot" => Sect(loc[p]) >= NDIRECT
      /\ pc[p] \in {"fw_read", "fw_write"} => PlainBlock(e, loc[p])
  BY <1>1, <1>2 DEF Writing
<1>7. TableIn(e, loc[p])
  BY Known
<1>8. /\ pc[p] = "tab_zero" => Writes(e, loc[p]) /\ Room(loc[p]) /\ Sect(loc[p]) = NDIRECT
      /\ pc[p] = "tab_write" => /\ Writes(e, loc[p]) /\ Tabled(e, loc[p]) /\ "lba" \in DOMAIN loc[p]
                                /\ Tab_of(e, e.no[loc[p].inode], loc[p].lba)
  BY <1>4 DEF WritingTable
<1>9. \A L : WritesBlock(e, L) => Writes(e, L)
  BY DEF WritesBlock
<1>10. QED
  BY <1>5, <1>6, <1>7, <1>8, <1>9

\* The pointer to the block at which it is: of a block of data, if any.
LEMMA NextLba ==
  ASSUME NEW e, Seen(e), NEW p \in Proc, WritesBlock(e, loc[p])
  PROVE  /\ Data_of(e, e.no[loc[p].inode], Next_lba(p))
         /\ Sec(p) >= NDIRECT => InTable(p) = Next_lba(p)
<1>1. Writes(e, loc[p]) /\ Room(loc[p]) /\ Sec(p) = Sect(loc[p])
  BY DEF WritesBlock, Sec, Sect
<1>2. /\ Sec(p) \in Nat
      /\ Sec(p) < NDIRECT => Sec(p) \in Pointers \ {NDIRECT}
      /\ Sec(p) >= NDIRECT => Sec(p) - NDIRECT \in 0 .. TabLen - 1
  BY <1>1, InTheTable
<1>3. SectorsOf(e, e.no[loc[p].inode], open_inodes[loc[p].inode].sectors)
  BY <1>1, WritesTo
<1>4. CASE Sec(p) < NDIRECT
  BY <1>2, <1>3, <1>4, InodeAssumption DEF Next_lba, Pointer, SectorsOf
<1>5. CASE Sec(p) >= NDIRECT
  <2>1. TableOf(e, e.no[loc[p].inode], loc[p].tab)
    BY <1>1, <1>5 DEF WritesBlock, Tabled
  <2>2. ~(Sec(p) < NDIRECT)
    BY <1>2, <1>5, InodeAssumption
  <2>3. QED
    BY <1>2, <1>5, <2>1, <2>2 DEF Next_lba, InTable, TableOf
<1>6. QED
  BY <1>2, <1>4, <1>5, InodeAssumption
-----------------------------------------------------------------------------
\* A step of a write that changes local variables only.
LEMMA WritingStep ==
  ASSUME NEW e, Seen(e), UNCHANGED << disk, memory, dirs >>, NEW p \in Proc, NEW l, NEW r,
         Put(p, r), ThenAt(p, l),
         TableIn(e, r ++ loc[p]),
         \/ Writing(e, l, r ++ loc[p])
         \/ WritingTable(e, l, r ++ loc[p])
         \/ Allocating(e, l, r ++ loc[p])
  PROVE  Grown(e)
<1> DEFINE L == r ++ loc[p]
<1>1. loc' = [loc EXCEPT ![p] = L] /\ pc' = [pc EXCEPT ![p] = l]
  BY DEF Put, ThenAt
<1>2. LocalsOK(e, l, L)
  BY DEF LocalsOK, LocalsOf
<1> HIDE DEF L
<1>3. cwd' \in DOMAIN dentries /\ UNCHANGED << disk, memory, dentries >>
  BY Same DEF Owners, dirs
<1>4. QED
  BY <1>1, <1>2, <1>3, LocalStep

\* A block of data is read, or allocated.
LEMMA ToRead ==
  ASSUME NEW e, Seen(e), UNCHANGED << disk, memory, dirs >>, NEW p \in Proc,
         WritesBlock(e, loc[p]), TableIn(e, loc[p]),
         NEW b, b # 0, Data_of(e, e.no[loc[p].inode], b), Put(p, [lba |-> b]), ThenAt(p, "fw_read")
  PROVE  Grown(e)
<1> DEFINE r == [lba |-> b]
           L == r ++ loc[p]
<1>1. Writes(e, loc[p]) /\ DOMAIN r = {"lba"} /\ r.lba = b
  BY DEF WritesBlock
<1> HIDE DEF r
<1>2. /\ Writes(e, L) /\ TableIn(e, L) /\ Sect(L) = Sect(loc[p]) /\ (Room(loc[p]) => Room(L))
      /\ Tabled(e, loc[p]) => Tabled(e, L)
      /\ "lba" \in DOMAIN L /\ L.lba = b
  BY <1>1, WritesOn
<1> HIDE DEF L
<1>3. WritesBlock(e, L) /\ PlainBlock(e, L)
  BY <1>2 DEF WritesBlock, PlainBlock, Data_of
<1>4. Writing(e, "fw_read", L)
  BY <1>3 DEF Writing
<1>5. QED
  BY <1>2, <1>4, WritingStep DEF L, r

\* A writer goes to allocate a block,
LEMMA ToAllocate ==
  ASSUME NEW e, Seen(e), UNCHANGED << disk, memory, dirs >>, NEW p \in Proc,
         Writes(e, loc[p]), Room(loc[p]), TableIn(e, loc[p]),
         NEW r, Put(p, r), ThenAt(p, "alloc"),
         DOMAIN r \subseteq {"ret", "sync2"}, "ret" \in DOMAIN r,
         "sync2" \in DOMAIN r => r.sync2 \in BOOLEAN /\ Tabled(e, loc[p]),
         \/ r.ret = "fw_got" /\ (Sect(loc[p]) >= NDIRECT => Tabled(e, loc[p]))
         \/ r.ret = "fw_table" /\ Sect(loc[p]) = NDIRECT
  PROVE  Grown(e)
<1> DEFINE L == r ++ loc[p]
<1>1. /\ Writes(e, L) /\ TableIn(e, L) /\ Sect(L) = Sect(loc[p]) /\ Room(L)
      /\ Tabled(e, loc[p]) => Tabled(e, L)
      /\ "ret" \in DOMAIN L /\ L.ret = r.ret
  <2>1. {"call", "inode", "at", "end"} \cap DOMAIN r = {} /\ "tab" \notin DOMAIN r
    OBVIOUS
  <2>2. QED
    BY <2>1, WritesOn
<1> HIDE DEF L
<1>3. Awaits(e, L.ret, L)
  BY <1>1 DEF Awaits, WritesBlock
<1>4. Allocating(e, "alloc", L)
  BY <1>1, <1>3 DEF Allocating
<1>5. QED
  BY <1>1, <1>4, WritingStep DEF L

\* The table is read.
LEMMA ToTable ==
  ASSUME NEW e, NEW L, Writes(e, L), Sect(L) >= NDIRECT, TableIn(e, L),
         NEW b, b # 0, Tab_of(e, e.no[L.inode], b),
         NEW l, l = "fw_loop" \/ (l = "fw_slot" /\ Room(L))
  PROVE  LET M == [lba |-> b, ret |-> l] ++ L
         IN WritingTable(e, "tab_read", M) /\ TableIn(e, M)
<1> DEFINE r == [lba |-> b, ret |-> l]
           M == r ++ L
<1>1. DOMAIN r = {"lba", "ret"} /\ r.lba = b /\ r.ret = l
  OBVIOUS
<1> HIDE DEF r
<1>2. /\ Writes(e, M) /\ TableIn(e, M) /\ Sect(M) = Sect(L) /\ (Room(L) => Room(M))
      /\ M.inode = L.inode
      /\ {"lba", "ret"} \subseteq DOMAIN M /\ M.lba = b /\ M.ret = l
  BY <1>1, WritesOn
<1> HIDE DEF M
<1>3. WritingTable(e, "tab_read", M)
  BY <1>2 DEF WritingTable
<1>4. QED
  BY <1>2, <1>3 DEF M, r

\* for a pointer of the inode,
LEMMA WriteDirect ==
  ASSUME NEW e, Seen(e), NEW p \in Proc, write_direct(p) PROVE Grown(e)
<1>1. /\ pc[p] = "fw_loop" /\ Room(loc[p]) /\ Sect(loc[p]) < NDIRECT
      /\ UNCHANGED << disk, memory, dirs >>
  BY DEF write_direct, Runs, At, More, Room, Sec, Sect
<1>2. Writes(e, loc[p]) /\ TableIn(e, loc[p])
  BY <1>1, WritingAt
<1>3. ~(Sect(loc[p]) >= NDIRECT)
  BY <1>1, <1>2, InTheTable, InodeAssumption
<1>4. WritesBlock(e, loc[p])
  BY <1>1, <1>2, <1>3 DEF WritesBlock
<1>5. CASE Put(p, [ret |-> "fw_got"]) /\ ThenAt(p, "alloc")
  <2> DEFINE r == [ret |-> "fw_got"]
  <2>1. DOMAIN r = {"ret"} /\ r.ret = "fw_got" /\ Put(p, r)
    BY <1>5
  <2> HIDE DEF r
  <2>2. QED
    BY <1>1, <1>2, <1>3, <1>5, <2>1, ToAllocate
<1>6. CASE Next_lba(p) # 0 /\ Put(p, [lba |-> Next_lba(p)]) /\ ThenAt(p, "fw_read")
  BY <1>1, <1>2, <1>4, <1>6, NextLba, ToRead
<1>7. QED
  BY <1>5, <1>6 DEF write_direct

\* for the table,
LEMMA WriteTable ==
  ASSUME NEW e, Seen(e), NEW p \in Proc, write_table(p) PROVE Grown(e)
<1> DEFINE b == Pointer(loc[p].inode, NDIRECT)
<1>1. /\ pc[p] = "fw_loop" /\ Room(loc[p]) /\ Sect(loc[p]) = NDIRECT
      /\ UNCHANGED << disk, memory, dirs >>
  BY DEF write_table, Runs, At, More, Room, Sec, Sect
<1>2. Writes(e, loc[p]) /\ TableIn(e, loc[p])
  BY <1>1, WritingAt
<1>3. CASE Put(p, [ret |-> "fw_table"]) /\ ThenAt(p, "alloc")
  <2> DEFINE r == [ret |-> "fw_table"]
  <2>1. DOMAIN r = {"ret"} /\ r.ret = "fw_table" /\ Put(p, r)
    BY <1>3
  <2> HIDE DEF r
  <2>2. QED
    BY <1>1, <1>2, <1>3, <2>1, ToAllocate
<1>4. CASE b # 0 /\ Put(p, [lba |-> b, ret |-> "fw_slot"]) /\ ThenAt(p, "tab_read")
  <2>1. Tab_of(e, e.no[loc[p].inode], b)
    BY <1>2, WritesTo DEF Pointer, SectorsOf
  <2> HIDE DEF b
  <2>2. Sect(loc[p]) >= NDIRECT
    BY <1>1, InodeAssumption
  <2>3. QED
    BY <1>1, <1>2, <1>4, <2>1, <2>2, ToTable, WritingStep
<1>5. QED
  BY <1>3, <1>4 DEF write_table

\* The table of a file is allocated: the inode points to it,
LEMMA WriteNewTable ==
  ASSUME NEW e, Seen(e), NEW p \in Proc, write_new_table(p) PROVE Grown(e)
<1> DEFINE i == loc[p].inode
           b == loc[p].blk
<1>1. /\ pc[p] = "fw_table" /\ UNCHANGED << disk, block_bitmap, inode_bitmap, loc, dirs >>
      /\ pc' = [pc EXCEPT ![p] = "tab_zero"]
      /\ open_inodes' = Pointed(open_inodes, i, NDIRECT, b)
  BY DEF write_new_table, Runs, At, ThenAt, Pointed
<1>2. /\ Writes(e, loc[p]) /\ TableIn(e, loc[p]) /\ Given(e, "fw_table", loc[p], e.synced)
      /\ Room(loc[p]) /\ Sect(loc[p]) = NDIRECT
  BY <1>1, WritingAt
<1>3. b \in e.synced /\ b \in e.tabs /\ e.who[b] = e.no[i] /\ b \in Nat
  BY <1>2, Synced DEF Given, ForInode
<1>4. /\ i \in DOMAIN open_inodes /\ e.no[i] = open_inodes[i].no
      /\ InMemoryOf(e, open_inodes) /\ Entered(open_inodes, dentries)
  BY <1>2, WritesTo
<1>5. NDIRECT \in Pointers
  BY InodeAssumption DEF Pointers
<1> HIDE DEF i, b
<1>6. /\ InMemoryOf(e, open_inodes') /\ DOMAIN open_inodes' = DOMAIN open_inodes
      /\ \A j \in DOMAIN open_inodes : open_inodes'[j].no = open_inodes[j].no
  BY <1>1, <1>3, <1>4, <1>5, Pointing DEF Tab_of
<1>7. LocalsOK(e, "tab_zero", loc[p])
  BY <1>2 DEF LocalsOK, LocalsOf, WritingTable
<1>8. QED
  BY <1>1, <1>4, <1>6, <1>7, InodeChange DEF dirs

\* An empty table is anybody's.
LEMMA EmptyTable == ASSUME NEW e, NEW k PROVE TableOf(e, k, EmptyTab)
BY InodeAssumption DEF TableOf, EmptyTab, Data_of

\* and it begins empty.
LEMMA WriteZeroTable ==
  ASSUME NEW e, Seen(e), NEW p \in Proc, write_zero_table(p) PROVE Grown(e)
<1> DEFINE r == [tab |-> EmptyTab, sync2 |-> TRUE]
           L == r ++ loc[p]
<1>1. /\ pc[p] = "tab_zero" /\ UNCHANGED << disk, memory, dirs >>
      /\ Put(p, r) /\ ThenAt(p, "fw_slot")
  BY DEF write_zero_table, Runs, At
<1>2. /\ Writes(e, loc[p]) /\ TableIn(e, loc[p])
      /\ Room(loc[p]) /\ Sect(loc[p]) = NDIRECT
  BY <1>1, WritingAt
<1>3. TableOf(e, e.no[loc[p].inode], EmptyTab)
  BY EmptyTable
<1>4. DOMAIN r = {"tab", "sync2"} /\ r.tab = EmptyTab /\ r.sync2 = TRUE
  OBVIOUS
<1> HIDE DEF r
<1>5. Writes(e, L) /\ TableIn(e, L) /\ Sect(L) = Sect(loc[p]) /\ Room(L) /\ Tabled(e, L)
  <2>1. /\ {"call", "inode", "at", "end"} \cap DOMAIN r = {} /\ "tab" \in DOMAIN r
        /\ TableOf(e, e.no[loc[p].inode], r.tab) /\ r.sync2 \in BOOLEAN
    BY <1>3, <1>4
  <2>2. QED
    BY <1>2, <2>1, WritesOn
<1> HIDE DEF L
<1>6. Sect(L) >= NDIRECT
  BY <1>2, <1>5, InodeAssumption
<1>7. Writing(e, "fw_slot", L)
  BY <1>2, <1>5, <1>6 DEF Writing, WritesBlock
<1>8. QED
  BY <1>1, <1>5, <1>7, WritingStep DEF L

\* for a pointer of the table.
LEMMA WriteSlot ==
  ASSUME NEW e, Seen(e), NEW p \in Proc, write_slot(p) PROVE Grown(e)
<1>1. /\ \/ pc[p] = "fw_slot"
         \/ pc[p] = "fw_loop" /\ Room(loc[p]) /\ Sect(loc[p]) > NDIRECT
      /\ UNCHANGED << disk, memory, dirs >>
  BY DEF write_slot, Runs, At, More, Room, Sec, Sect
<1>2. /\ Writes(e, loc[p]) /\ TableIn(e, loc[p]) /\ Room(loc[p])
      /\ Sect(loc[p]) >= NDIRECT /\ Tabled(e, loc[p])
  <2>1. CASE pc[p] = "fw_slot"
    BY <2>1, WritingAt DEF WritesBlock
  <2>2. CASE pc[p] = "fw_loop" /\ Room(loc[p]) /\ Sect(loc[p]) > NDIRECT
    BY <2>2, WritingAt, InTheTable, InodeAssumption
  <2>3. QED
    BY <1>1, <2>1, <2>2
<1>3. WritesBlock(e, loc[p])
  BY <1>2 DEF WritesBlock
<1>4. InTable(p) = Next_lba(p) /\ Data_of(e, e.no[loc[p].inode], Next_lba(p))
  BY <1>2, <1>3, NextLba DEF Sec, Sect
<1>5. CASE /\ Put(p, [sync2 |-> loc[p].sync2 \/ Sec(p) > NDIRECT, ret |-> "fw_got"])
           /\ ThenAt(p, "alloc")
  <2> DEFINE r == [sync2 |-> loc[p].sync2 \/ Sec(p) > NDIRECT, ret |-> "fw_got"]
  <2>1. DOMAIN r = {"ret", "sync2"} /\ r.ret = "fw_got" /\ Put(p, r) /\ r.sync2 \in BOOLEAN
    BY <1>5
  <2> HIDE DEF r
  <2>2. QED
    BY <1>1, <1>2, <1>5, <2>1, ToAllocate
<1>6. CASE InTable(p) # 0 /\ Put(p, [lba |-> InTable(p)]) /\ ThenAt(p, "fw_read")
  BY <1>1, <1>2, <1>3, <1>4, <1>6, ToRead
<1>7. QED
  BY <1>5, <1>6 DEF write_slot
\* A block of the file has been allocated: the inode or the table points to it.
LEMMA WriteNewBlock ==
  ASSUME NEW e, Seen(e), NEW p \in Proc, write_new_block(p) PROVE Grown(e)
<1> DEFINE i == loc[p].inode
           b == loc[p].blk
           t == [loc[p].tab EXCEPT ![Sec(p) - NDIRECT] = b]
<1>1. /\ pc[p] = "fw_got" /\ UNCHANGED << disk, block_bitmap, inode_bitmap, dirs >>
      /\ pc' = [pc EXCEPT ![p] = "fw_read"] /\ ThenAt(p, "fw_read")
  BY DEF write_new_block, Runs, At, ThenAt
<1>2. /\ WritesBlock(e, loc[p]) /\ Writes(e, loc[p]) /\ TableIn(e, loc[p])
      /\ Given(e, "fw_got", loc[p], e.synced)
  BY <1>1, WritingAt
<1>3. b \in e.synced \ e.tabs /\ e.who[b] = e.no[i] /\ b \in Nat \ {0}
  BY <1>2, Synced DEF Given, ForInode
<1>4. /\ i \in DOMAIN open_inodes /\ e.no[i] = open_inodes[i].no
      /\ InMemoryOf(e, open_inodes) /\ Entered(open_inodes, dentries)
  BY <1>2, WritesTo
<1>5. /\ Sec(p) \in Nat /\ Sec(p) = Sect(loc[p])
      /\ Sec(p) < NDIRECT => Sec(p) \in Pointers \ {NDIRECT}
      /\ Sec(p) >= NDIRECT => Sec(p) - NDIRECT \in 0 .. TabLen - 1
  BY <1>2, InTheTable DEF WritesBlock, Sec, Sect
<1>6. Data_of(e, e.no[i], b)
  BY <1>3 DEF Data_of
<1>7. CASE Sec(p) < NDIRECT
  <2> DEFINE r == [lba |-> b]
             L == r ++ loc[p]
  <2>1. open_inodes' = Pointed(open_inodes, i, Sec(p), b) /\ loc' = [loc EXCEPT ![p] = L]
    BY <1>7 DEF write_new_block, Pointed, Put
  <2>2. DOMAIN r = {"lba"} /\ r.lba = b
    OBVIOUS
  <2> HIDE DEF r
  <2>3. /\ Writes(e, L) /\ TableIn(e, L) /\ Sect(L) = Sect(loc[p]) /\ (Room(loc[p]) => Room(L))
        /\ Tabled(e, loc[p]) => Tabled(e, L)
        /\ "lba" \in DOMAIN L /\ L.lba = b
    BY <1>2, <2>2, WritesOn
  <2> HIDE DEF L, i, b
  <2>4. WritesBlock(e, L) /\ PlainBlock(e, L)
    BY <1>2, <1>3, <2>3 DEF WritesBlock, PlainBlock
  <2>5. LocalsOK(e, "fw_read", L)
    BY <2>3, <2>4 DEF LocalsOK, LocalsOf, Writing
  <2>6. /\ InMemoryOf(e, open_inodes') /\ DOMAIN open_inodes' = DOMAIN open_inodes
        /\ \A j \in DOMAIN open_inodes : open_inodes'[j].no = open_inodes[j].no
    <3>1. Sec(p) \in Pointers /\ Sec(p) # NDIRECT /\ b \in Nat
      BY <1>3, <1>5, <1>7
    <3>2. QED
      BY <1>4, <1>6, <2>1, <3>1, Pointing
  <2>7. QED
    BY <1>1, <1>4, <2>1, <2>5, <2>6, InodeChange DEF dirs
<1>8. CASE ~(Sec(p) < NDIRECT)
  <2> DEFINE r == [lba |-> b, tab |-> t]
             L == r ++ loc[p]
  <2>1. Put(p, r) /\ UNCHANGED open_inodes
    BY <1>8 DEF write_new_block
  <2>2. Sec(p) >= NDIRECT
    BY <1>5, <1>8, InodeAssumption
  <2>3. TableOf(e, e.no[i], t)
    <3>1. TableOf(e, e.no[i], loc[p].tab)
      BY <1>2, <1>5, <2>2 DEF WritesBlock, Tabled
    <3>2. QED
      BY <1>6, <3>1 DEF TableOf
  <2>4. DOMAIN r = {"lba", "tab"} /\ r.lba = b /\ r.tab = t
    OBVIOUS
  <2> HIDE DEF r, t
  <2>5. /\ Writes(e, L) /\ TableIn(e, L) /\ Tabled(e, L) /\ (Room(loc[p]) => Room(L))
        /\ "lba" \in DOMAIN L /\ L.lba = b
    BY <1>2, <2>3, <2>4, WritesOn
  <2> HIDE DEF L
  <2>6. WritesBlock(e, L) /\ PlainBlock(e, L)
    BY <1>2, <1>3, <2>5 DEF WritesBlock, PlainBlock
  <2>7. Writing(e, "fw_read", L)
    BY <2>6 DEF Writing
  <2>8. UNCHANGED << disk, memory, dirs >>
    BY <1>1, <2>1 DEF memory
  <2>9. QED
    BY <1>1, <2>1, <2>5, <2>7, <2>8, WritingStep DEF L
<1>9. QED
  BY <1>7, <1>8

\* A block of the file has been read, and is written back.
LEMMA WriteRead ==
  ASSUME NEW e, Seen(e), NEW p \in Proc, write_read(p) PROVE Grown(e)
<1> DEFINE c == [u \in 0 .. Units - 1 |->
                   IF u \in Offset(p) .. Offset(p) + Piece(p) - 1
                   THEN loc[p].datum ELSE Contents(loc[p].lba)[u]]
           b == Next_lba(p)
           r == [buf |-> c, lba |-> b]
           L == r ++ loc[p]
<1>1. /\ pc[p] = "fw_read" /\ UNCHANGED << disk, memory, dirs >>
      /\ Put(p, r) /\ ThenAt(p, "fw_write")
  BY DEF write_read, Runs, At
<1>2. WritesBlock(e, loc[p]) /\ Writes(e, loc[p]) /\ TableIn(e, loc[p])
  BY <1>1, WritingAt
<1>3. Data_of(e, e.no[loc[p].inode], b)
  BY <1>2, NextLba
<1> HIDE DEF b, c
<1>4. DOMAIN r = {"buf", "lba"} /\ r.lba = b
  OBVIOUS
<1> HIDE DEF r
<1>5. /\ Writes(e, L) /\ TableIn(e, L) /\ Sect(L) = Sect(loc[p]) /\ (Room(loc[p]) => Room(L))
      /\ Tabled(e, loc[p]) => Tabled(e, L)
      /\ "lba" \in DOMAIN L /\ L.lba = b
  BY <1>2, <1>4, WritesOn
<1> HIDE DEF L
<1>6. WritesBlock(e, L) /\ PlainBlock(e, L)
  BY <1>2, <1>3, <1>5 DEF WritesBlock, PlainBlock, Data_of
<1>7. Writing(e, "fw_write", L)
  BY <1>6 DEF Writing
<1>8. QED
  BY <1>1, <1>5, <1>7, WritingStep DEF L

\* The piece ends within the block, and within the write.
LEMMA PieceFits ==
  ASSUME NEW p \in Proc, loc[p].at \in Nat, loc[p].end \in Nat, loc[p].at < loc[p].end
  PROVE  /\ Piece(p) \in Nat /\ loc[p].at + Piece(p) <= loc[p].end
         /\ (loc[p].at + Piece(p)) \div Units <= Sec(p) + 1
<1> DEFINE a == loc[p].at
           S == {loc[p].end - a, Units - Offset(p)}
<1>1. Units \in Nat \ {0} /\ Offset(p) = a % Units
  BY InodeAssumption DEF Offset
<1>2. a % Units \in 0 .. Units - 1
  BY <1>1
<1>3. S \in SUBSET Nat
  BY <1>1, <1>2
<1>4. Piece(p) \in S /\ \A n \in S : Piece(p) <= n
  <2>1. Piece(p) = Min(S)
    BY DEF Piece
  <2>2. S # {}
    OBVIOUS
  <2> HIDE DEF S
  <2>3. QED
    BY <1>3, <2>1, <2>2, LeastIn
<1>5. Piece(p) \in Nat /\ Piece(p) <= loc[p].end - a /\ Piece(p) <= Units - (a % Units)
  BY <1>1, <1>3, <1>4
<1>6. (a + Piece(p)) \div Units <= (a \div Units) + 1
  BY <1>1, <1>5, NextBlock
<1>7. QED
  BY <1>5, <1>6 DEF Sec

\* The block is written, and the writer goes on to the next.
LEMMA WriteWrite ==
  ASSUME NEW e, Seen(e), NEW p \in Proc, write_write(p) PROVE Grown(e)
<1> DEFINE a == loc[p].at + Piece(p)
           L == [buf |-> NULL, blk |-> 0, lba |-> 0, at |-> a] ++ loc[p]
<1>1. /\ pc[p] = "fw_write" /\ UNCHANGED << memory, dirs >>
      /\ disk' = Stored(disk, loc[p].lba, loc[p].buf)
      /\ loc' = [loc EXCEPT ![p] = L] /\ pc' = [pc EXCEPT ![p] = "fw_loop"]
  BY DEF write_write, Runs, At, Stored, Put, ThenAt
<1>2. WritesBlock(e, loc[p]) /\ Writes(e, loc[p]) /\ TableIn(e, loc[p]) /\ PlainBlock(e, loc[p])
  BY <1>1, WritingAt
<1>3. OnTheDisk(e, disk') /\ disk'.bbits = disk.bbits
  BY <1>1, <1>2, PlainWrite
<1>4. /\ loc[p].at \in Nat /\ loc[p].end \in Nat /\ loc[p].at < loc[p].end
      /\ {"call", "inode", "end", "tab", "sync2"} \subseteq DOMAIN loc[p]
      /\ loc[p] # << >> /\ loc[p].call = "write" /\ Inode_in(e, loc[p])
  BY <1>2 DEF WritesBlock, Room, Writes, Call_in, Inode_in
<1>5. /\ a \in Nat /\ a <= loc[p].end /\ a \div Units <= Sect(loc[p]) + 1
  BY <1>4, PieceFits DEF Sec, Sect
<1>6. /\ {"call", "inode", "end", "tab", "sync2", "at"} \subseteq DOMAIN L
      /\ L.call = loc[p].call /\ L.inode = loc[p].inode /\ L.end = loc[p].end
      /\ L.tab = loc[p].tab /\ L.sync2 = loc[p].sync2 /\ L.at = a
  BY <1>4 DEF ++
<1> HIDE DEF L, a
<1>7. Writes(e, L)
  BY <1>2, <1>5, <1>6 DEF Writes, Call_in, Inode_in
<1>8. TableIn(e, L)
  BY <1>2, <1>4, <1>6 DEF TableIn, Inode_in, Tabled
<1>9. Sect(L) > NDIRECT => Tabled(e, L)
  <2>1. Sect(loc[p]) \in Nat
    BY <1>2, AtSect
  <2>2. a \div Units \in Nat
    BY <1>5, InodeAssumption
  <2>3. Sect(L) > NDIRECT => Sect(loc[p]) >= NDIRECT
    BY <1>5, <1>6, <2>1, <2>2, InodeAssumption DEF Sect
  <2>4. Sect(loc[p]) >= NDIRECT => Tabled(e, loc[p])
    BY <1>2 DEF WritesBlock
  <2>5. QED
    BY <1>6, <2>3, <2>4 DEF Tabled
<1>10. LocalsOK(e, "fw_loop", L)
  BY <1>7, <1>8, <1>9 DEF LocalsOK, LocalsOf, Writing
<1>11. QED
  BY <1>1, <1>3, <1>10, DiskChange
\* The inode is written back, if it has changed, and the call ends.
LEMMA SyncInodeOK ==
  ASSUME NEW e, Seen(e), NEW p \in Proc, Writes(e, loc[p]), NEW grew, SyncInode(p, grew),
         InMemoryOf(e, open_inodes'), DOMAIN open_inodes' = DOMAIN open_inodes,
         \A i \in DOMAIN open_inodes : open_inodes'[i].no = open_inodes[i].no
  PROVE  \E l, L : /\ LocalsOK(e, l, L)
                   /\ pc' = [pc EXCEPT ![p] = l] /\ loc' = [loc EXCEPT ![p] = L]
<1> DEFINE i == loc[p].inode
<1>1. i \in DOMAIN open_inodes' /\ DOMAIN e.no = DOMAIN open_inodes' /\ \A j \in DOMAIN open_inodes' : open_inodes'[j].no = e.no[j]
  BY WritesTo, Same
<1>2. loc[p].end \in Nat /\ "end" \in DOMAIN loc[p] /\ "call" \in DOMAIN loc[p] /\ loc[p].call = "write"
  BY DEF Writes, Call_in
<1>3. CASE grew
  <2> DEFINE r == [call |-> "write", f |-> loc[p].f, end |-> loc[p].end]
             L == [inode |-> i, copy |-> Copied(open_inodes'[i]), ret |-> "fw_done"] ++ r
  <2>1. loc' = [loc EXCEPT ![p] = L] /\ pc' = [pc EXCEPT ![p] = "isync_read"]
    BY <1>3 DEF SyncInode, inode_sync, Local, ThenAt, OnDisk, Copied
  <2>2. /\ DOMAIN r \subseteq {"call", "fd", "f", "written", "end"}
        /\ Call_in(r, {"open", "mkdir", "write"}) /\ File_in(r)
        /\ r.call = "write" /\ "end" \in DOMAIN r /\ r.end \in Nat
    BY <1>2 DEF Call_in, File_in
  <2> HIDE DEF r, i
  <2>3. LocalsOK(e, "isync_read", L)
    BY <1>1, <2>2, SyncsOK
  <2> HIDE DEF L
  <2>4. QED
    BY <2>1, <2>3
<1>4. CASE ~grew
  <2> DEFINE L == [tab |-> NULL] ++ loc[p]
  <2>1. loc' = [loc EXCEPT ![p] = L] /\ pc' = [pc EXCEPT ![p] = "fw_done"]
    BY <1>4 DEF SyncInode, Put, ThenAt
  <2>2. {"call", "end"} \subseteq DOMAIN L /\ L.call = "write" /\ L.end \in Nat /\ L.tab = NULL
    BY <1>2 DEF ++
  <2> HIDE DEF L
  <2>3. LocalsOK(e, "fw_done", L)
    BY <2>2 DEF LocalsOK, LocalsOf, Syncing, TableIn, Call_in
  <2>4. QED
    BY <2>1, <2>3
<1>5. QED
  BY <1>3, <1>4

\* The loop is over: the inode has grown in memory.
LEMMA WriteEnd ==
  ASSUME NEW e, Seen(e), NEW p \in Proc, write_end(p) PROVE Grown(e)
<1> DEFINE i == loc[p].inode
           s == Max({open_inodes[i].size, loc[p].end})
           grew == Size(i) < loc[p].end
<1>1. /\ pc[p] = "fw_loop" /\ UNCHANGED << disk, block_bitmap, inode_bitmap, dirs >>
      /\ open_inodes' = Resized(open_inodes, i, s)
  BY DEF write_end, Runs, At, Resized
<1>2. Writes(e, loc[p]) /\ TableIn(e, loc[p])
  BY <1>1, WritingAt
<1>3. /\ i \in DOMAIN open_inodes /\ e.no[i] = open_inodes[i].no /\ open_inodes[i] \in MemInode
      /\ SectorsOf(e, e.no[i], open_inodes[i].sectors)
      /\ InMemoryOf(e, open_inodes) /\ Entered(open_inodes, dentries)
  BY <1>2, WritesTo
<1>4. s \in Nat
  <2> DEFINE S == {open_inodes[i].size, loc[p].end}
             n == open_inodes[i].size + loc[p].end
  <2>1. open_inodes[i].size \in Nat /\ loc[p].end \in Nat
    BY <1>2, <1>3 DEF Writes, MemInode
  <2>2. n \in Nat /\ S \in SUBSET (0 .. n) /\ S # {}
    BY <2>1
  <2>3. S \in SUBSET Nat
    BY <2>1
  <2> HIDE DEF S, n
  <2>4. Max(S) \in S
    BY <2>2, GreatestIn
  <2>5. QED
    BY <2>3, <2>4 DEF S
<1> HIDE DEF s
<1>5. /\ InMemoryOf(e, open_inodes') /\ DOMAIN open_inodes' = DOMAIN open_inodes
      /\ \A j \in DOMAIN open_inodes : open_inodes'[j].no = open_inodes[j].no
  BY <1>1, <1>3, <1>4, Resizing
<1>6. ASSUME NEW l, NEW L, LocalsOK(e, l, L),
             pc' = [pc EXCEPT ![p] = l], loc' = [loc EXCEPT ![p] = L]
      PROVE  Grown(e)
  BY <1>1, <1>3, <1>5, <1>6, InodeChange DEF dirs
<1>7. CASE loc[p].sync2
  <2> DEFINE b == Pointer(i, NDIRECT)
             r == [lba |-> b, sync2 |-> grew]
             L == r ++ loc[p]
  <2>1. loc' = [loc EXCEPT ![p] = L] /\ pc' = [pc EXCEPT ![p] = "tab_write"]
    BY <1>7 DEF write_end, Put, ThenAt
  <2>2. Tab_of(e, e.no[i], b)
    BY <1>3 DEF Pointer, SectorsOf
  <2>3. Tabled(e, loc[p])
    BY <1>2, <1>7 DEF Writes, Tabled
  <2>4. DOMAIN r = {"lba", "sync2"} /\ r.lba = b /\ r.sync2 \in BOOLEAN
    OBVIOUS
  <2> HIDE DEF r, b
  <2>5. /\ Writes(e, L) /\ TableIn(e, L) /\ L.inode = i /\ Tabled(e, L)
        /\ "lba" \in DOMAIN L /\ L.lba = b
    BY <1>2, <2>3, <2>4, WritesOn
  <2> HIDE DEF L
  <2>6. LocalsOK(e, "tab_write", L)
    BY <2>2, <2>5 DEF LocalsOK, LocalsOf, WritingTable
  <2>7. QED
    BY <1>6, <2>1, <2>6
<1>8. CASE ~loc[p].sync2
  <2>1. SyncInode(p, grew)
    BY <1>8 DEF write_end
  <2> HIDE DEF grew
  <2>2. QED
    BY <1>2, <1>5, <1>6, <2>1, SyncInodeOK
<1>9. QED
  BY <1>7, <1>8

\* The table is written.
LEMMA WriteTableBack ==
  ASSUME NEW e, Seen(e), NEW p \in Proc, write_table_back(p) PROVE Grown(e)
<1>1. /\ pc[p] = "tab_write" /\ UNCHANGED << memory, dirs >>
      /\ disk' = Stored(disk, loc[p].lba, loc[p].tab) /\ SyncInode(p, loc[p].sync2)
  BY DEF write_table_back, Runs, At, Stored
<1>2. /\ Writes(e, loc[p]) /\ Tabled(e, loc[p])
      /\ Tab_of(e, e.no[loc[p].inode], loc[p].lba)
  BY <1>1, WritingAt
<1>3. OnTheDisk(e, disk') /\ disk'.bbits = disk.bbits
  <2>1. OnTheDisk(e, disk) /\ e.synced \subseteq Block
    BY Same, Synced DEF Owners
  <2>2. /\ loc[p].lba \in Block => loc[p].lba \in e.synced
        /\ loc[p].lba \in Block => TableOf(e, e.who[loc[p].lba], loc[p].tab)
    BY <1>2, Synced DEF Tab_of, Tabled
  <2>3. QED
    BY <1>1, <2>1, <2>2, Storing
<1>4. InMemoryOf(e, open_inodes) /\ open_inodes' = open_inodes
  BY <1>1, Same DEF Owners, memory
<1>5. PICK l, L : /\ LocalsOK(e, l, L)
                  /\ pc' = [pc EXCEPT ![p] = l] /\ loc' = [loc EXCEPT ![p] = L]
  BY <1>1, <1>2, <1>4, SyncInodeOK
<1>6. QED
  BY <1>1, <1>3, <1>5, DiskChange

\* A write begins.
LEMMA WriteBegins ==
  ASSUME Descriptors, NEW e, Seen(e), NEW p \in Proc, NEW fd, NEW n \in Nat \ {0}, NEW v,
         write(p, fd, n, v)
  PROVE  Grown(e)
<1> DEFINE s == fd_array[fd]
           i == FileInode(s)
           pos == file_table[s].pos
           b == Pointer(i, NDIRECT)
           L == [call |-> "write", f |-> s, inode |-> i, datum |-> v,
                 at |-> pos, end |-> pos + n, tab |-> NULL, sync2 |-> FALSE]
           M == [lba |-> b, ret |-> "fw_loop"] ++ L
<1>1. /\ pos \in Nat /\ i \in DOMAIN open_inodes
      /\ SectorsOf(e, e.no[i], open_inodes[i].sectors)
      /\ UNCHANGED << disk, memory, dirs >>
  BY FileOf DEF write
<1>2. UNCHANGED << disk, memory, dentries >> /\ cwd' \in DOMAIN dentries
  BY <1>1, Same DEF Owners, dirs
<1>3. Tab_of(e, e.no[i], b)
  BY <1>1 DEF Pointer, SectorsOf
<1>4. \/ UNCHANGED << pc, loc >>
      \/ /\ loc' = [loc EXCEPT ![p] = L] /\ pc' = [pc EXCEPT ![p] = "fw_loop"]
         /\ pos \div Units <= NDIRECT
      \/ /\ loc' = [loc EXCEPT ![p] = M] /\ pc' = [pc EXCEPT ![p] = "tab_read"]
         /\ b # 0 /\ ~(pos \div Units <= NDIRECT)
  BY DEF write, Begin, Panic, Local, ThenAt
<1> HIDE DEF b, i, pos
<1>5. /\ L # << >> /\ {"call", "inode", "at", "end", "tab", "sync2"} \subseteq DOMAIN L
      /\ L.call = "write" /\ L.inode = i /\ L.at = pos /\ L.end = pos + n
      /\ L.tab = NULL /\ L.sync2 = FALSE
  OBVIOUS
<1> HIDE DEF L
<1>6. Writes(e, L) /\ TableIn(e, L)
  <2>1. /\ L.at \in Nat /\ L.end \in Nat /\ L.at <= L.end
    BY <1>1, <1>5
  <2>2. i \in DOMAIN e.no
    BY <1>1, Same
  <2>3. Call_in(L, {"write"}) /\ Inode_in(e, L)
    BY <1>5, <2>2 DEF Call_in, Inode_in
  <2>4. Writes(e, L)
    <3>1. {"at", "end", "tab", "sync2"} \subseteq DOMAIN L
      BY <1>5
    <3>2. L.sync2 \in BOOLEAN /\ ~L.sync2
      BY <1>5
    <3>3. QED
      BY <2>1, <2>3, <3>1, <3>2 DEF Writes
  <2>5. TableIn(e, L)
    BY <1>5 DEF TableIn
  <2>6. QED
    BY <2>1, <2>4, <2>5
<1>7. Sect(L) \in Nat /\ Sect(L) = pos \div Units
  BY <1>5, <1>6, AtSect DEF Sect
<1>8. CASE pos \div Units <= NDIRECT
  <2>1. ~(Sect(L) > NDIRECT)
    BY <1>7, <1>8, InodeAssumption
  <2>2. LocalsOK(e, "fw_loop", L)
    BY <1>6, <2>1 DEF LocalsOK, LocalsOf, Writing
  <2>3. QED
    BY <1>1, <1>2, <1>4, <1>8, <2>2, NoStep, LocalStep
<1>9. CASE b # 0 /\ ~(pos \div Units <= NDIRECT)
  <2>1. Sect(L) >= NDIRECT
    BY <1>7, <1>9, InodeAssumption
  <2>2. LocalsOK(e, "tab_read", M)
    BY <1>3, <1>5, <1>6, <1>9, <2>1, ToTable DEF LocalsOK, LocalsOf
  <2> HIDE DEF M
  <2>3. QED
    BY <1>1, <1>2, <1>4, <1>9, <2>2, NoStep, LocalStep
<1>10. CASE UNCHANGED << pc, loc >>
  BY <1>1, <1>10, NoStep
<1>11. QED
  BY <1>4, <1>8, <1>9, <1>10

\* The table of a file has been read.
LEMMA TableRead ==
  ASSUME NEW e, Seen(e), NEW p \in Proc, table_read(p) PROVE Grown(e)
<1> DEFINE t == TableAt(loc[p].lba)
           r == [tab |-> t]
           L == r ++ loc[p]
<1>1. /\ pc[p] = "tab_read" /\ UNCHANGED << disk, memory, dirs >>
      /\ Put(p, r) /\ ThenAt(p, loc[p].ret)
  BY DEF table_read, Runs, At
<1>2. WritingTable(e, "tab_read", loc[p]) \/ Reading("tab_read", loc[p])
  BY <1>1, Known
<1>3. CASE Reading("tab_read", loc[p])
  <2>1. Reads(loc[p]) /\ loc[p].ret = "fr_slot"
    BY <1>3 DEF Reading
  <2>2. {"call", "end"} \cap DOMAIN r = {}
    OBVIOUS
  <2> HIDE DEF r
  <2>3. QED
    BY <1>1, <2>1, <2>2, ReadingStep
<1>4. CASE WritingTable(e, "tab_read", loc[p])
  <2>0. TableIn(e, loc[p])
    BY Known
  <2>1. /\ Writes(e, loc[p]) /\ Sect(loc[p]) >= NDIRECT /\ loc[p].lba # 0
        /\ loc[p].ret = "fw_loop" \/ (loc[p].ret = "fw_slot" /\ Room(loc[p]))
        /\ Tab_of(e, e.no[loc[p].inode], loc[p].lba)
    BY <1>4 DEF WritingTable
  <2>2. TableOf(e, e.no[loc[p].inode], t)
    <3>1. OnTheDisk(e, disk) /\ loc[p].lba \in e.synced \cap e.tabs /\ e.who[loc[p].lba] = e.no[loc[p].inode]
      BY <2>1, Same DEF Owners, Tab_of
    <3>2. loc[p].lba \in Block
      BY <3>1, Synced
    <3>3. disk.block[loc[p].lba] = Dirty \/ TableOf(e, e.no[loc[p].inode], disk.block[loc[p].lba])
      BY <3>1, <3>2 DEF OnTheDisk
    <3>4. QED
      BY <3>3, EmptyTable DEF TableAt
  <2>3. DOMAIN r = {"tab"} /\ r.tab = t
    OBVIOUS
  <2> HIDE DEF r, t
  <2>4. /\ Writes(e, L) /\ TableIn(e, L) /\ Tabled(e, L)
        /\ Sect(L) = Sect(loc[p]) /\ (Room(loc[p]) => Room(L))
    BY <2>0, <2>1, <2>2, <2>3, WritesOn
  <2> HIDE DEF L
  <2>5. Writing(e, loc[p].ret, L)
    BY <2>1, <2>4 DEF Writing, WritesBlock
  <2>6. QED
    BY <1>1, <2>1, <2>4, <2>5, WritingStep DEF L
<1>5. QED
  BY <1>2, <1>3, <1>4

\* So each step of fs/file.c keeps the owners.
LEMMA FileSteps ==
  ASSUME Descriptors, NEW e, Seen(e), NEW p \in Proc, FileStep(p) PROVE Grown(e)
<1>1. WriteCounts \subseteq Nat \ {0} /\ ReadCounts \subseteq Nat
  BY FileAssumption
<1>2. CASE \E fd \in Fd, n \in WriteCounts, v \in Data : write(p, fd, n, v)
  BY <1>1, <1>2, WriteBegins
<1>3. CASE \E fd \in Fd, n \in ReadCounts : read(p, fd, n)
  BY <1>1, <1>3, ReadBegins
<1>4. CASE \/ write_direct(p) \/ write_table(p) \/ write_new_table(p) \/ write_zero_table(p)
           \/ write_slot(p) \/ write_new_block(p) \/ write_read(p) \/ write_write(p)
           \/ write_end(p) \/ write_table_back(p) \/ table_read(p)
           \/ filp_openat_slash(p) \/ write_too_much(p)
  BY <1>4, StopsStep, WriteDirect, WriteTable, WriteNewTable, WriteZeroTable, WriteSlot, WriteNewBlock,
     WriteRead, WriteWrite, WriteEnd, WriteTableBack, TableRead
<1>5. CASE \/ filp_openat_none(p) \/ filp_openat(p) \/ install_fd(p) \/ write_done(p) \/ read_end(p)
           \/ filp_openat_create(p) \/ file_create(p)
           \/ read_loop(p) \/ read_slot(p) \/ read_read(p)
           \/ \E fd \in Fd : close(p, fd)
           \/ \E path \in OpenPaths, creat \in Creat : open(p, path, creat)
  BY <1>5, ReturnsStep, OpensStep, ReadSteps, CloseStep, OpenStep
<1>6. QED
  BY <1>2, <1>3, <1>4, <1>5 DEF FileStep
-----------------------------------------------------------------------------
\* A step keeps the owners.
LEMMA GrownStep == ASSUME Descriptors, NEW e, Seen(e), Next, ~Reset PROVE Grown(e)
<1>1. PICK p \in Proc : \/ InodeStep(p) /\ UNCHANGED << dirs, files, reset >>
                        \/ DirectoryStep(p) /\ UNCHANGED << files, reset >>
                        \/ FileStep(p) /\ UNCHANGED reset
                        \/ Lookup(p) /\ UNCHANGED << files, reset >>
                        \/ Misread(p)
  BY DEF Next
<1>2. Lookup(p) => DirectoryStep(p)
  BY DEF Lookup, DirectoryStep
<1>3. Misread(p) => UNCHANGED << disk, memory, dirs, pc, loc >>
  BY DEF Misread, control
<1>4. QED
  BY <1>1, <1>2, <1>3, InodeSteps, DirectorySteps, FileSteps, NoStep

\* There are owners as soon as somebody sees some.
LEMMA SomeSeen == OwnInv => \E e : Seen(e)
<1> SUFFICES ASSUME OwnInv PROVE \E e : Seen(e)
  OBVIOUS
<1>1. PICK who \in [Block -> Ino], tabs \in SUBSET Block : Owners(View(who, tabs))
  BY DEF OwnInv
<1>2. PICK e : e = View(who, tabs)
  OBVIOUS
<1>3. QED
  BY <1>1, <1>2 DEF Seen

\* Owners for the next state are all that the invariant asks of it.
LEMMA SeenNext == (\E e : Seen(e)') => OwnInv'
BY DEF Seen, OwnInv

\* Whatever a process does, owners can be given after it.
LEMMA OwnersStep == ASSUME Descriptors, OwnInv, Next, ~Reset PROVE OwnInv'
<1>1. PICK e : Seen(e)
  BY SomeSeen
<1>2. Grown(e)
  BY <1>1, GrownStep
<1>3. QED
  BY <1>2, SeenNext DEF Grown

\* After a reset only the root is in memory, and everybody is out.
LEMMA OutOK == ASSUME NEW e PROVE LocalsOK(e, "out", << >>)
BY DEF LocalsOK, LocalsOf, TableIn

\* The root alone is a cache of names.
LEMMA RootEntered ==
  ASSUME NEW i PROVE Entered(<< i >>, << RootDentry >>)
BY DEF Entered, RootDentry, Range

\* What is on the disk, and only that, is there after a reset.
LEMMA ResetSeen == ASSUME NEW e, Seen(e), Reset PROVE \E f : f.who = e.who /\ Seen(f)'
<1>1. PICK who \in [Block -> Ino], tabs \in SUBSET Block : e = View(who, tabs) /\ Owners(e)
  BY DEF Seen
<1> DEFINE i == InMemory(disk, 0)
<1>2. e = View(who, tabs)
  BY <1>1
<1>3. PICK f : f = View(who, tabs)'
  OBVIOUS
<1>4. /\ disk' = disk /\ block_bitmap' = disk.bbits /\ inode_bitmap' = disk.ibits
      /\ open_inodes' = << i >> /\ dentries' = << RootDentry >> /\ cwd' = 1
      /\ pc' = [p \in Proc |-> "out"] /\ loc' = [p \in Proc |-> << >>]
  BY DEF Reset, mount_partition
<1>5. /\ e.who = who /\ e.tabs = tabs /\ e.synced = disk.bbits
      /\ f.who = who /\ f.tabs = tabs /\ f.synced = disk.bbits /\ f.used = disk.bbits
  BY <1>2, <1>3, <1>4 DEF View
<1>6. Owners(e)
  BY <1>1, <1>2
<1>7. Allocated(f) /\ inode_bitmap' \subseteq Ino
  BY <1>4, <1>5, <1>6 DEF Owners, Allocated, OnTheDisk
<1>8. \A k, x : (Data_of(e, k, x) => Data_of(f, k, x)) /\ (Tab_of(e, k, x) => Tab_of(f, k, x))
  BY <1>5 DEF Data_of, Tab_of
<1>9. \A k, s : (SectorsOf(e, k, s) => SectorsOf(f, k, s)) /\ (TableOf(e, k, s) => TableOf(f, k, s))
  BY <1>8 DEF SectorsOf, TableOf
<1>10. OnTheDisk(f, disk')
  <2>1. OnTheDisk(e, disk)
    BY <1>6 DEF Owners
  <2>2. InodesOf(f, disk.itable)
    BY <1>9, <2>1 DEF OnTheDisk, InodesOf
  <2>3. \A b \in f.synced \cap f.tabs : disk.block[b] = Dirty \/ TableOf(f, f.who[b], disk.block[b])
    BY <1>5, <1>9, <2>1 DEF OnTheDisk
  <2>4. QED
    BY <1>4, <1>5, <2>1, <2>2, <2>3 DEF OnTheDisk
<1>11. i \in MemInode /\ SectorsOf(f, i.no, i.sectors)
  <2>1. 0 \in Ino
    BY InodeAssumption DEF Ino
  <2>2. disk.itable[0] \in DiskInode /\ SectorsOf(f, 0, disk.itable[0].sectors)
    BY <1>4, <1>10, <2>1 DEF OnTheDisk, InodesOf
  <2>3. QED
    BY <2>1, <2>2 DEF InMemory, MemInode, DiskInode
<1> HIDE DEF i
<1>12. InMemoryOf(f, open_inodes')
  BY <1>4, <1>11 DEF InMemoryOf
<1>13. Entered(open_inodes', dentries') /\ cwd' \in DOMAIN dentries'
  BY <1>4, RootEntered
<1>14. \A p \in Proc : LocalsOK(f, pc'[p], loc'[p])
  BY <1>4, OutOK
<1>15. Owners(f)'
  BY <1>4, <1>7, <1>10, <1>12, <1>13, <1>14 DEF Owners
<1>16. Seen(f)'
  BY <1>3, <1>15 DEF Seen
<1>17. QED
  BY <1>5, <1>16

\* So they can be after a reset.
LEMMA OwnersReset == ASSUME OwnInv, Reset PROVE OwnInv'
<1>1. PICK e : Seen(e)
  BY SomeSeen
<1>2. QED
  BY <1>1, ResetSeen, SeenNext

\* A partition that has been formatted has the root directory and its block.
LEMMA OwnersInit == ASSUME Init PROVE OwnInv
<1> DEFINE i == InMemory(Formatted, 0)
<1>1. PICK who \in [Block -> Ino], tabs \in SUBSET Block : who = [b \in Block |-> 0] /\ tabs = {}
  <2>1. 0 \in Ino
    BY InodeAssumption DEF Ino
  <2>2. QED
    BY <2>1
<1>2. PICK f : f = View(who, tabs)
  OBVIOUS
<1>3. 0 \in Ino /\ 1 \in Block /\ 0 \in Pointers /\ NDIRECT \in Pointers /\ NDIRECT # 0
  BY InodeAssumption DEF Ino, Block, Pointers
<1>4. /\ disk = Formatted /\ block_bitmap = {1} /\ inode_bitmap = {0}
      /\ open_inodes = << i >> /\ dentries = << RootDentry >> /\ cwd = 1
      /\ pc = [p \in Proc |-> "out"] /\ loc = [p \in Proc |-> << >>]
  BY DEF Init
<1>5. /\ disk = [bbits |-> disk.bbits, ibits |-> disk.ibits, itable |-> disk.itable, block |-> disk.block]
      /\ disk.bbits = {1} /\ disk.ibits = {0} /\ DOMAIN disk.block = Block
      /\ \A b \in Block \ {1} : disk.block[b] = Dirty
      /\ DOMAIN disk.itable = Ino
      /\ disk.itable[0] = [dir |-> TRUE, size |-> 2, sectors |-> [NoBlocks EXCEPT ![0] = 1]]
      /\ \A k \in Ino \ {0} : disk.itable[k] = [dir |-> FALSE, size |-> 0, sectors |-> NoBlocks]
      /\ disk.itable = [k \in Ino |-> disk.itable[k]]
  BY <1>3, <1>4 DEF Formatted
<1>6. f.who = who /\ f.tabs = {} /\ f.synced = {1} /\ f.used = {1}
  BY <1>1, <1>2, <1>4, <1>5 DEF View
<1>7. Allocated(f) /\ inode_bitmap \subseteq Ino
  BY <1>3, <1>4, <1>6 DEF Allocated
<1>8. SectorsOf(f, 0, [NoBlocks EXCEPT ![0] = 1])
  BY <1>1, <1>3, <1>6 DEF SectorsOf, NoBlocks, Data_of, Tab_of
<1>9. \A k \in Ino : SectorsOf(f, k, NoBlocks)
  BY <1>3 DEF SectorsOf, NoBlocks, Data_of, Tab_of
<1>10. [NoBlocks EXCEPT ![0] = 1] \in [Pointers -> Nat] /\ NoBlocks \in [Pointers -> Nat]
  BY DEF NoBlocks
<1>11. \A k \in Ino : disk.itable[k] \in DiskInode /\ SectorsOf(f, k, disk.itable[k].sectors)
  <2> HIDE DEF i
  <2> SUFFICES ASSUME NEW k \in Ino
               PROVE  disk.itable[k] \in DiskInode /\ SectorsOf(f, k, disk.itable[k].sectors)
    OBVIOUS
  <2> DEFINE r(d, n, s) == [dir |-> d, size |-> n, sectors |-> s]
  <2>0. \A d \in BOOLEAN, n \in Nat, s \in [Pointers -> Nat] :
          r(d, n, s) \in DiskInode /\ r(d, n, s).sectors = s
    BY DEF DiskInode
  <2> DEFINE s0 == [NoBlocks EXCEPT ![0] = 1]
  <2>1. CASE k = 0
    <3>1. disk.itable[k] = r(TRUE, 2, s0) /\ s0 \in [Pointers -> Nat] /\ SectorsOf(f, k, s0)
      BY <1>5, <1>8, <1>10, <2>1
    <3> HIDE DEF r, s0
    <3>2. r(TRUE, 2, s0) \in DiskInode /\ r(TRUE, 2, s0).sectors = s0
      BY <2>0, <3>1
    <3>3. QED
      BY <3>1, <3>2
  <2>2. CASE k # 0
    <3>1. disk.itable[k] = r(FALSE, 0, NoBlocks) /\ NoBlocks \in [Pointers -> Nat] /\ SectorsOf(f, k, NoBlocks)
      BY <1>5, <1>9, <1>10, <2>2
    <3> HIDE DEF r
    <3>2. QED
      BY <2>0, <3>1
  <2>3. QED
    BY <2>1, <2>2
<1>12. OnTheDisk(f, disk)
  <2>1. InodesOf(f, disk.itable)
    BY <1>5, <1>11 DEF InodesOf
  <2>2. QED
    BY <1>3, <1>5, <1>6, <2>1 DEF OnTheDisk
<1>13. i \in MemInode /\ SectorsOf(f, i.no, i.sectors)
  <2>1. disk.itable[0] \in DiskInode /\ SectorsOf(f, 0, disk.itable[0].sectors)
    BY <1>3, <1>11
  <2>2. QED
    BY <1>3, <1>4, <2>1 DEF InMemory, MemInode, DiskInode
<1> HIDE DEF i
<1>14. InMemoryOf(f, open_inodes)
  BY <1>4, <1>13 DEF InMemoryOf
<1>15. Entered(open_inodes, dentries) /\ cwd \in DOMAIN dentries
  BY <1>4, RootEntered
<1>16. \A p \in Proc : LocalsOK(f, pc[p], loc[p])
  BY <1>4, OutOK
<1>17. Owners(f)
  BY <1>4, <1>7, <1>12, <1>14, <1>15, <1>16 DEF Owners
<1>18. QED
  BY <1>2, <1>17 DEF OwnInv

-----------------------------------------------------------------------------
\* The blocks of an inode are its own.
OwnedBy(e, k) == { b \in e.synced : e.who[b] = k }

\* What inode i points to is owned by it,
LEMMA BlocksOf ==
  ASSUME NEW e, Seen(e), NEW k \in Ino, NEW i, SectorsOf(e, k, i.sectors)
  PROVE  Blocks(i) \subseteq OwnedBy(e, k)
<1>1. ASSUME NEW x, Data_of(e, k, x) \/ Tab_of(e, k, x), x # 0 PROVE x \in OwnedBy(e, k)
  BY <1>1 DEF Data_of, Tab_of, OwnedBy
<1>2. Direct(i) \subseteq OwnedBy(e, k)
  <2>1. \A n \in Pointers : Data_of(e, k, i.sectors[n]) \/ Tab_of(e, k, i.sectors[n])
    BY DEF SectorsOf
  <2>2. QED
    BY <1>1, <2>1 DEF Direct
<1>3. \A n \in DOMAIN EmptyTab : Table(i)[n] # 0 => Table(i)[n] \in OwnedBy(e, k)
  <2> DEFINE b == i.sectors[NDIRECT]
  <2>1. CASE b = 0 \/ disk.block[b] = Dirty
    BY <2>1 DEF Table, TableAt, EmptyTab
  <2>2. CASE b # 0 /\ disk.block[b] # Dirty
    <3>1. b \in e.synced \cap e.tabs /\ e.who[b] = k
      BY <2>2 DEF SectorsOf, Tab_of
    <3>2. TableOf(e, k, disk.block[b])
      BY <2>2, <3>1, Same DEF Owners, OnTheDisk
    <3>3. Table(i) = disk.block[b]
      BY <2>2 DEF Table, TableAt
    <3>4. \A n \in DOMAIN EmptyTab : Data_of(e, k, Table(i)[n])
      BY <3>2, <3>3 DEF EmptyTab, TableOf
    <3>5. QED
      BY <1>1, <3>4
  <2>3. QED
    BY <2>1, <2>2
<1>4. QED
  BY <1>2, <1>3 DEF Blocks

\* on the disk, in memory and in the calls that write.
LEMMA OwnedOf ==
  ASSUME NEW e, Seen(e), NEW k \in Ino PROVE Owned(k) \subseteq OwnedBy(e, k)
<1>1. Blocks(disk.itable[k]) \subseteq OwnedBy(e, k)
  BY BlocksOf, Same DEF Owners, OnTheDisk, InodesOf
<1>2. \A j \in DOMAIN open_inodes : open_inodes[j].no = k => Blocks(open_inodes[j]) \subseteq OwnedBy(e, k)
  BY BlocksOf, Same DEF Owners, InMemoryOf
<1>3. ASSUME NEW p \in Proc, open_inodes[loc[p].inode].no = k PROVE InCall(p) \subseteq OwnedBy(e, k)
  <2> SUFFICES ASSUME ~(loc[p] = << >> \/ loc[p].call # "write" \/ "tab" \notin DOMAIN loc[p] \/ loc[p].tab = NULL)
               PROVE  InCall(p) \subseteq OwnedBy(e, k)
    BY DEF InCall
  <2>1. Inode_in(e, loc[p]) /\ Tabled(e, loc[p])
    BY Known DEF TableIn
  <2>2. TableOf(e, k, loc[p].tab)
    BY <1>3, <2>1, Same DEF Inode_in, Tabled
  <2>3. \A n \in DOMAIN EmptyTab : loc[p].tab[n] = 0 \/ loc[p].tab[n] \in OwnedBy(e, k)
    BY <2>2 DEF TableOf, EmptyTab, Data_of, OwnedBy
  <2>4. QED
    BY <2>3 DEF InCall
<1>4. ASSUME NEW x \in Owned(k)
      PROVE  \/ x \in Blocks(disk.itable[k])
             \/ \E j \in DOMAIN open_inodes : open_inodes[j].no = k /\ x \in Blocks(open_inodes[j])
             \/ \E p \in Proc : open_inodes[loc[p].inode].no = k /\ x \in InCall(p)
  BY <1>4 DEF Owned
<1>5. QED
  BY <1>1, <1>2, <1>3, <1>4

\* So the owners tell that no block is of two inodes, and that none is free.
LEMMA OwnedOnce == OwnInv => BlocksOwnedOnce
<1> SUFFICES ASSUME OwnInv PROVE BlocksOwnedOnce
  OBVIOUS
<1>1. PICK e : Seen(e)
  BY DEF OwnInv, Seen
<1>2. \A j, k \in Ino : j # k => OwnedBy(e, j) \cap OwnedBy(e, k) = {}
  BY DEF OwnedBy
<1>3. \A k \in Ino : OwnedBy(e, k) \subseteq block_bitmap
  BY <1>1, Same DEF OwnedBy, Owners, Allocated
<1>4. \A k \in Ino : Blocks(disk.itable[k]) \subseteq disk.bbits
  <2>1. \A k \in Ino : Blocks(disk.itable[k]) \subseteq OwnedBy(e, k)
    BY <1>1, BlocksOf, Same DEF Owners, OnTheDisk, InodesOf
  <2>2. QED
    BY <1>1, <2>1, Same DEF OwnedBy
<1>5. QED
  BY <1>1, <1>2, <1>3, <1>4, OwnedOf DEF BlocksOwnedOnce
-----------------------------------------------------------------------------
\* A process has the descriptor, and the slot, that it had.
SameFile(L, M) ==
  /\ Opens(M) <=> Opens(L)
  /\ Took(M) <=> Took(L)
  /\ Opens(L) /\ "fd" \in DOMAIN L => "fd" \in DOMAIN M /\ M.fd = L.fd
  /\ Took(L) => M.f = L.f
Kept == \A q \in Proc : SameFile(loc[q], loc[q]')

\* Locals that stay are the same;
LEMMA StaysSame == ASSUME NEW L PROVE SameFile(L, L)
BY DEF SameFile

\* and it is enough to look at those of the process that steps.
LEMMA LocalKept ==
  ASSUME DOMAIN loc = Proc, NEW p \in Proc, NEW M, loc' = [loc EXCEPT ![p] = M],
         SameFile(loc[p], M)
  PROVE  Kept
<1>1. \A q \in Proc : loc[q]' = IF q = p THEN M ELSE loc[q]
  OBVIOUS
<1>2. QED
  BY <1>1, StaysSame DEF Kept

\* A process that is in a call has its name.
LEMMA InACall ==
  ASSUME NEW e, Seen(e), NEW p \in Proc
  PROVE  /\ DOMAIN loc = Proc
         /\ pc[p] = "out" => loc[p] = << >>
         /\ pc[p] # "out" => "call" \in DOMAIN loc[p] /\ loc[p] # << >>
<1>1. LocalsOK(e, pc[p], loc[p]) /\ DOMAIN loc = Proc
  BY Same DEF Owners
<1>2. pc[p] = "out" => loc[p] = << >>
  BY <1>1, LocalsAt
<1>3. pc[p] # "out" => "call" \in DOMAIN loc[p]
  <2>1. /\ Awaits(e, pc[p], loc[p]) => "call" \in DOMAIN loc[p]
        /\ \A r : Awaits(e, r, loc[p]) => "call" \in DOMAIN loc[p]
    BY DEF Awaits, Creates, WritesBlock, Writes, Call_in
  <2>2. /\ Looking(e, pc[p], loc[p]) => "call" \in DOMAIN loc[p]
        /\ Creating(e, pc[p], loc[p]) => "call" \in DOMAIN loc[p]
        /\ Syncing(e, pc[p], loc[p]) => "call" \in DOMAIN loc[p]
        /\ Writing(e, pc[p], loc[p]) => "call" \in DOMAIN loc[p]
        /\ WritingTable(e, pc[p], loc[p]) => "call" \in DOMAIN loc[p]
        /\ Reading(pc[p], loc[p]) => "call" \in DOMAIN loc[p]
    BY DEF Looking, Walks, Creating, Creates, Syncing, Syncs, Writing, WritesBlock, Writes,
       WritingTable, Reading, Reads, Call_in
  <2>3. Allocating(e, pc[p], loc[p]) => "call" \in DOMAIN loc[p]
    BY <2>1 DEF Allocating
  <2>4. QED
    BY <1>1, <2>2, <2>3 DEF LocalsOK, LocalsOf
<1>4. "call" \in DOMAIN loc[p] => loc[p] # << >>
  OBVIOUS
<1>5. QED
  BY <1>1, <1>2, <1>3, <1>4

\* Locals are set,
LEMMA MoreSame ==
  ASSUME NEW L, "call" \in DOMAIN L, NEW r, {"call", "fd", "f"} \cap DOMAIN r = {}
  PROVE  SameFile(L, r ++ L) /\ "call" \in DOMAIN (r ++ L)
<1> DEFINE M == r ++ L
<1>1. /\ "call" \in DOMAIN M /\ M.call = L.call
      /\ "fd" \in DOMAIN L => "fd" \in DOMAIN M /\ M.fd = L.fd
      /\ "f" \in DOMAIN M <=> "f" \in DOMAIN L
      /\ "f" \in DOMAIN L => M.f = L.f
  BY DEF ++
<1> HIDE DEF M
<1>2. M # << >> /\ L # << >>
  BY <1>1
<1>3. QED
  BY <1>1, <1>2 DEF SameFile, Opens, Took, M

\* or dropped,
LEMMA LessSame ==
  ASSUME NEW L, "call" \in DOMAIN L, NEW S, {"call", "fd", "f"} \cap S = {}
  PROVE  SameFile(L, Restrict(L, DOMAIN L \ S)) /\ "call" \in DOMAIN Restrict(L, DOMAIN L \ S)
<1> DEFINE M == Restrict(L, DOMAIN L \ S)
<1>1. /\ "call" \in DOMAIN M /\ M.call = L.call
      /\ "fd" \in DOMAIN L => "fd" \in DOMAIN M /\ M.fd = L.fd
      /\ "f" \in DOMAIN M <=> "f" \in DOMAIN L
      /\ "f" \in DOMAIN L => M.f = L.f
  BY DEF Restrict
<1> HIDE DEF M
<1>2. M # << >> /\ L # << >>
  BY <1>1
<1>3. QED
  BY <1>1, <1>2 DEF SameFile, Opens, Took, M

\* or both.
LEMMA SameTwice ==
  ASSUME NEW L, NEW M, NEW N, SameFile(L, M), SameFile(M, N) PROVE SameFile(L, N)
BY DEF SameFile, Took

\* A process in a call that sets other locals keeps its descriptor;
LEMMA PutKept ==
  ASSUME NEW e, Seen(e), NEW p \in Proc, pc[p] # "out",
         NEW r, Put(p, r), {"call", "fd", "f"} \cap DOMAIN r = {}
  PROVE  Kept
<1>1. DOMAIN loc = Proc /\ "call" \in DOMAIN loc[p]
  BY InACall
<1>2. SameFile(loc[p], r ++ loc[p])
  BY <1>1, MoreSame
<1>3. loc' = [loc EXCEPT ![p] = r ++ loc[p]]
  BY DEF Put
<1>4. QED
  BY <1>1, <1>2, <1>3, LocalKept

\* and one that sets none.
LEMMA NoneKept == ASSUME UNCHANGED loc PROVE Kept
BY StaysSame DEF Kept

\* A call that opens nothing begins, goes on or returns.
LEMMA NotOpens ==
  ASSUME DOMAIN loc = Proc, NEW p \in Proc, NEW M, loc' = [loc EXCEPT ![p] = M],
         ~Opens(loc[p]), ~Opens(M)
  PROVE  Kept
<1>1. SameFile(loc[p], M)
  BY DEF SameFile, Took
<1>2. QED
  BY <1>1, LocalKept

\* Then descriptors and slots stay as they are.
LEMMA StillUses ==
  ASSUME Kept, Numbered, UNCHANGED << open_fds, fd_array >>
  PROVE  Numbered' /\ \A fd, s : Uses(fd, s)' <=> Uses(fd, s)
<1>1. \A q \in Proc : /\ Opens(loc[q])' <=> Opens(loc[q])
                      /\ Took(loc[q])' <=> Took(loc[q])
                      /\ Opens(loc[q]) => "fd" \in DOMAIN loc[q]' /\ loc[q]'.fd = loc[q].fd
                      /\ Took(loc[q]) => loc[q]'.f = loc[q].f /\ loc[q]'.fd = loc[q].fd
  <2> SUFFICES ASSUME NEW q \in Proc
               PROVE  /\ Opens(loc[q])' <=> Opens(loc[q])
                      /\ Took(loc[q])' <=> Took(loc[q])
                      /\ Opens(loc[q]) => "fd" \in DOMAIN loc[q]' /\ loc[q]'.fd = loc[q].fd
                      /\ Took(loc[q]) => loc[q]'.f = loc[q].f /\ loc[q]'.fd = loc[q].fd
    OBVIOUS
  <2>1. SameFile(loc[q], loc[q]')
    BY DEF Kept
  <2>2. /\ Opens(loc[q])' <=> Opens(loc[q]')
        /\ Took(loc[q])' <=> Took(loc[q]')
    BY DEF Opens, Took
  <2>3. /\ Opens(loc[q]) => "fd" \in DOMAIN loc[q]
        /\ Took(loc[q]) => Opens(loc[q])
    BY DEF Numbered, Took
  <2>4. QED
    BY <2>1, <2>2, <2>3 DEF SameFile
<1>2. Returned' = Returned
  <2>1. \A fd : fd \in Opening' <=> fd \in Opening
    <3>1. \A fd : fd \in Opening <=> \E q \in Proc : Opens(loc[q]) /\ loc[q].fd = fd
      BY DEF Opening, Opens
    <3>2. \A fd : fd \in Opening' <=> \E q \in Proc : Opens(loc[q])' /\ loc[q]'.fd = fd
      BY DEF Opening, Opens
    <3>3. QED
      BY <1>1, <3>1, <3>2
  <2>2. QED
    BY <2>1 DEF Returned
<1>3. \A fd, s : Uses(fd, s)' <=> Uses(fd, s)
  <2>1. \A fd, s : Uses(fd, s)' <=> \/ fd \in Returned' /\ fd_array'[fd] = s
                                    \/ \E q \in Proc : Took(loc[q])' /\ loc[q]'.fd = fd /\ loc[q]'.f = s
    BY DEF Uses
  <2>2. QED
    BY <1>1, <1>2, <2>1 DEF Uses
<1>4. Numbered'
  BY <1>1 DEF Numbered
<1>5. QED
  BY <1>3, <1>4

\* At most positions change.
LEMMA DescriptorsKept ==
  ASSUME Descriptors, Kept, UNCHANGED << open_fds, fd_array >>,
         file_table' \in [Slot -> OpenFile],
         \A s \in Slot : /\ file_table'[s].count = file_table[s].count
                         /\ file_table'[s].f_dentry = file_table[s].f_dentry,
         DOMAIN dentries \subseteq DOMAIN dentries'
  PROVE  Descriptors'
<1>1. Numbered' /\ \A fd, s : Uses(fd, s)' <=> Uses(fd, s)
  BY StillUses DEF Descriptors
<1>2. Slotted'
  <2>1. /\ \A fd \in Fd : \A s : Uses(fd, s) =>
             s \in Slot /\ file_table'[s].count = 1 /\ file_table'[s].f_dentry \in DOMAIN dentries'
        /\ \A fd, gd \in Fd : \A s : Uses(fd, s) /\ Uses(gd, s) => fd = gd
        /\ \A s \in Slot : file_table'[s].count = 1 => \E fd \in Fd : Uses(fd, s)
    BY DEF Descriptors, Slotted
  <2>2. QED
    BY <1>1, <2>1 DEF Slotted
<1>3. QED
  BY <1>1, <1>2 DEF Descriptors
-----------------------------------------------------------------------------
\* Which steps leave everybody his descriptor.
LEMMA InodeKept ==
  ASSUME NEW e, Seen(e), NEW p \in Proc, InodeStep(p) PROVE Kept
<1>1. pc[p] # "out"
  BY DEF InodeStep, block_bimap_alloc, block_bitmap_sync, inode_sync_read, inode_sync_write,
     inode_bitmap_sync, inode_bitmap_write, Runs, At
<1>2. CASE UNCHANGED loc
  BY <1>2, NoneKept
<1>3. CASE \E b : Put(p, [blk |-> b])
  BY <1>1, <1>3, PutKept
<1>4. CASE \E b : Put(p, [buf |-> b])
  BY <1>1, <1>4, PutKept
<1>5. CASE Put(p, [buf |-> NULL, copy |-> NULL])
  <2>1. {"call", "fd", "f"} \cap DOMAIN [buf |-> NULL, copy |-> NULL] = {}
    OBVIOUS
  <2>2. QED
    BY <1>1, <1>5, <2>1, PutKept
<1>6. QED
  BY <1>2, <1>3, <1>4, <1>5 DEF InodeStep, block_bimap_alloc, block_bitmap_sync, inode_sync_read,
     inode_sync_write, inode_bitmap_sync, inode_bitmap_write, Panic

\* The walk goes on with the locals of r.
LEMMA WalkSame ==
  ASSUME NEW r, "call" \in DOMAIN r, NEW c, NEW S, {"call", "fd", "f"} \cap S = {}
  PROVE  SameFile(r, [child |-> c] ++ Restrict(r, DOMAIN r \ S))
<1> DEFINE R == Restrict(r, DOMAIN r \ S)
           x == [child |-> c]
<1>1. SameFile(r, R) /\ "call" \in DOMAIN R
  BY LessSame
<1>2. {"call", "fd", "f"} \cap DOMAIN x = {}
  OBVIOUS
<1> HIDE DEF R, x
<1>3. SameFile(R, x ++ R)
  BY <1>1, <1>2, MoreSame
<1>4. QED
  BY <1>1, <1>3, SameTwice DEF R, x

\* A search begins, or goes on, in the blocks of the parent.
LEMMA SearchSame ==
  ASSUME DOMAIN loc = Proc, NEW p \in Proc, NEW parent, NEW idx, NEW r, search_from(p, parent, idx, r),
         SameFile(loc[p], r), "call" \in DOMAIN r
  PROVE  Kept
<1> DEFINE more == { i \in idx .. NDIRECT - 1 : DirInode(parent).sectors[i] # 0 }
           S == {"idx", "lba"}
           x == [idx |-> Min(more), lba |-> DirInode(parent).sectors[Min(more)]]
<1>1. \/ loc' = [loc EXCEPT ![p] = [child |-> 0] ++ Restrict(r, DOMAIN r \ S)]
      \/ loc' = [loc EXCEPT ![p] = x ++ r]
  BY DEF search_from, Local
<1>2. {"call", "fd", "f"} \cap S = {} /\ {"call", "fd", "f"} \cap DOMAIN x = {}
  OBVIOUS
<1> HIDE DEF S, x
<1>3. SameFile(r, [child |-> 0] ++ Restrict(r, DOMAIN r \ S))
  BY <1>2, WalkSame
<1>4. SameFile(r, x ++ r)
  BY <1>2, MoreSame
<1>5. QED
  BY <1>1, <1>3, <1>4, SameTwice, LocalKept

\* The steps of looking a name up.
LEMMA SearchKept ==
  ASSUME NEW e, Seen(e), NEW p \in Proc,
         search_dentry(p) \/ search_block(p) \/ inode_open(p)
  PROVE  Kept
<1>1. pc[p] # "out"
  BY DEF search_dentry, search_block, inode_open, Runs, At
<1>2. DOMAIN loc = Proc /\ "call" \in DOMAIN loc[p]
  BY <1>1, InACall
<1>3. CASE search_dentry(p)
  <2> DEFINE parent == loc[p].child
             n == Head(loc[p].path)
             c == Cached(parent, n)
             x == [parent |-> parent, name |-> n, path |-> Tail(loc[p].path)]
             r == x ++ loc[p]
  <2>1. {"call", "fd", "f"} \cap DOMAIN x = {}
    OBVIOUS
  <2>2. \/ \E d : loc' = [loc EXCEPT ![p] = [child |-> d] ++ r]
        \/ search_from(p, parent, 0, r)
    BY <1>3 DEF search_dentry, Local
  <2> HIDE DEF x
  <2>3. SameFile(loc[p], r) /\ "call" \in DOMAIN r
    BY <1>2, <2>1, MoreSame
  <2> HIDE DEF r
  <2>4. ASSUME NEW d PROVE SameFile(loc[p], [child |-> d] ++ r)
    <3>1. {"call", "fd", "f"} \cap DOMAIN [child |-> d] = {}
      OBVIOUS
    <3>2. SameFile(r, [child |-> d] ++ r)
      BY <2>3, <3>1, MoreSame
    <3>3. QED
      BY <2>3, <3>2, SameTwice
  <2>5. QED
    BY <1>2, <2>2, <2>3, <2>4, LocalKept, SearchSame
<1>4. ASSUME NEW c, Walk(p, c) PROVE Kept
  <2> DEFINE S == {"idx", "lba", "no"}
  <2>1. loc' = [loc EXCEPT ![p] = [child |-> c] ++ Restrict(loc[p], DOMAIN loc[p] \ S)]
    BY <1>4 DEF Walk, Local
  <2>2. {"call", "fd", "f"} \cap S = {}
    OBVIOUS
  <2> HIDE DEF S
  <2>3. QED
    BY <1>2, <2>1, <2>2, WalkSame, LocalKept
<1>5. CASE search_block(p)
  <2>1. ASSUME search_from(p, loc[p].parent, loc[p].idx + 1, loc[p]) PROVE Kept
    BY <1>2, <2>1, StaysSame, SearchSame
  <2>2. ASSUME NEW k, Put(p, [no |-> k]) PROVE Kept
    BY <1>1, <2>2, PutKept
  <2>3. \/ UNCHANGED loc
        \/ search_from(p, loc[p].parent, loc[p].idx + 1, loc[p])
        \/ \E c : Walk(p, c)
        \/ \E k : Put(p, [no |-> k])
    BY <1>5 DEF search_block, Panic
  <2>4. QED
    BY <1>4, <2>1, <2>2, <2>3, NoneKept
<1>6. CASE inode_open(p)
  BY <1>4, <1>6 DEF inode_open
<1>7. QED
  BY <1>3, <1>5, <1>6

\* The steps of writing an entry.
LEMMA EntryKept ==
  ASSUME NEW e, Seen(e), NEW p \in Proc,
         \/ dir_write(p) \/ dir_write_zero(p) \/ dir_write_read(p)
         \/ dir_write_write(p) \/ dir_write_dots(p) \/ dir_write_dots_write(p)
  PROVE  Kept
<1>1. pc[p] # "out"
  BY DEF dir_write, dir_write_zero, dir_write_read, dir_write_write, dir_write_dots,
     dir_write_dots_write, Runs, At
<1>2. ASSUME NEW r, Put(p, r), DOMAIN r \subseteq {"ret", "lba", "blk", "buf", "idx", "written"} PROVE Kept
  <2>1. {"call", "fd", "f"} \cap DOMAIN r = {}
    BY <1>2
  <2>2. QED
    BY <1>1, <1>2, <2>1, PutKept
<1>3. CASE dir_write(p)
  <2>1. \A x : /\ DOMAIN [ret |-> x] \subseteq {"ret", "lba", "blk", "buf", "idx", "written"}
               /\ DOMAIN [lba |-> x] \subseteq {"ret", "lba", "blk", "buf", "idx", "written"}
    OBVIOUS
  <2>2. UNCHANGED loc \/ (\E x : Put(p, [ret |-> x])) \/ (\E x : Put(p, [lba |-> x]))
    BY <1>3 DEF dir_write, Panic
  <2>3. QED
    BY <1>2, <2>1, <2>2, NoneKept
<1>4. CASE dir_write_zero(p) \/ dir_write_dots(p)
  <2>1. \A x, y, z : DOMAIN [lba |-> x, blk |-> y, buf |-> z] \subseteq {"ret", "lba", "blk", "buf", "idx", "written"}
    OBVIOUS
  <2>2. \E x, y, z : Put(p, [lba |-> x, blk |-> y, buf |-> z])
    BY <1>4 DEF dir_write_zero, dir_write_dots
  <2>3. QED
    BY <1>2, <2>1, <2>2
<1>5. CASE dir_write_read(p)
  <2>1. \A x, y : /\ DOMAIN [buf |-> x, lba |-> y] \subseteq {"ret", "lba", "blk", "buf", "idx", "written"}
                  /\ DOMAIN [idx |-> x] \subseteq {"ret", "lba", "blk", "buf", "idx", "written"}
    OBVIOUS
  <2>2. (\E x, y : Put(p, [buf |-> x, lba |-> y])) \/ (\E x : Put(p, [idx |-> x]))
    BY <1>5 DEF dir_write_read
  <2>3. QED
    BY <1>2, <2>1, <2>2
<1>6. CASE dir_write_write(p) \/ dir_write_dots_write(p)
  <2>1. \A x, y, z : /\ DOMAIN [buf |-> x, written |-> y, ret |-> z] \subseteq {"ret", "lba", "blk", "buf", "idx", "written"}
                     /\ DOMAIN [buf |-> x] \subseteq {"ret", "lba", "blk", "buf", "idx", "written"}
    OBVIOUS
  <2>2. \/ \E x, y, z : Put(p, [buf |-> x, written |-> y, ret |-> z])
        \/ \E x : Put(p, [buf |-> x])
    BY <1>6 DEF dir_write_write, dir_write_dots_write
  <2>3. QED
    BY <1>2, <2>1, <2>2
<1>7. QED
  BY <1>3, <1>4, <1>5, <1>6

\* A creation begins: the process has no slot yet.
LEMMA CreateKept ==
  ASSUME NEW e, Seen(e), NEW p \in Proc, NEW dir, At(p, "walk"), create(p, dir) PROVE Kept
<1>1. CASE UNCHANGED loc
  BY <1>1, NoneKept
<1>2. CASE ~UNCHANGED loc
  <2> DEFINE L == [call |-> loc[p].call, fd |-> loc[p].fd, parent |-> loc[p].parent,
                   name |-> loc[p].name, inode |-> Len(open_inodes'), idx |-> 0]
  <2>1. loc' = [loc EXCEPT ![p] = L]
    BY <1>2 DEF create, Panic, Local
  <2>2. Walks(e, loc[p])
    BY Known DEF At, Looking
  <2>3. {"call", "fd"} \subseteq DOMAIN loc[p] /\ "f" \notin DOMAIN loc[p] /\ loc[p] # << >>
    BY <2>2 DEF Walks, Call_in
  <2>4. /\ L # << >> /\ L.call = loc[p].call /\ "fd" \in DOMAIN L /\ L.fd = loc[p].fd
        /\ "f" \notin DOMAIN L
    OBVIOUS
  <2> HIDE DEF L
  <2>5. SameFile(loc[p], L)
    BY <2>3, <2>4 DEF SameFile, Opens, Took
  <2>6. QED
    BY <2>1, <2>5, InACall, LocalKept
<1>3. QED
  BY <1>1, <1>2

\* A call with a path begins, other than open().
LEMMA PathKept ==
  ASSUME NEW e, Seen(e), NEW p \in Proc, pc[p] = "out", NEW call, call # "open", NEW path,
         parse_path(p, [call |-> call, fd |-> 0], path)
  PROVE  Kept
<1> DEFINE absolute == path # << >> /\ path[1] = "/"
           start == IF absolute THEN 1 ELSE cwd
           x == [path |-> IF absolute THEN Tail(path) ELSE path,
                 parent |-> start, child |-> start, name |-> NULL]
           L == [call |-> call, fd |-> 0] ++ x
<1>1. loc' = [loc EXCEPT ![p] = L]
  BY DEF parse_path, Local
<1>2. L.call = call
  <2> HIDE DEF x
  <2>1. QED
    BY DEF ++
<1> HIDE DEF L
<1>3. ~Opens(L) /\ ~Opens(loc[p]) /\ DOMAIN loc = Proc
  BY <1>2, InACall DEF Opens
<1>4. QED
  BY <1>1, <1>3, NotOpens

\* A call returns, other than open().
LEMMA ReturnKept ==
  ASSUME NEW e, Seen(e), NEW p \in Proc, Return(p), loc[p].call # "open" PROVE Kept
<1>1. ~Opens(loc[p]) /\ ~Opens(<< >>) /\ DOMAIN loc = Proc
  BY InACall DEF Opens
<1>2. QED
  BY <1>1, NotOpens DEF Return, Local

\* So each step of fs/dir.c leaves everybody his descriptor.
LEMMA DirectoryKept ==
  ASSUME NEW e, Seen(e), NEW p \in Proc, DirectoryStep(p) PROVE Kept
<1>1. CASE \/ search_dentry(p) \/ search_block(p) \/ inode_open(p)
  BY <1>1, SearchKept
<1>2. CASE \/ dir_write(p) \/ dir_write_zero(p) \/ dir_write_read(p)
           \/ dir_write_write(p) \/ dir_write_dots(p) \/ dir_write_dots_write(p)
  BY <1>2, EntryKept
<1>3. CASE \E path \in MkdirPaths : mkdir(p, path)
  BY <1>3, PathKept DEF mkdir, At
<1>4. CASE \E path \in ChdirPaths : chdir(p, path)
  BY <1>4, PathKept DEF chdir, At
<1>5. CASE sys_mkdirat(p)
  <2>1. At(p, "walk") /\ (UNCHANGED loc \/ create(p, TRUE))
    BY <1>5 DEF sys_mkdirat, Parsed, Runs, Panic
  <2>2. QED
    BY <2>1, NoneKept, CreateKept
<1>6. CASE dir_create(p)
  <2> DEFINE x == [inode |-> loc[p].inode, copy |-> OnDisk(loc[p].inode), ret |-> "ibsync"]
             L == x ++ [call |-> "mkdir", written |-> TRUE]
  <2>1. loc' = [loc EXCEPT ![p] = L] /\ loc[p].call = "mkdir"
    BY <1>6 DEF dir_create, dir_written, inode_sync, Local
  <2>2. L.call = "mkdir"
    BY DEF ++
  <2> HIDE DEF L
  <2>3. ~Opens(L) /\ ~Opens(loc[p]) /\ DOMAIN loc = Proc
    BY <2>1, <2>2, InACall DEF Opens
  <2>4. QED
    BY <2>1, <2>3, NotOpens
<1>7. CASE mkdir_end(p)
  BY <1>7, ReturnKept DEF mkdir_end
<1>8. CASE sys_chdir(p)
  BY <1>8, ReturnKept, NoneKept DEF sys_chdir, Parsed, Panic
<1>9. QED
  BY <1>1, <1>2, <1>3, <1>4, <1>5, <1>6, <1>7, <1>8 DEF DirectoryStep

\* Entries only come.
LEMMA EntriesStay ==
  ASSUME NEW e, Seen(e), NEW p \in Proc,
         DirectoryStep(p) \/ file_create(p) \/ UNCHANGED dentries
  PROVE  DOMAIN dentries \subseteq DOMAIN dentries'
<1>1. ASSUME NEW d, dentries' = Append(dentries, d)
      PROVE  DOMAIN dentries \subseteq DOMAIN dentries'
  BY <1>1, Same, Appended DEF Owners, Entered
<1>2. CASE search_dentry(p) \/ search_block(p)
  BY <1>1, <1>2 DEF search_dentry, search_block
<1>3. CASE inode_open(p) \/ dir_create(p) \/ file_create(p)
  BY <1>1, <1>3 DEF inode_open, dir_create, file_create, dir_written
<1>4. CASE UNCHANGED dentries
  BY <1>4
<1>5. CASE \/ dir_write_zero(p) \/ dir_write_read(p)
           \/ dir_write_write(p) \/ dir_write_dots(p) \/ dir_write_dots_write(p)
           \/ mkdir_end(p) \/ sys_mkdirat(p) \/ sys_chdir(p) \/ dir_write(p)
           \/ (\E path \in MkdirPaths : mkdir(p, path))
           \/ \E path \in ChdirPaths : chdir(p, path)
  BY <1>4, <1>5 DEF dir_write, dir_write_zero, dir_write_read, dir_write_write, dir_write_dots,
     dir_write_dots_write, mkdir_end, sys_mkdirat, sys_chdir, mkdir, chdir, dirs
<1>6. QED
  BY <1>2, <1>3, <1>4, <1>5 DEF DirectoryStep

-----------------------------------------------------------------------------
\* The steps of reading and writing.
PlainFileStep(p) ==
  \/ filp_openat_create(p) \/ filp_openat_slash(p) \/ table_read(p)
  \/ \E fd \in Fd, n \in WriteCounts, v \in Data : write(p, fd, n, v)
  \/ write_direct(p) \/ write_table(p) \/ write_new_table(p) \/ write_zero_table(p)
  \/ write_slot(p) \/ write_new_block(p) \/ write_read(p) \/ write_write(p)
  \/ write_too_much(p) \/ write_end(p) \/ write_table_back(p)
  \/ \E fd \in Fd, n \in ReadCounts : read(p, fd, n)
  \/ read_loop(p) \/ read_slot(p) \/ read_read(p)

\* A read or a write begins,
LEMMA BeginKept ==
  ASSUME NEW e, Seen(e), NEW p \in Proc, pc[p] = "out", NEW L, NEW loop, NEW slot,
         Begin(p, L, loop, slot), "call" \in DOMAIN L, L.call # "open"
  PROVE  Kept
<1> DEFINE x == [lba |-> Pointer(L.inode, NDIRECT), ret |-> slot]
<1>1. UNCHANGED loc \/ loc' = [loc EXCEPT ![p] = L] \/ loc' = [loc EXCEPT ![p] = x ++ L]
  BY DEF Begin, Panic, Local
<1>2. ~Opens(L) /\ ~Opens(loc[p]) /\ DOMAIN loc = Proc
  BY InACall DEF Opens
<1>3. ~Opens(x ++ L)
  <2>1. {"call", "fd", "f"} \cap DOMAIN x = {}
    OBVIOUS
  <2> HIDE DEF x
  <2>2. SameFile(L, x ++ L)
    BY <2>1, MoreSame
  <2>3. QED
    BY <1>2, <2>2 DEF SameFile
<1> HIDE DEF x
<1>4. QED
  BY <1>1, <1>2, <1>3, NoneKept, NotOpens

\* and writes its inode back.
LEMMA SyncInodeKept ==
  ASSUME NEW e, Seen(e), NEW p \in Proc, pc[p] # "out", loc[p].call = "write", NEW grew, SyncInode(p, grew)
  PROVE  Kept
<1> DEFINE x == [inode |-> loc[p].inode, copy |-> OnDisk(loc[p].inode), ret |-> "fw_done"]
           L == x ++ [call |-> "write", f |-> loc[p].f, end |-> loc[p].end]
<1>1. Put(p, [tab |-> NULL]) \/ loc' = [loc EXCEPT ![p] = L]
  BY DEF SyncInode, inode_sync, Local
<1>2. L.call = "write"
  BY DEF ++
<1> HIDE DEF L
<1>3. ~Opens(L) /\ ~Opens(loc[p]) /\ DOMAIN loc = Proc
  BY <1>2, InACall DEF Opens
<1>4. {"call", "fd", "f"} \cap DOMAIN [tab |-> NULL] = {}
  OBVIOUS
<1>5. QED
  BY <1>1, <1>3, <1>4, NotOpens, PutKept

\* So they leave everybody his descriptor.
LEMMA FileKept ==
  ASSUME NEW e, Seen(e), NEW p \in Proc, PlainFileStep(p) PROVE Kept /\ UNCHANGED << dirs, files >>
<1> DEFINE S == {"ret", "lba", "blk", "buf", "tab", "sync2", "at", "got"}
<1>1. ASSUME pc[p] # "out", NEW r, Put(p, r), DOMAIN r \subseteq S PROVE Kept
  <2>1. {"call", "fd", "f"} \cap DOMAIN r = {}
    BY <1>1
  <2>2. QED
    BY <1>1, <2>1, PutKept
<1>2. \A x, y : /\ DOMAIN [ret |-> x] \subseteq S /\ DOMAIN [lba |-> x] \subseteq S
                /\ DOMAIN [tab |-> x] \subseteq S
                /\ DOMAIN [lba |-> x, ret |-> y] \subseteq S /\ DOMAIN [tab |-> x, sync2 |-> y] \subseteq S
                /\ DOMAIN [sync2 |-> x, ret |-> y] \subseteq S /\ DOMAIN [lba |-> x, tab |-> y] \subseteq S
                /\ DOMAIN [buf |-> x, lba |-> y] \subseteq S /\ DOMAIN [lba |-> x, sync2 |-> y] \subseteq S
  OBVIOUS
<1>3. \A x, y, z, w : /\ DOMAIN [buf |-> x, blk |-> y, lba |-> z, at |-> w] \subseteq S
                      /\ DOMAIN [got |-> x, lba |-> y, at |-> z] \subseteq S
  OBVIOUS
<1> HIDE DEF S
<1>4. CASE filp_openat_create(p)
  BY <1>4, CreateKept DEF filp_openat_create, Parsed, Runs
<1>5. CASE \E fd \in Fd, n \in WriteCounts, v \in Data : write(p, fd, n, v)
  <2>1. PICK fd \in Fd, n \in WriteCounts, v \in Data : write(p, fd, n, v)
    BY <1>5
  <2> DEFINE s == fd_array[fd]
             L == [call |-> "write", f |-> s, inode |-> FileInode(s), datum |-> v,
                   at |-> file_table[s].pos, end |-> file_table[s].pos + n, tab |-> NULL, sync2 |-> FALSE]
  <2>2. Begin(p, L, "fw_loop", "fw_loop") /\ pc[p] = "out" /\ UNCHANGED << dirs, files >>
    BY <2>1 DEF write, Idle, At
  <2>3. "call" \in DOMAIN L /\ L.call # "open"
    OBVIOUS
  <2> HIDE DEF L
  <2>4. QED
    BY <2>2, <2>3, BeginKept
<1>6. CASE \E fd \in Fd, n \in ReadCounts : read(p, fd, n)
  <2>1. PICK fd \in Fd, n \in ReadCounts : read(p, fd, n)
    BY <1>6
  <2> DEFINE s == fd_array[fd]
             i == FileInode(s)
             pos == file_table[s].pos
             L == [call |-> "read", f |-> s, inode |-> i, at |-> pos,
                   start |-> pos, n |-> n, end |-> Min({Size(i), pos + n}), tab |-> NULL,
                   got |-> << >>]
  <2>2. /\ UNCHANGED loc \/ Begin(p, L, "fr_loop", "fr_slot")
        /\ pc[p] = "out" /\ UNCHANGED << dirs, files >>
    BY <2>1 DEF read, Idle, At, Panic
  <2>3. "call" \in DOMAIN L /\ L.call # "open"
    OBVIOUS
  <2> HIDE DEF L
  <2>4. QED
    BY <2>2, <2>3, BeginKept, NoneKept
<1>7. CASE table_read(p) \/ write_direct(p) \/ write_table(p)
  <2>1. pc[p] # "out" /\ UNCHANGED << dirs, files >>
    BY <1>7 DEF table_read, write_direct, write_table, Runs, At
  <2>2. \/ UNCHANGED loc \/ (\E x : Put(p, [tab |-> x])) \/ (\E x : Put(p, [ret |-> x]))
        \/ (\E x : Put(p, [lba |-> x])) \/ \E x, y : Put(p, [lba |-> x, ret |-> y])
    BY <1>7 DEF table_read, write_direct, write_table, Panic
  <2>3. QED
    BY <1>1, <1>2, <2>1, <2>2, NoneKept
<1>8. CASE write_new_table(p) \/ write_zero_table(p) \/ write_slot(p)
  <2>1. pc[p] # "out" /\ UNCHANGED << dirs, files >>
    BY <1>8 DEF write_new_table, write_zero_table, write_slot, Runs, At
  <2>2. \/ UNCHANGED loc \/ (\E x, y : Put(p, [tab |-> x, sync2 |-> y]))
        \/ (\E x : Put(p, [lba |-> x])) \/ \E x, y : Put(p, [sync2 |-> x, ret |-> y])
    BY <1>8 DEF write_new_table, write_zero_table, write_slot
  <2>3. QED
    BY <1>1, <1>2, <2>1, <2>2, NoneKept
<1>9. CASE write_new_block(p) \/ write_read(p) \/ write_write(p)
  <2>1. pc[p] # "out" /\ UNCHANGED << dirs, files >>
    BY <1>9 DEF write_new_block, write_read, write_write, Runs, At
  <2>2. \/ (\E x : Put(p, [lba |-> x])) \/ (\E x, y : Put(p, [lba |-> x, tab |-> y]))
        \/ (\E x, y : Put(p, [buf |-> x, lba |-> y]))
        \/ (\E x, y, z, w : Put(p, [buf |-> x, blk |-> y, lba |-> z, at |-> w]))
    BY <1>9 DEF write_new_block, write_read, write_write
  <2>3. QED
    BY <1>1, <1>2, <1>3, <2>1, <2>2
<1>10. CASE write_end(p) \/ write_table_back(p)
  <2>1. pc[p] \in {"fw_loop", "tab_write"} /\ UNCHANGED << dirs, files >>
    BY <1>10 DEF write_end, write_table_back, Runs, At
  <2>2. loc[p].call = "write"
    BY <2>1, WritingAt DEF Writes, Call_in
  <2>3. \/ \E x, y : Put(p, [lba |-> x, sync2 |-> y])
        \/ \E grew : SyncInode(p, grew)
    BY <1>10 DEF write_end, write_table_back
  <2>4. QED
    BY <1>1, <1>2, <2>1, <2>2, <2>3, SyncInodeKept
<1>11. CASE read_loop(p) \/ read_slot(p) \/ read_read(p)
  <2>1. pc[p] # "out" /\ UNCHANGED << dirs, files >>
    BY <1>11 DEF read_loop, read_slot, read_read, Runs, At
  <2>2. \/ UNCHANGED loc \/ (\E x : Put(p, [lba |-> x])) \/ (\E x, y : Put(p, [lba |-> x, ret |-> y]))
        \/ (\E x, y, z : Put(p, [got |-> x, lba |-> y, at |-> z]))
    BY <1>11 DEF read_loop, read_slot, read_read, read_block, Panic
  <2>3. QED
    BY <1>1, <1>2, <1>3, <2>1, <2>2, NoneKept
<1>12. CASE filp_openat_slash(p) \/ write_too_much(p)
  BY <1>12, NoneKept DEF filp_openat_slash, write_too_much, Panic
<1>13. QED
  BY <1>4, <1>5, <1>6, <1>7, <1>8, <1>9, <1>10, <1>11, <1>12 DEF PlainFileStep, filp_openat_create
-----------------------------------------------------------------------------
\* Another process opens with descriptor g, or has slot s for it.
OtherOpens(p, g) == \E q \in Proc \ {p} : Opens(loc[q]) /\ loc[q].fd = g
OtherUses(p, g, s) == \E q \in Proc \ {p} : Took(loc[q]) /\ loc[q].fd = g /\ loc[q].f = s

\* Who opens what, and who uses which slot, seen from p;
LEMMA Others ==
  ASSUME NEW p \in Proc
  PROVE  /\ \A g : g \in Opening <=> (Opens(loc[p]) /\ loc[p].fd = g) \/ OtherOpens(p, g)
         /\ \A g, s : Uses(g, s) <=> \/ g \in Returned /\ fd_array[g] = s
                                     \/ Took(loc[p]) /\ loc[p].fd = g /\ loc[p].f = s
                                     \/ OtherUses(p, g, s)
         /\ \A g, s : OtherUses(p, g, s) => OtherOpens(p, g)
         /\ Numbered => /\ Opens(loc[p]) => /\ loc[p].fd \in open_fds /\ loc[p].fd \in Fd
                                            /\ ~OtherOpens(p, loc[p].fd)
                        /\ \A g : OtherOpens(p, g) => g \in open_fds
<1>1. \A g : g \in Opening <=> \E q \in Proc : Opens(loc[q]) /\ loc[q].fd = g
  BY DEF Opening, Opens
<1>2. \A g : g \in Opening <=> (Opens(loc[p]) /\ loc[p].fd = g) \/ OtherOpens(p, g)
  BY <1>1 DEF OtherOpens
<1>3. \A g, s : Uses(g, s) <=> \/ g \in Returned /\ fd_array[g] = s
                               \/ Took(loc[p]) /\ loc[p].fd = g /\ loc[p].f = s
                               \/ OtherUses(p, g, s)
  BY DEF Uses, OtherUses
<1>4. \A g, s : OtherUses(p, g, s) => OtherOpens(p, g)
  BY DEF OtherUses, OtherOpens, Took
<1>5. Numbered => /\ Opens(loc[p]) => /\ loc[p].fd \in open_fds /\ loc[p].fd \in Fd
                                      /\ ~OtherOpens(p, loc[p].fd)
                  /\ \A g : OtherOpens(p, g) => g \in open_fds
  BY DEF Numbered, OtherOpens
<1>6. QED
  BY <1>2, <1>3, <1>4, <1>5

\* the same after a step of p;
LEMMA OthersStay ==
  ASSUME DOMAIN loc = Proc, NEW p \in Proc, NEW M, loc' = [loc EXCEPT ![p] = M]
  PROVE  /\ \A g : g \in Opening' <=> (Opens(M) /\ M.fd = g) \/ OtherOpens(p, g)
         /\ \A g, s : Uses(g, s)' <=> \/ g \in Returned' /\ fd_array'[g] = s
                                      \/ Took(M) /\ M.fd = g /\ M.f = s
                                      \/ OtherUses(p, g, s)
<1>1. loc'[p] = M /\ \A q \in Proc \ {p} : loc'[q] = loc[q]
  OBVIOUS
<1>2. \A g : g \in Opening' <=> \E q \in Proc : Opens(loc'[q]) /\ loc'[q].fd = g
  BY DEF Opening, Opens
<1>3. \A g : g \in Opening' <=> (Opens(M) /\ M.fd = g) \/ OtherOpens(p, g)
  BY <1>1, <1>2 DEF OtherOpens
<1>4. \A g, s : Uses(g, s)' <=> \/ g \in Returned' /\ fd_array'[g] = s
                                \/ \E q \in Proc : Took(loc'[q]) /\ loc'[q].fd = g /\ loc'[q].f = s
  BY DEF Uses, Took, Opens
<1>5. \A g, s : Uses(g, s)' <=> \/ g \in Returned' /\ fd_array'[g] = s
                                \/ Took(M) /\ M.fd = g /\ M.f = s
                                \/ OtherUses(p, g, s)
  BY <1>1, <1>4 DEF OtherUses
<1>6. QED
  BY <1>3, <1>5

\* and what that step has to see to.
LEMMA NumberedOn ==
  ASSUME DOMAIN loc = Proc, NEW p \in Proc, NEW M, loc' = [loc EXCEPT ![p] = M],
         Numbered, open_fds' \subseteq Fd,
         Opens(M) => "fd" \in DOMAIN M /\ M.fd \in open_fds' /\ ~OtherOpens(p, M.fd),
         \A g : OtherOpens(p, g) => g \in open_fds'
  PROVE  Numbered'
<1>1. loc'[p] = M /\ \A q \in Proc \ {p} : loc'[q] = loc[q]
  OBVIOUS
<1>2. \A q \in Proc \ {p} : Opens(loc[q]) => OtherOpens(p, loc[q].fd)
  BY DEF OtherOpens
<1>3. \A q \in Proc : Opens(loc'[q]) => "fd" \in DOMAIN loc'[q] /\ loc'[q].fd \in open_fds'
  BY <1>1, <1>2 DEF Numbered
<1>4. \A q, r \in Proc : Opens(loc'[q]) /\ Opens(loc'[r]) /\ loc'[q].fd = loc'[r].fd => q = r
  BY <1>1, <1>2 DEF Numbered
<1>5. \A q \in Proc : Opens(loc[q])' <=> Opens(loc'[q])
  BY DEF Opens
<1>6. QED
  BY <1>3, <1>4, <1>5 DEF Numbered

\* A descriptor has one slot, and one that has none finds a free one.
LEMMA UsesOne ==
  ASSUME Numbered, NEW g, NEW s, NEW t, Uses(g, s), Uses(g, t)
  PROVE  s = t /\ g \in Fd
<1>1. ASSUME NEW q \in Proc, Took(loc[q]) PROVE loc[q].fd \in Opening /\ loc[q].fd \in Fd
  BY <1>1 DEF Opening, Took, Opens, Numbered
<1>2. \A q, r \in Proc : Took(loc[q]) /\ Took(loc[r]) /\ loc[q].fd = loc[r].fd => q = r
  BY DEF Numbered, Took
<1>3. \A h \in Returned : h \notin Opening /\ h \in Fd
  BY DEF Returned, Numbered
<1>4. QED
  BY <1>1, <1>2, <1>3 DEF Uses

\* There are as many slots as descriptors.
LEMMA FreeSlot ==
  ASSUME Descriptors, NEW g \in Fd, \A s : ~Uses(g, s)
  PROVE  get_free_file \in Slot /\ file_table[get_free_file].count = 0
<1> DEFINE free == { s \in Slot : file_table[s].count = 0 }
<1>1. NrFiles \in Nat \ {0}
  BY FileAssumption
<1>2. ASSUME free = {} PROVE FALSE
  <2> DEFINE h == [s \in Slot |-> CHOOSE f \in Fd : Uses(f, s)]
  <2>1. \A s \in Slot : file_table[s].count \in {0, 1}
    BY DEF Descriptors, OpenFile
  <2>2. \A s \in Slot : \E f \in Fd : Uses(f, s)
    BY <1>2, <2>1 DEF Descriptors, Slotted
  <2>3. \A s \in Slot : h[s] \in Fd /\ Uses(h[s], s)
    BY <2>2
  <2>4. h \in [Slot -> Fd \ {g}]
    BY <2>3
  <2>5. \A s, t \in Slot : h[s] = h[t] => s = t
    BY <2>3, UsesOne DEF Descriptors
  <2> HIDE DEF h
  <2>6. IsFiniteSet(Fd) /\ Cardinality(Fd) = NrFiles /\ NrFiles \in Nat
    BY <1>1, FS_Interval DEF Fd
  <2>7. IsFiniteSet(Fd \ {g}) /\ Cardinality(Fd \ {g}) < Cardinality(Fd)
    BY <2>6, FS_RemoveElement
  <2>8. Fd = Slot
    BY DEF Fd, Slot
  <2>9. PICK s, t \in Slot : s # t /\ h[s] = h[t]
    BY <2>4, <2>6, <2>7, <2>8, FS_PigeonHole
  <2>10. QED
    BY <2>5, <2>9
<1>3. free \in SUBSET Nat
  BY <1>1 DEF Slot
<1>4. QED
  BY <1>2, <1>3, LeastIn DEF get_free_file
-----------------------------------------------------------------------------
\* Slots when nothing is opened or closed, when descriptor fd gets slot n, and when it
\* gives slot n up.
LEMMA SlotsStay ==
  ASSUME Descriptors, UNCHANGED file_table, DOMAIN dentries \subseteq DOMAIN dentries',
         \A g, s : Uses(g, s)' <=> Uses(g, s)
  PROVE  Slotted'
<1>1. /\ \A g \in Fd : \A s : Uses(g, s) =>
           s \in Slot /\ file_table'[s].count = 1 /\ file_table'[s].f_dentry \in DOMAIN dentries'
      /\ \A g, h \in Fd : \A s : Uses(g, s) /\ Uses(h, s) => g = h
      /\ \A s \in Slot : file_table'[s].count = 1 => \E g \in Fd : Uses(g, s)
  BY DEF Descriptors, Slotted
<1>2. QED
  BY <1>1 DEF Slotted

\* A descriptor gets a slot,
LEMMA SlotTaken ==
  ASSUME Descriptors, DOMAIN dentries \subseteq DOMAIN dentries', NEW d \in Nat, d \in DOMAIN dentries',
         NEW fd \in Fd, \A s : ~Uses(fd, s), NEW n \in Slot, file_table[n].count = 0,
         file_table' = [file_table EXCEPT ![n] = [count |-> 1, pos |-> 0, f_dentry |-> d]],
         \A g, s : Uses(g, s)' <=> Uses(g, s) \/ (g = fd /\ s = n)
  PROVE  Slotted' /\ file_table' \in [Slot -> OpenFile]
<1>1. file_table \in [Slot -> OpenFile]
  BY DEF Descriptors
<1>2. file_table' \in [Slot -> OpenFile]
  BY <1>1 DEF OpenFile
<1>3. /\ file_table'[n].count = 1 /\ file_table'[n].f_dentry = d
      /\ \A s \in Slot \ {n} : file_table'[s] = file_table[s]
  BY <1>1
<1>4. \A g \in Fd : ~Uses(g, n)
  BY DEF Descriptors, Slotted
<1>5. \A g \in Fd : \A s : Uses(g, s)' =>
        s \in Slot /\ file_table'[s].count = 1 /\ file_table'[s].f_dentry \in DOMAIN dentries'
  BY <1>3 DEF Descriptors, Slotted
<1>6. \A g, h \in Fd : \A s : Uses(g, s)' /\ Uses(h, s)' => g = h
  BY <1>4 DEF Descriptors, Slotted
<1>7. \A s \in Slot : file_table'[s].count = 1 => \E g \in Fd : Uses(g, s)'
  BY <1>3 DEF Descriptors, Slotted
<1>8. Slotted'
  BY <1>5, <1>6, <1>7 DEF Slotted
<1>9. QED
  BY <1>2, <1>8

\* or gives it up.
LEMMA SlotGivenUp ==
  ASSUME Descriptors, DOMAIN dentries \subseteq DOMAIN dentries',
         NEW fd \in Fd, NEW n \in Slot, Uses(fd, n),
         file_table' = [file_table EXCEPT ![n] = NoFile],
         \A g, s : Uses(g, s)' <=> Uses(g, s) /\ g # fd
  PROVE  Slotted' /\ file_table' \in [Slot -> OpenFile]
<1>1. file_table \in [Slot -> OpenFile]
  BY DEF Descriptors
<1>2. file_table' \in [Slot -> OpenFile]
  BY <1>1 DEF OpenFile, NoFile
<1>3. /\ file_table'[n].count = 0
      /\ \A s \in Slot \ {n} : file_table'[s] = file_table[s]
  BY <1>1 DEF NoFile
<1>4. \A g \in Fd : Uses(g, n) => g = fd
  BY DEF Descriptors, Slotted
<1>5. \A s : Uses(fd, s) => s = n
  BY UsesOne DEF Descriptors
<1>6. \A g \in Fd : \A s : Uses(g, s)' =>
        s \in Slot /\ file_table'[s].count = 1 /\ file_table'[s].f_dentry \in DOMAIN dentries'
  BY <1>3, <1>4 DEF Descriptors, Slotted
<1>7. \A g, h \in Fd : \A s : Uses(g, s)' /\ Uses(h, s)' => g = h
  BY DEF Descriptors, Slotted
<1>8. \A s \in Slot : file_table'[s].count = 1 => \E g \in Fd : Uses(g, s)'
  <2> SUFFICES ASSUME NEW s \in Slot, file_table'[s].count = 1 PROVE \E g \in Fd : Uses(g, s)'
    OBVIOUS
  <2>1. s # n /\ file_table[s].count = 1
    BY <1>3
  <2>2. PICK g \in Fd : Uses(g, s)
    BY <2>1 DEF Descriptors, Slotted
  <2>3. g # fd
    BY <1>5, <2>1, <2>2
  <2>4. QED
    BY <2>2, <2>3
<1>9. Slotted'
  BY <1>6, <1>7, <1>8 DEF Slotted
<1>10. QED
  BY <1>2, <1>9

-----------------------------------------------------------------------------
\* Descriptors are kept by the calls that open and close.
LEMMA OpenDescriptors ==
  ASSUME Descriptors, NEW e, Seen(e), NEW p \in Proc, NEW path, NEW creat, open(p, path, creat)
  PROVE  Descriptors'
<1> DEFINE fd == Min(Fd \ open_fds)
           r == [call |-> "open", fd |-> fd, creat |-> creat]
           absolute == path # << >> /\ path[1] = "/"
           start == IF absolute THEN 1 ELSE cwd
           x == [path |-> IF absolute THEN Tail(path) ELSE path,
                 parent |-> start, child |-> start, name |-> NULL]
           L == r ++ x
<1>1. fd \in Fd /\ fd \notin open_fds
  <2>1. NrFiles \in Nat
    BY FileAssumption
  <2>2. Fd \ open_fds \in SUBSET Nat /\ Fd \ open_fds # {}
    BY <2>1 DEF Fd, open
  <2>3. QED
    BY <2>2, LeastIn
<1>2. /\ open_fds' = open_fds \cup {fd} /\ UNCHANGED << fd_array, file_table, dentries >>
      /\ loc' = [loc EXCEPT ![p] = L] /\ pc[p] = "out"
  BY DEF open, parse_path, Local, Idle, At, dirs
<1>3. L.call = "open" /\ "fd" \in DOMAIN L /\ L.fd = fd /\ "f" \notin DOMAIN L /\ L # << >>
  <2>1. /\ DOMAIN r = {"call", "fd", "creat"} /\ r.call = "open" /\ r.fd = fd
        /\ DOMAIN x = {"path", "parent", "child", "name"}
    OBVIOUS
  <2> HIDE DEF r, x
  <2>2. L.call = "open" /\ "fd" \in DOMAIN L /\ L.fd = fd /\ "f" \notin DOMAIN L
    BY <2>1 DEF ++
  <2> HIDE DEF L
  <2>3. QED
    BY <2>2
<1> HIDE DEF L, fd
<1>4. DOMAIN loc = Proc /\ ~Opens(loc[p]) /\ ~Took(loc[p]) /\ Opens(L) /\ ~Took(L)
  BY <1>2, <1>3, InACall DEF Opens, Took
<1>5. Numbered /\ open_fds \subseteq Fd
  BY DEF Descriptors, Numbered
<1>6. Numbered'
  <2>1. open_fds' \subseteq Fd
    BY <1>1, <1>2, <1>5
  <2>2. \A g : OtherOpens(p, g) => g \in open_fds /\ g # fd
    BY <1>1, <1>5, Others
  <2>3. QED
    BY <1>2, <1>3, <1>4, <1>5, <2>1, <2>2, NumberedOn
<1>7. \A g : g \in Opening' <=> g = fd \/ g \in Opening
  BY <1>2, <1>3, <1>4, Others, OthersStay
<1>8. Returned' = Returned
  BY <1>1, <1>2, <1>7 DEF Returned
<1>9. \A g, s : Uses(g, s)' <=> Uses(g, s)
  BY <1>2, <1>4, <1>8, Others, OthersStay
<1>10. Slotted'
  BY <1>2, <1>9, SlotsStay
<1>11. QED
  BY <1>2, <1>6, <1>10 DEF Descriptors

\* open() finds nothing: the descriptor is free again.
LEMMA NoneDescriptors ==
  ASSUME Descriptors, NEW e, Seen(e), NEW p \in Proc, filp_openat_none(p) PROVE Descriptors'
<1> DEFINE fd == loc[p].fd
<1>1. /\ open_fds' = open_fds \ {fd} /\ UNCHANGED << fd_array, file_table, dentries >>
      /\ loc' = [loc EXCEPT ![p] = << >>] /\ At(p, "walk") /\ loc[p].call = "open"
  BY DEF filp_openat_none, Return, Local, Parsed, Runs, dirs
<1>2. "f" \notin DOMAIN loc[p] /\ loc[p] # << >> /\ DOMAIN loc = Proc
  BY <1>1, Known, InACall DEF At, Looking, Walks
<1>3. Opens(loc[p]) /\ ~Took(loc[p]) /\ ~Opens(<< >>) /\ ~Took(<< >>)
  BY <1>1, <1>2 DEF Opens, Took
<1>4. Numbered
  BY DEF Descriptors
<1>5. fd \in open_fds /\ ~OtherOpens(p, fd) /\ \A g : OtherOpens(p, g) => g \in open_fds
  BY <1>3, <1>4, Others
<1>6. Numbered'
  <2>1. open_fds' \subseteq Fd
    BY <1>1, <1>4 DEF Numbered
  <2>2. \A g : OtherOpens(p, g) => g \in open_fds'
    BY <1>1, <1>5
  <2>3. QED
    BY <1>1, <1>2, <1>3, <1>4, <2>1, <2>2, NumberedOn
<1>7. \A g : g \in Opening' <=> g \in Opening /\ g # fd
  <2>1. \A g : g \in Opening' <=> OtherOpens(p, g)
    BY <1>1, <1>2, <1>3, OthersStay
  <2>2. \A g : g \in Opening <=> g = fd \/ OtherOpens(p, g)
    BY <1>3, Others
  <2>3. QED
    BY <1>5, <2>1, <2>2
<1>8. fd \in Opening
  BY <1>3, Others
<1>9. Returned' = Returned
  BY <1>1, <1>7, <1>8 DEF Returned
<1>10. \A g, s : Uses(g, s)' <=> Uses(g, s)
  BY <1>1, <1>2, <1>3, <1>9, Others, OthersStay
<1>11. Slotted'
  BY <1>1, <1>10, SlotsStay
<1>12. QED
  BY <1>1, <1>6, <1>11 DEF Descriptors

\* Who opens without a slot finds one.
LEMMA FindsSlot ==
  ASSUME Descriptors, NEW p \in Proc, Opens(loc[p]), ~Took(loc[p])
  PROVE  /\ loc[p].fd \in Fd /\ loc[p].fd \in open_fds /\ loc[p].fd \in Opening
         /\ ~OtherOpens(p, loc[p].fd)
         /\ \A s : ~Uses(loc[p].fd, s)
         /\ get_free_file \in Slot /\ file_table[get_free_file].count = 0
<1> DEFINE fd == loc[p].fd
<1>1. fd \in Fd /\ fd \in open_fds /\ fd \in Opening /\ ~OtherOpens(p, fd)
  BY Others DEF Descriptors
<1>2. fd \notin Returned
  BY <1>1 DEF Returned
<1>3. \A s : ~Uses(fd, s)
  BY <1>1, <1>2, Others
<1>4. QED
  BY <1>1, <1>3, FreeSlot

\* open() finds the file: a slot is taken and the descriptor returned.
LEMMA OpenedDescriptors ==
  ASSUME Descriptors, NEW e, Seen(e), NEW p \in Proc, filp_openat(p) PROVE Descriptors'
<1> DEFINE fd == loc[p].fd
<1>1. PICK n : n = get_free_file
  OBVIOUS
<1>2. PICK d : d = loc[p].child
  OBVIOUS
<1>3. /\ UNCHANGED << open_fds, dentries >> /\ fd_array' = [fd_array EXCEPT ![fd] = n]
      /\ file_table' = [file_table EXCEPT ![n] = [count |-> 1, pos |-> 0, f_dentry |-> d]]
      /\ loc' = [loc EXCEPT ![p] = << >>] /\ At(p, "walk") /\ loc[p].call = "open" /\ d # 0
  BY <1>1, <1>2 DEF filp_openat, Opened, Return, Local, Parsed, Runs, dirs
<1>4. Walks(e, loc[p])
  BY <1>3, Known DEF At, Looking
<1>5. "f" \notin DOMAIN loc[p] /\ loc[p] # << >> /\ DOMAIN loc = Proc
  BY <1>3, <1>4, InACall DEF At, Walks
<1>6. d \in DOMAIN dentries /\ d \in Nat
  <2>1. d \in DOMAIN dentries
    BY <1>2, <1>3, <1>4, Same DEF Walks
  <2>2. dentries \in Seq(Range(dentries))
    BY Same DEF Owners, Entered
  <2>3. QED
    BY <2>1, <2>2
<1>7. Opens(loc[p]) /\ ~Took(loc[p]) /\ ~Opens(<< >>) /\ ~Took(<< >>)
  BY <1>3, <1>5 DEF Opens, Took
<1>8. /\ fd \in Fd /\ fd \in open_fds /\ fd \in Opening /\ ~OtherOpens(p, fd)
      /\ \A s : ~Uses(fd, s)
      /\ n \in Slot /\ file_table[n].count = 0
  BY <1>1, <1>7, FindsSlot
<1>9. Numbered /\ DOMAIN fd_array = Fd
  BY DEF Descriptors
<1>10. Numbered'
  BY <1>3, <1>5, <1>7, <1>9, Others, NumberedOn DEF Numbered
<1>11. \A g : g \in Opening' <=> g \in Opening /\ g # fd
  <2>1. \A g : g \in Opening' <=> OtherOpens(p, g)
    BY <1>3, <1>5, <1>7, OthersStay
  <2>2. \A g : g \in Opening <=> g = fd \/ OtherOpens(p, g)
    BY <1>7, Others
  <2>3. QED
    BY <1>8, <2>1, <2>2
<1>12. \A g : g \in Returned' <=> g \in Returned \/ g = fd
  BY <1>3, <1>8, <1>11 DEF Returned
<1>13. fd \notin Returned /\ \A g \in Returned : g \in Fd
  BY <1>8, <1>9 DEF Returned, Numbered
<1>14. fd_array'[fd] = n /\ \A g \in Returned : fd_array'[g] = fd_array[g]
  BY <1>3, <1>8, <1>9, <1>13
<1>15. \A g, s : Uses(g, s)' <=> Uses(g, s) \/ (g = fd /\ s = n)
  BY <1>3, <1>5, <1>7, <1>12, <1>14, Others, OthersStay
<1>16. Slotted' /\ file_table' \in [Slot -> OpenFile]
  BY <1>3, <1>6, <1>8, <1>15, SlotTaken
<1>17. QED
  BY <1>3, <1>9, <1>10, <1>16 DEF Descriptors

\* open() has created the file: a slot is taken,
LEMMA CreatedDescriptors ==
  ASSUME Descriptors, NEW e, Seen(e), NEW p \in Proc, file_create(p) PROVE Descriptors'
<1> DEFINE fd == loc[p].fd
           d == Len(dentries) + 1
<1>1. PICK n : n = get_free_file
  OBVIOUS
<1>2. PICK i : i = [inode |-> loc[p].inode, copy |-> OnDisk(loc[p].inode), ret |-> "ibsync"]
  OBVIOUS
<1> DEFINE r == [call |-> "open", fd |-> fd, f |-> n, written |-> TRUE]
           L == i ++ r
<1>3. /\ UNCHANGED << open_fds, fd_array >>
      /\ file_table' = [file_table EXCEPT ![n] = [count |-> 1, pos |-> 0, f_dentry |-> d]]
      /\ loc' = [loc EXCEPT ![p] = L] /\ At(p, "dirw_end") /\ loc[p].call = "open"
  BY <1>1, <1>2 DEF file_create, Opened, dir_written, inode_sync, Local, Runs
<1>4. /\ L # << >> /\ L.call = "open" /\ {"fd", "f"} \subseteq DOMAIN L
      /\ L.fd = fd /\ L.f = n
  <2>1. /\ DOMAIN r = {"call", "fd", "f", "written"} /\ r.call = "open" /\ r.fd = fd /\ r.f = n
    OBVIOUS
  <2>2. DOMAIN i = {"inode", "copy", "ret"}
    BY <1>2
  <2> HIDE DEF r, fd
  <2>3. L.call = "open" /\ {"fd", "f"} \subseteq DOMAIN L /\ L.fd = fd /\ L.f = n
    BY <2>1, <2>2 DEF ++
  <2> HIDE DEF L
  <2>4. QED
    BY <2>3
<1>5. Creates(e, loc[p])
  BY <1>3, Known DEF At, Creating
<1>6. "f" \notin DOMAIN loc[p] /\ loc[p] # << >> /\ DOMAIN loc = Proc
  BY <1>3, <1>5, InACall DEF At, Creates
<1>7. d \in DOMAIN dentries' /\ d \in Nat /\ DOMAIN dentries \subseteq DOMAIN dentries'
  <2>1. dentries \in Seq(Range(dentries))
    BY Same DEF Owners, Entered
  <2>2. dentries' = Append(dentries, Dentry(loc[p].parent, loc[p].name, loc[p].inode))
    BY DEF file_create, dir_written
  <2>3. QED
    BY <2>1, <2>2, Appended
<1> HIDE DEF L, d
<1>8. Opens(loc[p]) /\ ~Took(loc[p]) /\ Opens(L) /\ Took(L)
  BY <1>3, <1>4, <1>6 DEF Opens, Took
<1>9. /\ fd \in Fd /\ fd \in open_fds /\ fd \in Opening /\ ~OtherOpens(p, fd)
      /\ \A s : ~Uses(fd, s)
      /\ n \in Slot /\ file_table[n].count = 0
  BY <1>1, <1>8, FindsSlot
<1>10. Numbered
  BY DEF Descriptors
<1>11. Numbered'
  <2>1. open_fds' \subseteq Fd /\ \A g : OtherOpens(p, g) => g \in open_fds'
    BY <1>3, <1>10, Others DEF Numbered
  <2>2. QED
    BY <1>3, <1>4, <1>6, <1>9, <1>10, <2>1, NumberedOn
<1>12. \A g : g \in Opening' <=> g \in Opening
  BY <1>3, <1>4, <1>6, <1>8, Others, OthersStay
<1>13. Returned' = Returned
  BY <1>3, <1>12 DEF Returned
<1>14. \A g, s : Uses(g, s)' <=> Uses(g, s) \/ (g = fd /\ s = n)
  <2>1. \A g, s : Uses(g, s)' <=> \/ g \in Returned /\ fd_array[g] = s
                                  \/ fd = g /\ n = s
                                  \/ OtherUses(p, g, s)
    BY <1>3, <1>4, <1>6, <1>8, <1>13, OthersStay
  <2>2. \A g, s : Uses(g, s) <=> (g \in Returned /\ fd_array[g] = s) \/ OtherUses(p, g, s)
    BY <1>8, Others
  <2>3. QED
    BY <2>1, <2>2
<1>15. Slotted' /\ file_table' \in [Slot -> OpenFile]
  BY <1>3, <1>7, <1>9, <1>14, SlotTaken
<1>16. QED
  BY <1>3, <1>11, <1>15 DEF Descriptors

\* and the descriptor returned later.
LEMMA InstallDescriptors ==
  ASSUME Descriptors, NEW e, Seen(e), NEW p \in Proc, install_fd(p) PROVE Descriptors'
<1> DEFINE fd == loc[p].fd
           n == loc[p].f
<1>1. /\ UNCHANGED << open_fds, file_table, dentries >> /\ fd_array' = [fd_array EXCEPT ![fd] = n]
      /\ loc' = [loc EXCEPT ![p] = << >>] /\ At(p, "created") /\ loc[p].call = "open"
  BY DEF install_fd, Return, Local, Runs, dirs
<1>2. {"fd", "f"} \subseteq DOMAIN loc[p] /\ loc[p] # << >> /\ DOMAIN loc = Proc
  BY <1>1, Known, InACall DEF At, Syncing, Syncs, File_in
<1>3. Opens(loc[p]) /\ Took(loc[p]) /\ ~Opens(<< >>) /\ ~Took(<< >>)
  BY <1>1, <1>2 DEF Opens, Took
<1>4. Numbered /\ DOMAIN fd_array = Fd
  BY DEF Descriptors
<1>5. fd \in Fd /\ fd \in open_fds /\ fd \in Opening /\ ~OtherOpens(p, fd)
  BY <1>3, <1>4, Others
<1>6. Numbered'
  <2>1. open_fds' \subseteq Fd /\ \A g : OtherOpens(p, g) => g \in open_fds'
    BY <1>1, <1>4, Others DEF Numbered
  <2>2. QED
    BY <1>1, <1>2, <1>3, <1>4, <2>1, NumberedOn
<1>7. \A g : g \in Opening' <=> g \in Opening /\ g # fd
  <2>1. \A g : g \in Opening' <=> OtherOpens(p, g)
    BY <1>1, <1>2, <1>3, OthersStay
  <2>2. \A g : g \in Opening <=> g = fd \/ OtherOpens(p, g)
    BY <1>3, Others
  <2>3. QED
    BY <1>5, <2>1, <2>2
<1>8. \A g : g \in Returned' <=> g \in Returned \/ g = fd
  BY <1>1, <1>5, <1>7 DEF Returned
<1>9. fd \notin Returned /\ \A g \in Returned : g \in Fd
  BY <1>4, <1>5 DEF Returned, Numbered
<1>10. fd_array'[fd] = n /\ \A g \in Returned : fd_array'[g] = fd_array[g]
  BY <1>1, <1>4, <1>5, <1>9
<1>11. \A g, s : Uses(g, s)' <=> Uses(g, s)
  <2>1. \A g, s : Uses(g, s)' <=> (g \in Returned' /\ fd_array'[g] = s) \/ OtherUses(p, g, s)
    BY <1>1, <1>2, <1>3, OthersStay
  <2>2. \A g, s : Uses(g, s) <=> \/ g \in Returned /\ fd_array[g] = s
                                 \/ fd = g /\ n = s
                                 \/ OtherUses(p, g, s)
    BY <1>3, Others
  <2>3. QED
    BY <1>8, <1>9, <1>10, <2>1, <2>2
<1>12. Slotted'
  BY <1>1, <1>11, SlotsStay
<1>13. QED
  BY <1>1, <1>4, <1>6, <1>12 DEF Descriptors

\* close() gives the slot and the descriptor up.
LEMMA CloseDescriptors ==
  ASSUME Descriptors, NEW e, Seen(e), NEW p \in Proc, NEW fd, close(p, fd) PROVE Descriptors'
<1> DEFINE n == fd_array[fd]
<1>1. UNCHANGED << loc, fd_array >> /\ fd \in Returned
  BY DEF close, Panic, control
<1>2. CASE UNCHANGED << dentries, open_fds, file_table >>
  <2>1. \A s \in Slot : /\ file_table'[s].count = file_table[s].count
                        /\ file_table'[s].f_dentry = file_table[s].f_dentry
    BY <1>2
  <2>2. file_table' \in [Slot -> OpenFile] /\ DOMAIN dentries \subseteq DOMAIN dentries'
    BY <1>2 DEF Descriptors
  <2>3. QED
    BY <1>1, <1>2, <2>1, <2>2, NoneKept, DescriptorsKept
<1>3. CASE /\ file_table' = [file_table EXCEPT ![n] = NoFile]
           /\ open_fds' = open_fds \ {fd}
           /\ DOMAIN dentries' = DOMAIN dentries
  <2>1. Numbered /\ fd \in Fd /\ Uses(fd, n)
    BY <1>1 DEF Descriptors, Numbered, Returned, Uses
  <2>2. n \in Slot
    BY <2>1 DEF Descriptors, Slotted
  <2>3. Opening' = Opening /\ fd \notin Opening
    BY <1>1 DEF Opening, Returned
  <2>4. \A g : g \in Returned' <=> g \in Returned /\ g # fd
    BY <1>3, <2>3 DEF Returned
  <2>5. \A q \in Proc : Opens(loc[q]) => loc[q].fd \in Opening
    BY DEF Opens, Opening
  <2>6. Numbered'
    BY <1>1, <1>3, <2>1, <2>3, <2>5 DEF Numbered, Opens
  <2>7. \A g, s : Uses(g, s)' <=> Uses(g, s) /\ g # fd
    <3>1. \A g, s : Uses(g, s)' <=> \/ g \in Returned' /\ fd_array[g] = s
                                    \/ \E q \in Proc : Took(loc[q]) /\ loc[q].fd = g /\ loc[q].f = s
      BY <1>1 DEF Uses, Took, Opens
    <3>2. \A q \in Proc : Took(loc[q]) => loc[q].fd # fd
      BY <2>3, <2>5 DEF Took
    <3>3. QED
      BY <2>4, <3>1, <3>2 DEF Uses
  <2>8. Slotted' /\ file_table' \in [Slot -> OpenFile]
    BY <1>3, <2>1, <2>2, <2>7, SlotGivenUp
  <2>9. QED
    BY <1>1, <2>6, <2>8 DEF Descriptors
<1>4. QED
  BY <1>2, <1>3 DEF close

\* A call that opens nothing returns, and moves a position.
LEMMA MovedDescriptors ==
  ASSUME Descriptors, NEW e, Seen(e), NEW p \in Proc, loc[p].end \in Nat, loc[p].call # "open",
         UNCHANGED << open_fds, fd_array, dentries >>, Return(p),
         file_table' = [file_table EXCEPT ![loc[p].f].pos = loc[p].end]
  PROVE  Descriptors'
<1> DEFINE n == loc[p].f
           end == loc[p].end
<1>1. end \in Nat /\ loc[p].call # "open"
  OBVIOUS
<1>2. /\ UNCHANGED << open_fds, fd_array, dentries >> /\ Return(p)
      /\ file_table' = [file_table EXCEPT ![n].pos = end]
  OBVIOUS
<1>3. file_table \in [Slot -> OpenFile]
  BY DEF Descriptors
<1>4. \A s \in Slot : file_table'[s] = IF s = n THEN [file_table[s] EXCEPT !.pos = end] ELSE file_table[s]
  BY <1>2, <1>3
<1>5. file_table' \in [Slot -> OpenFile]
  <2>1. \A s \in Slot : [file_table[s] EXCEPT !.pos = end] \in OpenFile
    BY <1>1, <1>3 DEF OpenFile
  <2>2. DOMAIN file_table' = Slot
    BY <1>2, <1>3
  <2>3. \A s \in Slot : file_table'[s] \in OpenFile
    BY <1>3, <1>4, <2>1
  <2>4. file_table' = [s \in DOMAIN file_table' |-> file_table'[s]]
    BY <1>2, <1>3
  <2>5. QED
    BY <2>2, <2>3, <2>4
<1>6. \A s \in Slot : /\ file_table'[s].count = file_table[s].count
                      /\ file_table'[s].f_dentry = file_table[s].f_dentry
  <2>1. \A s \in Slot : /\ [file_table[s] EXCEPT !.pos = end].count = file_table[s].count
                        /\ [file_table[s] EXCEPT !.pos = end].f_dentry = file_table[s].f_dentry
    BY <1>3 DEF OpenFile
  <2>2. QED
    BY <1>4, <2>1
<1>7. Kept
  BY <1>1, <1>2, ReturnKept
<1>8. DOMAIN dentries \subseteq DOMAIN dentries'
  BY <1>2
<1>9. QED
  BY <1>2, <1>5, <1>6, <1>7, <1>8, DescriptorsKept
-----------------------------------------------------------------------------
\* A step keeps the descriptors.
LEMMA FilesKept ==
  ASSUME Descriptors, Kept, UNCHANGED files, DOMAIN dentries \subseteq DOMAIN dentries'
  PROVE  Descriptors'
<1>1. UNCHANGED << open_fds, fd_array, file_table >>
  BY DEF files
<1>2. file_table' \in [Slot -> OpenFile]
  BY <1>1 DEF Descriptors
<1>3. \A s \in Slot : /\ file_table'[s].count = file_table[s].count
                      /\ file_table'[s].f_dentry = file_table[s].f_dentry
  BY <1>1
<1>4. QED
  BY <1>1, <1>2, <1>3, DescriptorsKept

\* The end of a read or a write, or a read that ends too soon.
LEMMA EndDescriptors ==
  ASSUME Descriptors, NEW e, Seen(e), NEW p \in Proc, write_done(p) \/ read_end(p) PROVE Descriptors'
<1>1. loc[p].end \in Nat /\ loc[p].call # "open"
  <2>1. CASE write_done(p)
    BY <2>1, Known DEF write_done, Runs, At, Syncing, Syncs, Call_in
  <2>2. CASE read_end(p)
    BY <2>2, Known DEF read_end, Runs, At, Reading, Reads, Call_in
  <2>3. QED
    BY <2>1, <2>2
<1>2. UNCHANGED << open_fds, fd_array, dirs >>
  BY DEF write_done, read_end
<1>3. CASE UNCHANGED << loc, file_table >>
  <2>1. UNCHANGED files /\ DOMAIN dentries \subseteq DOMAIN dentries'
    BY <1>2, <1>3 DEF files, dirs
  <2>2. QED
    BY <1>3, <2>1, NoneKept, FilesKept
<1>4. CASE Return(p) /\ file_table' = [file_table EXCEPT ![loc[p].f].pos = loc[p].end]
  <2>1. UNCHANGED << open_fds, fd_array, dentries >>
    BY <1>2 DEF dirs
  <2>2. QED
    BY <1>1, <1>4, <2>1, MovedDescriptors
<1>5. QED
  BY <1>3, <1>4 DEF write_done, read_end, Panic

\* So every step but a reset keeps the descriptors.
LEMMA DescriptorsStep == ASSUME Descriptors, OwnInv, Next, ~Reset PROVE Descriptors'
<1>1. PICK who \in [Block -> Ino], tabs \in SUBSET Block : Owners(View(who, tabs))
  BY DEF OwnInv
<1>2. PICK e : e = View(who, tabs)
  OBVIOUS
<1>3. Seen(e)
  BY <1>1, <1>2 DEF Seen
<1>4. PICK p \in Proc : \/ InodeStep(p) /\ UNCHANGED << dirs, files, reset >>
                        \/ DirectoryStep(p) /\ UNCHANGED << files, reset >>
                        \/ FileStep(p) /\ UNCHANGED reset
                        \/ Lookup(p) /\ UNCHANGED << files, reset >>
                        \/ Misread(p)
  BY DEF Next
<1>5. Lookup(p) => DirectoryStep(p)
  BY DEF Lookup, DirectoryStep
<1>10. CASE Misread(p)
  BY <1>10, NoneKept, FilesKept DEF Misread, control, dirs
<1>6. CASE InodeStep(p) /\ UNCHANGED << dirs, files >>
  BY <1>3, <1>6, InodeKept, FilesKept DEF dirs
<1>7. CASE DirectoryStep(p) /\ UNCHANGED files
  BY <1>3, <1>7, DirectoryKept, EntriesStay, FilesKept
<1>8. CASE FileStep(p)
  <2>1. \/ PlainFileStep(p)
        \/ \E path \in OpenPaths, creat \in Creat : open(p, path, creat)
        \/ filp_openat_none(p) \/ filp_openat(p) \/ file_create(p) \/ install_fd(p)
        \/ \E fd \in Fd : close(p, fd)
        \/ write_done(p) \/ read_end(p)
    BY <1>8 DEF FileStep, PlainFileStep
  <2>2. CASE PlainFileStep(p)
    BY <1>3, <2>2, FileKept, FilesKept DEF dirs
  <2>3. QED
    BY <1>3, <2>1, <2>2, OpenDescriptors, NoneDescriptors, OpenedDescriptors, CreatedDescriptors,
       InstallDescriptors, CloseDescriptors, EndDescriptors
<1>9. QED
  BY <1>4, <1>5, <1>6, <1>7, <1>8, <1>10

\* Nothing is open at first, and after a reset.
NothingOpened ==
  /\ open_fds = {} /\ DOMAIN fd_array = Fd /\ file_table = [s \in Slot |-> NoFile]
  /\ loc = [p \in Proc |-> << >>]

\* Then no descriptor is in use and no slot.
LEMMA NothingOpen == NothingOpened => Descriptors
<1> SUFFICES ASSUME NothingOpened PROVE Descriptors
  OBVIOUS
<1>1. \A p \in Proc : ~Opens(loc[p]) /\ ~Took(loc[p])
  BY DEF NothingOpened, Opens, Took
<1>2. \A g, s : ~Uses(g, s)
  BY <1>1 DEF NothingOpened, Uses, Returned
<1>3. file_table \in [Slot -> OpenFile] /\ \A s \in Slot : file_table[s].count = 0
  BY DEF NothingOpened, NoFile, OpenFile
<1>4. Numbered /\ Slotted
  BY <1>1, <1>2, <1>3 DEF NothingOpened, Numbered, Slotted
<1>5. QED
  BY <1>3, <1>4 DEF NothingOpened, Descriptors

\* A reset closes everything.
LEMMA DescriptorsReset == Reset => Descriptors'
<1>1. Reset => NothingOpened'
  BY DEF Reset, NothingOpened
<1>2. QED
  BY <1>1, NothingOpen, PTL

-----------------------------------------------------------------------------
\* Every reachable state has owners for its blocks and slots for its descriptors.
THEOREM Invariant == Spec => []IInv
<1>1. Init => IInv
  <2>1. Init => Descriptors
    BY NothingOpen DEF Init, NothingOpened
  <2>2. QED
    BY <2>1, OwnersInit DEF IInv
<1>2. IInv /\ [Next]_vars => IInv'
  <2> SUFFICES ASSUME Descriptors, OwnInv, [Next]_vars PROVE Descriptors' /\ OwnInv'
    BY DEF IInv
  <2>1. CASE Reset
    BY <2>1, DescriptorsReset, OwnersReset
  <2>2. CASE Next /\ ~Reset
    BY <2>2, DescriptorsStep, OwnersStep
  <2>3. CASE UNCHANGED vars
    <3>1. UNCHANGED << disk, memory, pc, loc, dirs, files >>
      BY <2>3 DEF vars, control
    <3>2. DOMAIN dentries \subseteq DOMAIN dentries'
      BY <3>1 DEF dirs
    <3>3. PICK e : Seen(e)
      BY SomeSeen
    <3>4. Grown(e)
      BY <3>1, <3>3, NoStep
    <3>5. QED
      BY <3>1, <3>2, <3>4, NoneKept, FilesKept, SeenNext DEF Grown
  <2>4. QED
    BY <2>1, <2>2, <2>3
<1>3. QED
  BY <1>1, <1>2, PTL DEF Spec

\* So however calls overlap, and whenever the machine is reset, no block is of two inodes
\* and none that an inode points to is free (fs/inode.c:153), until the garbage of an
\* unwritten block is taken for pointers (fs/file.c:108).
THEOREM OwnedOnceAlways == Spec => []BlocksOwnedOnce
<1>1. IInv => BlocksOwnedOnce
  BY OwnedOnce DEF IInv
<1>2. QED
  BY <1>1, Invariant, PTL

-----------------------------------------------------------------------------
\* What clients must keep to, and the kernel does not check: they write to no
\* directory, and no path leads through a file.
KindsRespected ==
  torn \/ \A p \in Proc :
    /\ "call" \in DOMAIN loc[p] /\ loc[p].call = "write" => ~open_inodes[loc[p].inode].dir
    /\ pc[p] = "search" => DirInode(loc[p].parent).dir

\* What is known of inodes, g: used and ibits are the bitmaps; an inode is a directory or
\* not, dir, and was created under a name, named; kept are those whose bit or entry is
\* on the disk, and old are those that were on the disk when the machine started.
\*
\* The entries in what a block holds, and that they are of directory k: each names an inode
\* that is kept, or no, by the name it was created under.
EntriesIn(c) ==
  IF c = Dirty THEN {}
  ELSE { x \in { c[j] : j \in DOMAIN EmptyDir } \ {NULL} : x.name \notin {".", ".."} }
SaysBut(g, c, k, no) ==
  /\ DOMAIN c = DOMAIN EmptyDir
  /\ \A x \in EntriesIn(c) :
       x.no \in g.kept \cup {no} /\ g.named[x.no] = [dir |-> k, name |-> x.name]
Says(g, c, k) ==
  /\ DOMAIN c = DOMAIN EmptyDir
  /\ \A x \in EntriesIn(c) : x.no \in g.kept /\ g.named[x.no] = [dir |-> k, name |-> x.name]

\* A directory has no index block.
Plain(i) == i.dir => i.sectors[NDIRECT] = 0

Bits(g) ==
  /\ g.used = inode_bitmap /\ g.ibits = disk.ibits
  /\ 0 \in g.ibits /\ g.ibits \subseteq g.kept /\ g.kept \subseteq g.used /\ g.old \subseteq g.used
  /\ g.dir \in [Ino -> BOOLEAN]
MemoryTold(g, m) ==
  /\ \A i \in DOMAIN m : m[i].no \in g.used /\ m[i].dir = g.dir[m[i].no] /\ Plain(m[i])
  /\ \A k \in g.used \ g.old : \E i \in DOMAIN m : m[i].no = k
TableTold(g, t) ==
  \A k \in Ino : /\ t[k].dir => g.dir[k] /\ k \in g.kept /\ t[k].sectors[NDIRECT] = 0
                 /\ k \in g.old => t[k].dir = g.dir[k]
EntriesTold(e, g) == \A d \in DOMAIN e.inode : e.no[e.inode[d]] \in g.kept
BlocksTold(e, g, c) ==
  \A b \in Block : c[b] # Dirty =>
    e.who[b] \in g.kept /\ (g.dir[e.who[b]] => Says(g, c[b], e.who[b]))

-----------------------------------------------------------------------------
\* A process that creates: the inode, and the directory it is put in.  It has yet to write
\* the entry, or has done so.
Own(e, L) == e.no[L.inode]
Home(e, L) == e.no[e.inode[L.parent]]
Written(L) == "written" \in DOMAIN L
Naming(l, L) ==
  \/ l \in {"dirw", "dirw_zero", "dirw_read", "dirw_write"}
  \/ l \in {"alloc", "bsync"} /\ L.ret = "dirw_zero"
Wrote(l, L) ==
  \/ l \in {"dot", "dot_write", "dirw_end", "ibsync", "ibsync_write", "created"}
  \/ l \in {"alloc", "bsync"} /\ L.ret = "dot"

\* It writes to a block of inode k, if to any.
OfInode(e, L, k) == L.lba \in e.synced /\ e.who[L.lba] = k

Before(e, g, l, L) ==
  Naming(l, L) =>
    /\ "name" \in DOMAIN L /\ g.named[Own(e, L)] = [dir |-> Home(e, L), name |-> L.name]
    /\ l = "dirw_read" => OfInode(e, L, Home(e, L))
    /\ l = "dirw_write" => L.lba = 0 \/ OfInode(e, L, Home(e, L))
    /\ l = "dirw_write" /\ g.dir[Home(e, L)] => SaysBut(g, L.buf, Home(e, L), Own(e, L))
After(e, g, l, L) ==
  /\ Wrote(l, L) => Written(L)
  /\ Written(L) => /\ Wrote(l, L) \/ l \in {"isync_read", "isync_write"}
                   /\ Call_in(L, {"open", "mkdir"}) /\ Inode_in(e, L) /\ Own(e, L) \in g.kept
  /\ l = "created" => Own(e, L) \in g.ibits
  /\ l = "dot_write" =>
       OfInode(e, L, Own(e, L)) /\ DOMAIN L.buf = DOMAIN EmptyDir /\ EntriesIn(L.buf) = {}
Searches(e, g, l, L) ==
  /\ l = "search" => /\ {"name", "idx"} \subseteq DOMAIN L /\ L.idx \in Nat
                     /\ L.name \notin {".", ".."} /\ OfInode(e, L, Home(e, L))
  /\ l = "iget" => L.no \in g.old \cap g.kept
Restores(e, g, l, L) ==
  l \in {"isync_read", "isync_write"} =>
    /\ Own(e, L) \in g.kept /\ L.copy.dir = g.dir[Own(e, L)] /\ Plain(L.copy)
    /\ L.ret = "ibsync" => Written(L)
    /\ l = "isync_write" => TableTold(g, L.buf)
Fills(e, g, l, L) ==
  /\ "call" \in DOMAIN L /\ L.call = "write" /\ l # "fw_done" => Own(e, L) \in g.kept
  /\ l = "fw_write" => L.lba = 0 \/ OfInode(e, L, Own(e, L))
Marks(e, g, l, L) ==
  Before(e, g, l, L) /\ After(e, g, l, L) /\ Searches(e, g, l, L) /\ Restores(e, g, l, L)
  /\ Fills(e, g, l, L)

\* An entry on the disk whose inode's bit is not there is of a call under way.
Underway(e, g) ==
  \A k \in g.kept \ disk.ibits : \E p \in Proc : Written(loc[p]) /\ Own(e, loc[p]) = k

Knows(e, g) ==
  /\ Bits(g) /\ MemoryTold(g, open_inodes) /\ TableTold(g, disk.itable)
  /\ EntriesTold(e, g) /\ BlocksTold(e, g, disk.block)
  /\ Underway(e, g)
  /\ \A p \in Proc : Marks(e, g, pc[p], loc[p])
NamesInv == \E e, g : Seen(e) /\ Knows(e, g)

-----------------------------------------------------------------------------
\* What is known after a step, for sure.
Learns(g, h) ==
  /\ g.used \subseteq h.used /\ g.used \subseteq Ino /\ g.ibits \subseteq h.ibits
  /\ g.kept \subseteq h.kept /\ g.kept \subseteq g.used
  /\ h.old = g.old /\ g.old \subseteq g.used
  /\ \A k \in g.used : h.dir[k] = g.dir[k] /\ h.named[k] = g.named[k]

\* What a block or the table says still holds when more is known.
LEMMA LearnsSays ==
  ASSUME NEW g, NEW h, Learns(g, h)
  PROVE  /\ \A c, k : Says(g, c, k) => Says(h, c, k)
         /\ \A c, k : \A no \in g.used : SaysBut(g, c, k, no) => SaysBut(h, c, k, no)
         /\ \A t : TableTold(g, t) => TableTold(h, t)
<1>1. \A c, k : Says(g, c, k) => Says(h, c, k)
  BY DEF Learns, Says
<1>2. \A c, k : \A no \in g.used : SaysBut(g, c, k, no) => SaysBut(h, c, k, no)
  BY DEF Learns, SaysBut
<1>3. \A t : TableTold(g, t) => TableTold(h, t)
  BY DEF Learns, TableTold
<1>4. QED
  BY <1>1, <1>2, <1>3

\* Where a process has an inode and a parent.
LEMMA HasInode ==
  ASSUME NEW e, NEW l, NEW L, LocalsOK(e, l, L)
  PROVE  /\ Naming(l, L) => Creates(e, L)
         /\ l \in {"dot", "dot_write", "dirw_end"} => Creates(e, L)
         /\ l \in {"isync_read", "isync_write"} => Syncs(e, L)
         /\ l \in {"search", "iget", "walk"} => Walks(e, L)
         /\ "call" \in DOMAIN L /\ L.call = "write" /\ l # "fw_done" => Inode_in(e, L)
<1>1. Naming(l, L) => Creates(e, L)
  <2>1. CASE l \in {"dirw", "dirw_read", "dirw_write"}
    BY <2>1, LocalsAt DEF Creating
  <2>2. CASE l \in {"alloc", "bsync"} /\ L.ret = "dirw_zero"
    BY <2>2, LocalsAt DEF Allocating, Awaits
  <2>3. CASE l = "dirw_zero"
    BY <2>3, LocalsAt DEF Allocating, Awaits
  <2>4. QED
    BY <2>1, <2>2, <2>3 DEF Naming
<1>2. l \in {"dot", "dot_write", "dirw_end"} => Creates(e, L)
  BY LocalsAt DEF Allocating, Awaits, Creating
<1>3. l \in {"isync_read", "isync_write"} => Syncs(e, L)
  BY LocalsAt DEF Syncing
<1>4. l \in {"search", "iget", "walk"} => Walks(e, L)
  BY LocalsAt DEF Looking
<1>5. ASSUME "call" \in DOMAIN L, L.call = "write", l # "fw_done" PROVE Inode_in(e, L)
  <2>1. \A r : Awaits(e, r, L) => Inode_in(e, L)
    BY DEF Awaits, Creates, Writes, WritesBlock
  <2>2. Allocating(e, l, L) \/ Writing(e, l, L) \/ WritingTable(e, l, L) \/ Syncing(e, l, L)
    BY <1>5 DEF LocalsOK, LocalsOf, Looking, Walks, Creating, Creates, Reading, Reads, Call_in
  <2>3. QED
    BY <1>5, <2>1, <2>2 DEF Allocating, Writing, WritingTable, Writes, WritesBlock, Syncing, Syncs, Call_in
<1>6. QED
  BY <1>1, <1>2, <1>3, <1>4, <1>5

\* What a process knows, it still knows when others have gone on.
LEMMA MarksOn ==
  ASSUME NEW e, NEW f, Grows(e, f), NEW g, NEW h, Learns(g, h),
         \A i \in DOMAIN e.no : e.no[i] \in g.used,
         NEW l, NEW L, LocalsOK(e, l, L), Marks(e, g, l, L)
  PROVE  Marks(f, h, l, L)
<1>1. Inode_in(e, L) => Inode_in(f, L) /\ Own(f, L) = Own(e, L) /\ Own(e, L) \in g.used
  BY DEF Grows, Inode_in, Own
<1>2. Creates(e, L) \/ Walks(e, L) => Home(f, L) = Home(e, L) /\ Home(e, L) \in g.used
  BY DEF Grows, Creates, Walks, Home
<1>3. Creates(e, L) \/ Syncs(e, L) => Inode_in(e, L)
  BY DEF Creates, Syncs
<1>4. \A k : OfInode(e, L, k) => OfInode(f, L, k)
  BY DEF Grows, OfInode
<1>5. Before(f, h, l, L)
  <2> SUFFICES ASSUME Naming(l, L)
               PROVE  /\ "name" \in DOMAIN L /\ h.named[Own(f, L)] = [dir |-> Home(f, L), name |-> L.name]
                      /\ l = "dirw_read" => OfInode(f, L, Home(f, L))
                      /\ l = "dirw_write" => L.lba = 0 \/ OfInode(f, L, Home(f, L))
                      /\ l = "dirw_write" /\ h.dir[Home(f, L)] => SaysBut(h, L.buf, Home(f, L), Own(f, L))
    BY DEF Before
  <2>1. /\ Own(f, L) = Own(e, L) /\ Own(e, L) \in g.used
        /\ Home(f, L) = Home(e, L) /\ Home(e, L) \in g.used
    BY <1>1, <1>2, <1>3, HasInode
  <2>2. Before(e, g, l, L)
    BY DEF Marks
  <2>3. h.named[Own(e, L)] = g.named[Own(e, L)] /\ h.dir[Home(e, L)] = g.dir[Home(e, L)]
    BY <2>1 DEF Learns
  <2>4. QED
    BY <1>4, <2>1, <2>2, <2>3, LearnsSays DEF Before
<1>6. After(f, h, l, L)
  <2>1. After(e, g, l, L)
    BY DEF Marks
  <2>2. Written(L) => Own(f, L) \in h.kept
    BY <1>1, <2>1 DEF After, Learns
  <2>3. l = "created" => Own(f, L) \in h.ibits
    BY <1>1, <2>1 DEF After, Learns, Wrote
  <2>4. l = "dot_write" =>
          OfInode(f, L, Own(f, L)) /\ DOMAIN L.buf = DOMAIN EmptyDir /\ EntriesIn(L.buf) = {}
    BY <1>1, <1>4, <2>1 DEF After, Wrote
  <2>5. QED
    BY <1>1, <2>1, <2>2, <2>3, <2>4 DEF After
<1>7. Searches(f, h, l, L)
  <2>1. l = "search" => Home(f, L) = Home(e, L)
    BY <1>2, HasInode
  <2>2. QED
    BY <1>4, <2>1 DEF Marks, Searches, Learns
<1>8. Restores(f, h, l, L)
  <2> SUFFICES ASSUME l \in {"isync_read", "isync_write"}
               PROVE  /\ Own(f, L) \in h.kept /\ L.copy.dir = h.dir[Own(f, L)] /\ Plain(L.copy)
                      /\ L.ret = "ibsync" => Written(L)
                      /\ l = "isync_write" => TableTold(h, L.buf)
    BY DEF Restores
  <2>1. Own(f, L) = Own(e, L) /\ Own(e, L) \in g.used
    BY <1>1, <1>3, HasInode
  <2>2. Restores(e, g, l, L)
    BY DEF Marks
  <2>3. QED
    BY <2>1, <2>2, LearnsSays DEF Restores, Learns
<1>9. Fills(f, h, l, L)
  <2>1. Fills(e, g, l, L)
    BY DEF Marks
  <2>2. "call" \in DOMAIN L /\ L.call = "write" /\ l # "fw_done" => Own(f, L) \in h.kept
    BY <1>1, <2>1, HasInode DEF Fills, Learns
  <2>3. l = "fw_write" => Inode_in(e, L)
    BY LocalsAt DEF Writing, WritesBlock, Writes
  <2>4. l = "fw_write" => L.lba = 0 \/ OfInode(f, L, Own(f, L))
    BY <1>1, <1>4, <2>1, <2>3 DEF Fills
  <2>5. QED
    BY <2>2, <2>4 DEF Fills
<1>10. QED
  BY <1>5, <1>6, <1>7, <1>8, <1>9 DEF Marks

\* A step begins with owners e and what g knows; f are the owners after it.
Goes(e, f, g) == Seen(e) /\ Knows(e, g) /\ Grows(e, f) /\ Seen(f)'

\* What e and f say of the state before the step and after it.
LEMMA Before_After ==
  ASSUME NEW e, NEW f, NEW g, Goes(e, f, g)
  PROVE  /\ e.synced = disk.bbits /\ f.synced = disk'.bbits
         /\ DOMAIN e.no = DOMAIN open_inodes /\ DOMAIN f.no = DOMAIN open_inodes'
         /\ \A i \in DOMAIN open_inodes : e.no[i] = open_inodes[i].no
         /\ \A i \in DOMAIN open_inodes' : f.no[i] = open_inodes'[i].no
         /\ DOMAIN e.inode = DOMAIN dentries /\ DOMAIN f.inode = DOMAIN dentries'
         /\ \A d \in DOMAIN dentries : e.inode[d] = dentries[d].inode
         /\ \A d \in DOMAIN dentries' : f.inode[d] = dentries'[d].inode
         /\ inode_bitmap \subseteq Ino /\ inode_bitmap' \subseteq Ino
         /\ DOMAIN pc = Proc /\ DOMAIN loc = Proc
         /\ \A p \in Proc : LocalsOK(e, pc[p], loc[p]) /\ LocalsOK(f, pc'[p], loc'[p])
         /\ \A p \in Proc : Marks(e, g, pc[p], loc[p])
         /\ OnTheDisk(e, disk) /\ OnTheDisk(f, disk')
         /\ \A i \in DOMAIN open_inodes : SectorsOf(e, e.no[i], open_inodes[i].sectors)
         /\ \A i \in DOMAIN open_inodes' : SectorsOf(f, f.no[i], open_inodes'[i].sectors)
<1>1. PICK who \in [Block -> Ino], tabs \in SUBSET Block : e = View(who, tabs) /\ Owners(e)
  BY DEF Goes, Seen
<1>2. PICK whof \in [Block -> Ino], tabsf \in SUBSET Block : f = View(whof, tabsf)' /\ Owners(f)'
  BY DEF Goes, Seen
<1>3. /\ e.synced = disk.bbits
      /\ e.no = [i \in DOMAIN open_inodes |-> open_inodes[i].no]
      /\ e.inode = [d \in DOMAIN dentries |-> dentries[d].inode]
  BY <1>1 DEF View
<1>4. /\ f.synced = disk'.bbits
      /\ f.no = [i \in DOMAIN open_inodes' |-> open_inodes'[i].no]
      /\ f.inode = [d \in DOMAIN dentries' |-> dentries'[d].inode]
  BY <1>2 DEF View
<1>5. /\ inode_bitmap \subseteq Ino /\ DOMAIN pc = Proc /\ DOMAIN loc = Proc
      /\ \A p \in Proc : LocalsOK(e, pc[p], loc[p])
      /\ OnTheDisk(e, disk) /\ InMemoryOf(e, open_inodes)
  BY <1>1 DEF Owners
<1>6. /\ inode_bitmap' \subseteq Ino
      /\ \A p \in Proc : LocalsOK(f, pc'[p], loc'[p])
      /\ OnTheDisk(f, disk') /\ InMemoryOf(f, open_inodes')
  BY <1>2 DEF Owners
<1>7. \A p \in Proc : Marks(e, g, pc[p], loc[p])
  BY DEF Goes, Knows
<1>8. /\ \A i \in DOMAIN open_inodes : SectorsOf(e, e.no[i], open_inodes[i].sectors)
      /\ \A i \in DOMAIN open_inodes' : SectorsOf(f, f.no[i], open_inodes'[i].sectors)
  BY <1>3, <1>4, <1>5, <1>6 DEF InMemoryOf
<1>9. QED
  BY <1>3, <1>4, <1>5, <1>6, <1>7, <1>8

\* A step of p after which h is known.
LEMMA KnowsStep ==
  ASSUME NEW e, NEW f, NEW g, Goes(e, f, g), NEW h, Learns(g, h), NEW p \in Proc,
         \A q \in Proc \ {p} : pc'[q] = pc[q] /\ loc'[q] = loc[q],
         Bits(h)', MemoryTold(h, open_inodes'), TableTold(h, disk'.itable),
         EntriesTold(f, h), BlocksTold(f, h, disk'.block),
         \A k \in h.kept \ disk'.ibits : k \in g.kept \/ (Written(loc'[p]) /\ Own(f, loc'[p]) = k),
         Written(loc[p]) =>
           Own(e, loc[p]) \in disk'.ibits \/ (Written(loc'[p]) /\ Own(f, loc'[p]) = Own(e, loc[p])),
         Marks(f, h, pc'[p], loc'[p])
  PROVE  NamesInv'
<1>1. Seen(f)' /\ Grows(e, f) /\ Knows(e, g)
  BY DEF Goes
<1>2. \A i \in DOMAIN e.no : e.no[i] \in g.used
  BY <1>1, Before_After DEF Knows, MemoryTold
<1>3. ASSUME NEW q \in Proc PROVE Marks(f, h, pc'[q], loc'[q])
  <2>1. CASE q = p
    BY <2>1
  <2>2. CASE q # p
    <3>1. LocalsOK(e, pc[q], loc[q]) /\ Marks(e, g, pc[q], loc[q])
      BY Before_After
    <3>2. Marks(f, h, pc[q], loc[q])
      BY <1>1, <1>2, <3>1, MarksOn
    <3>3. QED
      BY <2>2, <3>2
  <2>3. QED
    BY <2>1, <2>2
<1>4. ASSUME NEW q \in Proc \ {p}, Written(loc[q])
      PROVE  Written(loc'[q]) /\ Own(f, loc'[q]) = Own(e, loc[q])
  <2>1. Marks(e, g, pc[q], loc[q])
    BY Before_After
  <2>2. Inode_in(e, loc[q])
    BY <1>4, <2>1 DEF Marks, After
  <2>3. QED
    BY <1>1, <1>4, <2>2 DEF Grows, Inode_in, Own
<1>5. Underway(f, h)'
  <2> SUFFICES ASSUME NEW k \in h.kept \ disk'.ibits
               PROVE  \E q \in Proc : Written(loc'[q]) /\ Own(f, loc'[q]) = k
    BY DEF Underway
  <2>1. CASE Written(loc'[p]) /\ Own(f, loc'[p]) = k
    BY <2>1
  <2>2. CASE k \in g.kept
    <3>1. k \notin disk.ibits
      BY <1>1 DEF Knows, Bits, Learns
    <3>2. PICK q \in Proc : Written(loc[q]) /\ Own(e, loc[q]) = k
      BY <1>1, <2>2, <3>1 DEF Knows, Underway
    <3>3. CASE q = p
      BY <3>2, <3>3
    <3>4. CASE q # p
      BY <1>4, <3>2, <3>4
    <3>5. QED
      BY <3>3, <3>4
  <2>3. QED
    BY <2>1, <2>2
<1>6. Knows(f, h)'
  BY <1>3, <1>5 DEF Knows
<1>7. QED
  BY <1>1, <1>6 DEF NamesInv

\* What is known stays so when nothing of it changes.
LEMMA LearnsNone ==
  ASSUME NEW e, NEW f, NEW g, Goes(e, f, g) PROVE Learns(g, g)
BY Before_After DEF Goes, Knows, Bits, Learns

\* Blocks that have not changed say what they said.
LEMMA BlocksOn ==
  ASSUME NEW e, NEW f, NEW g, Goes(e, f, g), NEW h, Learns(g, h), NEW b \in Block,
         disk'.block[b] = disk.block[b], disk'.block[b] # Dirty
  PROVE  f.who[b] = e.who[b] /\ f.who[b] \in h.kept /\ (h.dir[f.who[b]] => Says(h, disk'.block[b], f.who[b]))
<1>1. b \in e.used /\ f.who[b] = e.who[b]
  <2>1. b \in e.synced
    BY Before_After DEF OnTheDisk
  <2>2. QED
    BY <2>1 DEF Goes, Grows
<1>2. e.who[b] \in g.kept /\ (g.dir[e.who[b]] => Says(g, disk.block[b], e.who[b]))
  BY DEF Goes, Knows, BlocksTold
<1>3. h.dir[e.who[b]] = g.dir[e.who[b]] /\ e.who[b] \in h.kept
  BY <1>2 DEF Learns
<1>4. QED
  BY <1>1, <1>2, <1>3, LearnsSays

\* So the blocks do as long as the disk is not written.
LEMMA BlocksStay ==
  ASSUME NEW e, NEW f, NEW g, Goes(e, f, g), NEW h, Learns(g, h), UNCHANGED disk
  PROVE  BlocksTold(f, h, disk'.block)
BY BlocksOn DEF BlocksTold

\* Entries that were there stand for the same inodes.
LEMMA EntriesStand ==
  ASSUME NEW e, NEW f, NEW g, Goes(e, f, g), NEW h, Learns(g, h),
         \A d \in DOMAIN dentries' : d \in DOMAIN dentries \/ f.no[f.inode[d]] \in h.kept
  PROVE  EntriesTold(f, h)
<1> SUFFICES ASSUME NEW d \in DOMAIN f.inode PROVE f.no[f.inode[d]] \in h.kept
  BY DEF EntriesTold
<1>1. CASE d \in DOMAIN e.inode
  <2>1. f.inode[d] = e.inode[d] /\ f.no[f.inode[d]] = e.no[e.inode[d]]
    BY <1>1 DEF Goes, Grows
  <2>2. e.no[e.inode[d]] \in g.kept
    BY <1>1 DEF Goes, Knows, EntriesTold
  <2>3. QED
    BY <2>1, <2>2 DEF Learns
<1>2. QED
  BY <1>1, Before_After

\* The inodes in memory that were there are of the same kind, and directories have no
\* index block.
LEMMA MemoryStays ==
  ASSUME NEW e, NEW f, NEW g, Goes(e, f, g), DOMAIN open_inodes' = DOMAIN open_inodes,
         \A i \in DOMAIN open_inodes :
           /\ open_inodes'[i].no = open_inodes[i].no /\ open_inodes'[i].dir = open_inodes[i].dir
           /\ open_inodes[i].dir => open_inodes'[i].sectors[NDIRECT] = open_inodes[i].sectors[NDIRECT]
  PROVE  MemoryTold(g, open_inodes')
BY DEF Goes, Knows, MemoryTold, Plain

\* A step that changes no bitmap of inodes.
LEMMA QuietStep ==
  ASSUME NEW e, NEW f, NEW g, Goes(e, f, g), NEW p \in Proc,
         \A q \in Proc \ {p} : pc'[q] = pc[q] /\ loc'[q] = loc[q],
         inode_bitmap' = inode_bitmap, disk'.ibits = disk.ibits, TableTold(g, disk'.itable),
         MemoryTold(g, open_inodes'), EntriesTold(f, g), BlocksTold(f, g, disk'.block),
         Written(loc[p]) => Written(loc'[p]) /\ loc'[p].inode = loc[p].inode,
         Marks(f, g, pc'[p], loc'[p])
  PROVE  NamesInv'
<1>1. Knows(e, g) /\ Learns(g, g)
  BY LearnsNone DEF Goes
<1>2. Bits(g)'
  BY <1>1 DEF Knows, Bits
<1>3. Written(loc[p]) => Written(loc'[p]) /\ Own(f, loc'[p]) = Own(e, loc[p])
  <2> SUFFICES ASSUME Written(loc[p]) PROVE Own(f, loc'[p]) = Own(e, loc[p])
    OBVIOUS
  <2>1. Marks(e, g, pc[p], loc[p])
    BY Before_After
  <2>2. Inode_in(e, loc[p])
    BY <2>1 DEF Marks, After
  <2>3. QED
    BY <2>2 DEF Goes, Grows, Inode_in, Own
<1>4. QED
  BY <1>1, <1>2, <1>3, KnowsStep

\* A step that changes nothing but how often entries are used and where p is.
LEMMA LocalQuiet ==
  ASSUME NEW e, NEW f, NEW g, Goes(e, f, g), NEW p \in Proc,
         \A q \in Proc \ {p} : pc'[q] = pc[q] /\ loc'[q] = loc[q],
         UNCHANGED << disk, inode_bitmap, open_inodes >>, DOMAIN dentries' = DOMAIN dentries,
         Written(loc[p]) => Written(loc'[p]) /\ loc'[p].inode = loc[p].inode,
         Marks(f, g, pc'[p], loc'[p])
  PROVE  NamesInv'
<1>1. Knows(e, g) /\ Learns(g, g)
  BY LearnsNone DEF Goes
<1>2. MemoryTold(g, open_inodes') /\ TableTold(g, disk'.itable)
  BY <1>1 DEF Knows
<1>3. EntriesTold(f, g)
  BY <1>1, EntriesStand
<1>4. BlocksTold(f, g, disk'.block)
  BY <1>1, BlocksStay
<1>5. QED
  BY <1>2, <1>3, <1>4, QuietStep

\* A label at which nothing more needs to be known.
Unmarked(l, L) ==
  \/ l \in {"out", "walk", "fw_loop", "fw_slot", "fw_read", "fw_got", "fw_table", "fw_done", "tab_zero",
            "tab_read", "tab_write", "fr_loop", "fr_slot", "fr_read"}
  \/ l \in {"alloc", "bsync"} /\ L.ret \in {"fw_got", "fw_table"}
\* There a process that has not written an entry keeps to what is known.
LEMMA UnmarkedOK ==
  ASSUME NEW f, NEW h, NEW l, NEW L, Unmarked(l, L), ~Written(L),
         "call" \in DOMAIN L /\ L.call = "write" /\ l # "fw_done" => Own(f, L) \in h.kept
  PROVE  Marks(f, h, l, L)
<1>1. Before(f, h, l, L) /\ After(f, h, l, L)
  BY DEF Unmarked, Before, After, Naming, Wrote
<1>2. Searches(f, h, l, L) /\ Restores(f, h, l, L)
  BY DEF Unmarked, Searches, Restores
<1>3. Fills(f, h, l, L)
  BY DEF Unmarked, Fills
<1>4. QED
  BY <1>1, <1>2, <1>3 DEF Marks

\* Only who creates has written an entry.
LEMMA NotWritten ==
  ASSUME NEW e, NEW g, NEW l, NEW L, Marks(e, g, l, L)
  PROVE  /\ Unmarked(l, L) \/ Naming(l, L) \/ l \in {"search", "iget", "fw_write"} => ~Written(L)
         /\ "call" \in DOMAIN L /\ L.call \notin {"open", "mkdir"} => ~Written(L)
<1>1. After(e, g, l, L)
  BY DEF Marks
<1>2. Unmarked(l, L) \/ Naming(l, L) \/ l \in {"search", "iget", "fw_write"} =>
        ~Wrote(l, L) /\ l \notin {"isync_read", "isync_write"}
  BY DEF Unmarked, Naming, Wrote
<1>3. QED
  BY <1>1, <1>2 DEF After, Call_in

\* What everybody knows, he knows after the step.
LEMMA StaysMarked ==
  ASSUME NEW e, NEW f, NEW g, Goes(e, f, g), NEW h, Learns(g, h), NEW p \in Proc
  PROVE  Marks(f, h, pc[p], loc[p]) /\ LocalsOK(f, pc[p], loc[p])
<1>1. \A i \in DOMAIN e.no : e.no[i] \in g.used
  BY Before_After DEF Goes, Knows, MemoryTold
<1>2. LocalsOK(e, pc[p], loc[p]) /\ Marks(e, g, pc[p], loc[p]) /\ Grows(e, f)
  BY Before_After DEF Goes
<1>3. QED
  BY <1>1, <1>2, MarksOn, GrowsLocals

\* So it does when nothing has been learnt.
LEMMA MarksStay ==
  ASSUME NEW e, NEW f, NEW g, Goes(e, f, g), NEW p \in Proc
  PROVE  Marks(f, g, pc[p], loc[p]) /\ LocalsOK(f, pc[p], loc[p])
BY LearnsNone, StaysMarked

\* A step that changes nothing of this.
LEMMA Stands ==
  ASSUME NEW e, NEW f, NEW g, Goes(e, f, g), NEW p \in Proc,
         UNCHANGED << disk, inode_bitmap, open_inodes, pc, loc >>, DOMAIN dentries' = DOMAIN dentries
  PROVE  NamesInv'
<1>1. Marks(f, g, pc'[p], loc'[p])
  BY MarksStay
<1>2. QED
  BY <1>1, LocalQuiet

\* What is put in local variables leaves the rest.
LEMMA PutLeaves ==
  ASSUME NEW L, NEW r
  PROVE  /\ DOMAIN (r ++ L) = DOMAIN r \cup DOMAIN L
         /\ \A x \in DOMAIN r : (r ++ L)[x] = r[x]
         /\ \A x \in DOMAIN L \ DOMAIN r : (r ++ L)[x] = L[x]
BY DEF ++

\* Where p goes on, and with what.
LEMMA Goes_on ==
  ASSUME NEW e, NEW f, NEW g, Goes(e, f, g), NEW p \in Proc
  PROVE  /\ \A l : ThenAt(p, l) => pc'[p] = l /\ \A q \in Proc \ {p} : pc'[q] = pc[q]
         /\ \A L : Local(p, L) => loc'[p] = L /\ \A q \in Proc \ {p} : loc'[q] = loc[q]
         /\ \A r : Put(p, r) => loc'[p] = r ++ loc[p] /\ \A q \in Proc \ {p} : loc'[q] = loc[q]
BY Before_After DEF ThenAt, Local, Put

\* Who awaits a block creates a name, or writes a file.
LEMMA AwaitsWhat ==
  ASSUME NEW e, NEW r, NEW L, Awaits(e, r, L)
  PROVE  /\ (r \in {"dirw_zero", "dot"} /\ Creates(e, L)) \/ (r \in {"fw_got", "fw_table"} /\ Writes(e, L))
         /\ "inode" \in DOMAIN L /\ "call" \in DOMAIN L
BY DEF Awaits, Creates, WritesBlock, Writes, Inode_in, Call_in

\* What a call knows when it waits for a block.
LEMMA MarksAwait ==
  ASSUME NEW f, NEW g, NEW l, NEW L, Marks(f, g, l, L), l \in {"alloc", "bsync"}, Awaits(f, L.ret, L),
         "ret" \in DOMAIN L, NEW r, DOMAIN r \subseteq {"blk"}
  PROVE  Marks(f, g, "bsync", r ++ L) /\ Marks(f, g, L.ret, L) /\ (Written(r ++ L) <=> Written(L))
<1> DEFINE M == r ++ L
<1>1. /\ M.ret = L.ret /\ M.inode = L.inode /\ "inode" \in DOMAIN L /\ M.call = L.call
      /\ "call" \in DOMAIN L /\ "call" \in DOMAIN M
      /\ "name" \in DOMAIN L => "name" \in DOMAIN M /\ M.name = L.name
      /\ "parent" \in DOMAIN L => M.parent = L.parent
      /\ Written(M) <=> Written(L)
  <2>1. /\ DOMAIN M = DOMAIN r \cup DOMAIN L
        /\ \A x \in DOMAIN L \ DOMAIN r : M[x] = L[x]
    BY PutLeaves
  <2>2. "inode" \in DOMAIN L /\ "call" \in DOMAIN L
    BY AwaitsWhat
  <2> HIDE DEF M
  <2>3. QED
    BY <2>1, <2>2 DEF Written
<1> HIDE DEF M
<1>2. Own(f, M) = Own(f, L) /\ ("parent" \in DOMAIN L => Home(f, M) = Home(f, L))
  BY <1>1 DEF Own, Home
<1>3. CASE L.ret \in {"fw_got", "fw_table"}
  <2>1. ~Written(L) /\ (L.call = "write" => Own(f, L) \in g.kept)
    BY <1>1, <1>3, NotWritten DEF Unmarked, Marks, Fills
  <2>2. Unmarked("bsync", M) /\ Unmarked(L.ret, L)
    BY <1>1, <1>3 DEF Unmarked
  <2>3. QED
    BY <1>1, <1>2, <2>1, <2>2, UnmarkedOK DEF M
<1>4. CASE L.ret \in {"dirw_zero", "dot"}
  <2>1. L.call \in {"open", "mkdir"} /\ "parent" \in DOMAIN L
    BY <1>4, AwaitsWhat DEF Creates, Call_in
  <2>2. Before(f, g, l, L) /\ After(f, g, l, L)
    BY DEF Marks
  <2>3. Before(f, g, "bsync", M) /\ Before(f, g, L.ret, L)
    BY <1>1, <1>2, <1>4, <2>1, <2>2 DEF Before, Naming
  <2>4. After(f, g, "bsync", M) /\ After(f, g, L.ret, L)
    <3>1. (Inode_in(f, M) <=> Inode_in(f, L)) /\ Call_in(M, {"open", "mkdir"})
      <4>1. "inode" \in DOMAIN M
        BY <1>1, PutLeaves DEF M
      <4>2. QED
        BY <1>1, <2>1, <4>1 DEF Inode_in, Call_in
    <3>2. Call_in(L, {"open", "mkdir"})
      BY <1>1, <2>1 DEF Call_in
    <3>3. (Wrote(L.ret, L) <=> Wrote(l, L)) /\ (Wrote("bsync", M) <=> Wrote(l, L))
      BY <1>1, <1>4 DEF Wrote
    <3>4. QED
      BY <1>1, <1>2, <1>4, <2>2, <3>1, <3>2, <3>3 DEF After
  <2>5. /\ Searches(f, g, "bsync", M) /\ Restores(f, g, "bsync", M) /\ Fills(f, g, "bsync", M)
        /\ Searches(f, g, L.ret, L) /\ Restores(f, g, L.ret, L) /\ Fills(f, g, L.ret, L)
    BY <1>1, <1>4, <2>1 DEF Searches, Restores, Fills
  <2>6. QED
    BY <1>1, <2>3, <2>4, <2>5 DEF Marks, M
<1>5. QED
  BY <1>3, <1>4, AwaitsWhat

\* A block is allocated,
LEMMA BlockAllocNames ==
  ASSUME NEW e, NEW f, NEW g, Goes(e, f, g), NEW p \in Proc, block_bimap_alloc(p), UNCHANGED dirs
  PROVE  NamesInv'
<1>1. CASE UNCHANGED << disk, inode_bitmap, open_inodes, pc, loc >>
  BY <1>1, Stands DEF dirs
<1>2. CASE ~UNCHANGED << disk, inode_bitmap, open_inodes, pc, loc >>
  <2>1. PICK b : Put(p, [blk |-> b]) /\ ThenAt(p, "bsync") /\ UNCHANGED << inode_bitmap, open_inodes, disk >>
    <3>1. ~Panic("bitmap_sync") /\ ~(Panic("bitmap_scan_full") /\ UNCHANGED memory)
      BY <1>2 DEF block_bimap_alloc, Panic, memory
    <3>2. QED
      BY <3>1 DEF block_bimap_alloc
  <2>2. PICK r : r = [blk |-> b]
    OBVIOUS
  <2>3. /\ pc'[p] = "bsync" /\ loc'[p] = r ++ loc[p]
        /\ \A q \in Proc \ {p} : pc'[q] = pc[q] /\ loc'[q] = loc[q]
    BY <2>1, <2>2, Goes_on
  <2>4. pc[p] = "alloc"
    BY DEF block_bimap_alloc, Runs, At
  <2>5. Awaits(f, loc[p].ret, loc[p]) /\ "ret" \in DOMAIN loc[p]
    <3>1. Awaits(e, loc[p].ret, loc[p]) /\ "ret" \in DOMAIN loc[p]
      BY <2>4, Before_After, LocalsAt DEF Allocating, Awaits
    <3>2. QED
      BY <2>4, <3>1, Before_After, GrowsLocals, LocalsAt DEF Goes, Allocating, Awaits
  <2>6. DOMAIN r \subseteq {"blk"}
    BY <2>2
  <2>7. Marks(f, g, "bsync", r ++ loc[p]) /\ (Written(r ++ loc[p]) <=> Written(loc[p]))
    BY <2>4, <2>5, <2>6, MarksStay, MarksAwait
  <2>8. (r ++ loc[p]).inode = loc[p].inode
    <3>1. PICK L, l : L = loc[p] /\ l = loc[p].ret
      OBVIOUS
    <3>2. "inode" \in DOMAIN L \ DOMAIN r
      <4>1. Awaits(f, l, L)
        BY <2>5, <3>1
      <4>2. QED
        BY <2>6, <4>1, AwaitsWhat
    <3>3. (r ++ L).inode = L.inode
      BY <3>2 DEF ++
    <3>4. QED
      BY <3>1, <3>3
  <2>9. QED
    BY <2>1, <2>3, <2>7, <2>8, LocalQuiet DEF dirs
<1>3. QED
  BY <1>1, <1>2

\* and its bit is written.
LEMMA BlockSyncNames ==
  ASSUME NEW e, NEW f, NEW g, Goes(e, f, g), NEW p \in Proc, block_bitmap_sync(p), UNCHANGED dirs
  PROVE  NamesInv'
<1>1. /\ pc[p] = "bsync" /\ ThenAt(p, loc[p].ret) /\ UNCHANGED << memory, loc >>
      /\ disk' = [disk EXCEPT !.bbits = block_bitmap]
  BY DEF block_bitmap_sync, Runs, At
<1>2. pc'[p] = loc[p].ret /\ loc'[p] = loc[p] /\ \A q \in Proc \ {p} : pc'[q] = pc[q] /\ loc'[q] = loc[q]
  BY <1>1, Goes_on
<1>3. Awaits(f, loc[p].ret, loc[p]) /\ "ret" \in DOMAIN loc[p]
  BY <1>1, Before_After, GrowsLocals, LocalsAt DEF Goes, Allocating, Awaits
<1>4. Marks(f, g, loc[p].ret, loc[p])
  <2>1. PICK r : r = [x \in {} |-> 0]
    OBVIOUS
  <2>2. DOMAIN r \subseteq {"blk"}
    BY <2>1
  <2>3. QED
    BY <1>1, <1>3, <2>2, MarksStay, MarksAwait
<1>5. disk'.ibits = disk.ibits /\ disk'.itable = disk.itable /\ disk'.block = disk.block
  BY <1>1, Before_After DEF OnTheDisk
<1>6. MemoryTold(g, open_inodes') /\ EntriesTold(f, g)
  <2>1. EntriesTold(f, g)
    BY LearnsNone, EntriesStand DEF dirs
  <2>2. QED
    BY <1>1, <2>1 DEF Goes, Knows, memory
<1>7. BlocksTold(f, g, disk'.block)
  BY <1>5, LearnsNone, BlocksOn DEF BlocksTold
<1>8. TableTold(g, disk'.itable)
  BY <1>5 DEF Goes, Knows
<1>9. QED
  BY <1>1, <1>2, <1>4, <1>5, <1>6, <1>7, <1>8, QuietStep DEF memory

\* Nothing changes but the disk and where p is.
LEMMA DiskQuiet ==
  ASSUME NEW e, NEW f, NEW g, Goes(e, f, g), NEW h, Learns(g, h), UNCHANGED << memory, dirs >>
  PROVE  EntriesTold(f, h) /\ (h.used = g.used /\ h.dir = g.dir => MemoryTold(h, open_inodes'))
<1>1. EntriesTold(f, h)
  BY EntriesStand DEF dirs
<1>2. MemoryTold(g, open_inodes)
  BY DEF Goes, Knows
<1>3. h.used = g.used /\ h.dir = g.dir => MemoryTold(h, open_inodes)
  BY <1>2 DEF MemoryTold, Learns
<1>4. QED
  BY <1>1, <1>3 DEF memory

\* The table of inodes is read,
LEMMA SyncReadNames ==
  ASSUME NEW e, NEW f, NEW g, Goes(e, f, g), NEW p \in Proc, inode_sync_read(p), UNCHANGED dirs
  PROVE  NamesInv'
<1>1. PICK L, M : L = loc[p] /\ M = [buf |-> disk.itable] ++ L
  OBVIOUS
<1>2. /\ pc[p] = "isync_read" /\ pc'[p] = "isync_write" /\ loc'[p] = M
      /\ \A q \in Proc \ {p} : pc'[q] = pc[q] /\ loc'[q] = loc[q]
      /\ UNCHANGED << disk, memory >>
  BY <1>1, Goes_on DEF inode_sync_read, Runs, At
<1>3. Marks(f, g, "isync_read", L) /\ LocalsOK(f, "isync_read", L)
  BY <1>1, <1>2, MarksStay
<1>4. Syncs(f, L)
  BY <1>3, LocalsAt DEF Syncing
<1>5. /\ M.inode = L.inode /\ M.call = L.call /\ M.copy = L.copy /\ M.ret = L.ret
      /\ {"inode", "call"} \subseteq DOMAIN L /\ {"inode", "call"} \subseteq DOMAIN M
      /\ Written(M) <=> Written(L)
      /\ M.buf = disk.itable
  BY <1>1, <1>4 DEF Syncs, Call_in, Inode_in, Written, ++
<1>6. Own(f, M) = Own(f, L) /\ Inode_in(f, M) /\ TableTold(g, disk.itable)
  BY <1>4, <1>5 DEF Own, Syncs, Inode_in, Goes, Knows
<1>7. Before(f, g, "isync_write", M) /\ Searches(f, g, "isync_write", M)
  BY DEF Before, Naming, Searches
<1>8. After(f, g, "isync_write", M)
  BY <1>3, <1>5, <1>6 DEF Marks, After, Wrote, Call_in
<1>9. Restores(f, g, "isync_write", M) /\ Fills(f, g, "isync_write", M)
  BY <1>3, <1>5, <1>6 DEF Marks, Restores, Fills
<1>10. Marks(f, g, pc'[p], loc'[p])
  BY <1>2, <1>7, <1>8, <1>9 DEF Marks
<1>11. Written(loc[p]) => Written(loc'[p]) /\ loc'[p].inode = loc[p].inode
  BY <1>1, <1>2, <1>5
<1>12. QED
  BY <1>2, <1>10, <1>11, LocalQuiet DEF memory, dirs

\* and written with the copy in it.
LEMMA SyncWriteNames ==
  ASSUME NEW e, NEW f, NEW g, Goes(e, f, g), NEW p \in Proc, inode_sync_write(p), UNCHANGED dirs
  PROVE  NamesInv'
<1>1. PICK L, M : L = loc[p] /\ M = [buf |-> NULL, copy |-> NULL] ++ L
  OBVIOUS
<1>2. /\ pc[p] = "isync_write" /\ pc'[p] = L.ret /\ loc'[p] = M
      /\ \A q \in Proc \ {p} : pc'[q] = pc[q] /\ loc'[q] = loc[q]
      /\ UNCHANGED memory
      /\ disk' = [disk EXCEPT !.itable = [L.buf EXCEPT ![open_inodes[L.inode].no] = L.copy]]
  BY <1>1, Goes_on DEF inode_sync_write, Runs, At
<1>3. Marks(f, g, "isync_write", L) /\ LocalsOK(f, "isync_write", L) /\ LocalsOK(e, "isync_write", L)
  BY <1>1, <1>2, MarksStay, Before_After
<1>4. Syncs(f, L) /\ Syncs(e, L) /\ InodesOf(e, L.buf)
  BY <1>3, LocalsAt DEF Syncing
<1>5. /\ M.inode = L.inode /\ M.call = L.call
      /\ {"inode", "call"} \subseteq DOMAIN L /\ {"inode", "call"} \subseteq DOMAIN M
      /\ Written(M) <=> Written(L)
  BY <1>1, <1>4 DEF Syncs, Call_in, Inode_in, Written, ++
<1>6. Own(f, M) = Own(f, L) /\ Inode_in(f, M)
  BY <1>4, <1>5 DEF Own, Syncs, Inode_in
<1>7. open_inodes[L.inode].no = Own(f, L)
  BY <1>4, Before_After DEF Own, Syncs, Inode_in, Goes, Grows
<1>8. Restores(f, g, "isync_write", L) /\ After(f, g, "isync_write", L) /\ Fills(f, g, "isync_write", L)
  BY <1>3 DEF Marks
<1>9. TableTold(g, disk'.itable)
  <2>1. disk'.itable = [L.buf EXCEPT ![Own(f, L)] = L.copy]
    BY <1>2, <1>7, Before_After DEF OnTheDisk
  <2>2. TableTold(g, L.buf) /\ Own(f, L) \in g.kept /\ L.copy.dir = g.dir[Own(f, L)] /\ Plain(L.copy)
    BY <1>8 DEF Restores
  <2>3. DOMAIN L.buf = Ino
    BY <1>4 DEF InodesOf
  <2>4. QED
    BY <2>1, <2>2, <2>3 DEF TableTold, Plain
<1>10. disk'.ibits = disk.ibits /\ disk'.block = disk.block
  BY <1>2, Before_After DEF OnTheDisk
<1>11. MemoryTold(g, open_inodes') /\ EntriesTold(f, g) /\ BlocksTold(f, g, disk'.block)
  BY <1>2, <1>10, LearnsNone, DiskQuiet, BlocksOn DEF BlocksTold
<1>12. Marks(f, g, L.ret, M)
  <2>1. CASE L.ret = "fw_done"
    <3>1. L.call = "write"
      BY <1>4, <2>1 DEF Syncs
    <3>2. ~Written(M) /\ Unmarked(L.ret, M)
      BY <1>5, <1>8, <2>1, <3>1 DEF After, Call_in, Unmarked
    <3>3. QED
      BY <2>1, <3>2, UnmarkedOK
  <2>2. CASE L.ret = "ibsync"
    <3>1. L.call \in {"open", "mkdir"} /\ Written(L)
      BY <1>4, <1>8, <2>2 DEF Syncs, Call_in, Restores
    <3>2. Before(f, g, L.ret, M) /\ Searches(f, g, L.ret, M) /\ Restores(f, g, L.ret, M)
      BY <2>2 DEF Before, Naming, Searches, Restores
    <3>3. After(f, g, L.ret, M)
      BY <1>5, <1>6, <1>8, <2>2, <3>1 DEF After, Wrote, Call_in
    <3>4. Fills(f, g, L.ret, M)
      BY <1>5, <2>2, <3>1 DEF Fills
    <3>5. QED
      BY <3>2, <3>3, <3>4 DEF Marks
  <2>3. QED
    BY <1>4, <2>1, <2>2 DEF Syncs
<1>13. Written(loc[p]) => Written(loc'[p]) /\ loc'[p].inode = loc[p].inode
  BY <1>1, <1>2, <1>5
<1>14. Marks(f, g, pc'[p], loc'[p])
  BY <1>2, <1>12
<1>15. QED
  BY <1>2, <1>9, <1>10, <1>11, <1>13, <1>14, QuietStep DEF memory

\* The bits of inodes are to be written,
LEMMA BitmapSyncNames ==
  ASSUME NEW e, NEW f, NEW g, Goes(e, f, g), NEW p \in Proc, inode_bitmap_sync(p), UNCHANGED dirs
  PROVE  NamesInv'
<1>1. pc[p] = "ibsync" /\ UNCHANGED << disk, inode_bitmap, open_inodes, loc, dentries >>
  BY DEF inode_bitmap_sync, Runs, At, memory, dirs
<1>2. CASE UNCHANGED pc
  BY <1>1, <1>2, Stands
<1>3. CASE ThenAt(p, "ibsync_write")
  <2>1. pc'[p] = "ibsync_write" /\ \A q \in Proc \ {p} : pc'[q] = pc[q]
    BY <1>3, Goes_on
  <2>2. PICK L : L = loc[p]
    OBVIOUS
  <2>3. Marks(f, g, "ibsync", L)
    BY <1>1, <2>2, MarksStay
  <2>4. Marks(f, g, "ibsync_write", L)
    BY <2>3 DEF Marks, Before, Naming, After, Wrote, Searches, Restores, Fills
  <2>5. QED
    BY <1>1, <2>1, <2>2, <2>4, LocalQuiet
<1>4. QED
  BY <1>2, <1>3 DEF inode_bitmap_sync, Panic

\* and are, of those that others are creating too.
LEMMA BitmapWriteNames ==
  ASSUME NEW e, NEW f, NEW g, Goes(e, f, g), NEW p \in Proc, inode_bitmap_write(p), UNCHANGED dirs
  PROVE  NamesInv'
<1>1. PICK L, h : /\ L = loc[p]
                  /\ h = [used |-> g.used, ibits |-> inode_bitmap, dir |-> g.dir, named |-> g.named,
                          kept |-> inode_bitmap, old |-> g.old]
  OBVIOUS
<1>2. /\ pc[p] = "ibsync_write" /\ pc'[p] = "created" /\ loc'[p] = L
      /\ \A q \in Proc \ {p} : pc'[q] = pc[q] /\ loc'[q] = loc[q]
      /\ UNCHANGED << memory, loc >>
      /\ disk' = [disk EXCEPT !.ibits = inode_bitmap]
  BY <1>1, Goes_on DEF inode_bitmap_write, Runs, At
<1>3. Bits(g)
  BY DEF Goes, Knows
<1>4. Learns(g, h)
  BY <1>1, <1>3, Before_After DEF Bits, Learns
<1>5. disk'.ibits = inode_bitmap /\ disk'.itable = disk.itable /\ disk'.block = disk.block
  BY <1>2, Before_After DEF OnTheDisk
<1>6. Bits(h)'
  BY <1>1, <1>2, <1>3, <1>5 DEF Bits, memory
<1>7. EntriesTold(f, h) /\ MemoryTold(h, open_inodes') /\ BlocksTold(f, h, disk'.block)
  BY <1>1, <1>2, <1>4, <1>5, DiskQuiet, BlocksOn DEF BlocksTold
<1>8. TableTold(h, disk'.itable)
  <2>1. TableTold(g, disk.itable)
    BY DEF Goes, Knows
  <2>2. QED
    BY <1>4, <1>5, <2>1, LearnsSays
<1>9. Marks(f, h, "ibsync_write", L) /\ LocalsOK(f, "ibsync_write", L)
  BY <1>1, <1>2, <1>4, StaysMarked
<1>10. Written(L) /\ Inode_in(f, L) /\ Inode_in(e, L) /\ Call_in(L, {"open", "mkdir"}) /\ Own(f, L) \in h.kept
  <2>1. After(f, h, "ibsync_write", L)
    BY <1>9 DEF Marks
  <2>2. Marks(e, g, "ibsync_write", L)
    BY <1>1, <1>2, Before_After
  <2>3. QED
    BY <2>1, <2>2 DEF After, Wrote, Marks
<1>11. Marks(f, h, "created", L)
  <2>1. Before(f, h, "created", L) /\ Searches(f, h, "created", L) /\ Restores(f, h, "created", L)
    BY DEF Before, Naming, Searches, Restores
  <2>2. After(f, h, "created", L)
    BY <1>1, <1>10 DEF After, Wrote
  <2>3. Fills(f, h, "created", L)
    BY <1>10 DEF Fills, Call_in
  <2>4. QED
    BY <2>1, <2>2, <2>3 DEF Marks
<1>12. Own(f, L) = Own(e, L)
  BY <1>10 DEF Own, Inode_in, Goes, Grows
<1>13. QED
  BY <1>1, <1>2, <1>4, <1>5, <1>6, <1>7, <1>8, <1>10, <1>11, <1>12, KnowsStep

\* Each step of fs/inode.c keeps the names.
LEMMA InodeNames ==
  ASSUME NEW e, NEW f, NEW g, Goes(e, f, g), NEW p \in Proc, InodeStep(p), UNCHANGED dirs
  PROVE  NamesInv'
BY BlockAllocNames, BlockSyncNames, SyncReadNames, SyncWriteNames, BitmapSyncNames, BitmapWriteNames
   DEF InodeStep

\* A step that only takes p to a label at which nothing more needs to be known.
LEMMA Unmarked_step ==
  ASSUME NEW e, NEW f, NEW g, Goes(e, f, g), NEW p \in Proc,
         UNCHANGED << disk, inode_bitmap, open_inodes >>, DOMAIN dentries' = DOMAIN dentries,
         ~Written(loc[p]), NEW l, NEW L, ThenAt(p, l), Local(p, L) \/ (UNCHANGED loc /\ L = loc[p]),
         Unmarked(l, L), ~Written(L),
         "call" \in DOMAIN L /\ L.call = "write" /\ l # "fw_done" => Own(f, L) \in g.kept
  PROVE  NamesInv'
<1>1. /\ pc'[p] = l /\ loc'[p] = L
      /\ \A q \in Proc \ {p} : pc'[q] = pc[q] /\ loc'[q] = loc[q]
  BY Goes_on
<1>2. Marks(f, g, pc'[p], loc'[p])
  BY <1>1, UnmarkedOK
<1>3. QED
  BY <1>1, <1>2, LocalQuiet

\* The inode that inode_open() finds in memory.
LEMMA LatestIs ==
  ASSUME NEW e, Seen(e), NEW k
  PROVE  /\ Latest(k) # 0 => Latest(k) \in DOMAIN open_inodes /\ open_inodes[Latest(k)].no = k
         /\ Latest(k) = 0 => \A i \in DOMAIN open_inodes : open_inodes[i].no # k
<1> DEFINE S == {0} \cup { i \in DOMAIN open_inodes : open_inodes[i].no = k }
<1>1. Len(open_inodes) \in Nat /\ DOMAIN open_inodes = 1 .. Len(open_inodes)
  <2>1. open_inodes \in Seq(MemInode)
    BY Same DEF Owners, InMemoryOf
  <2>2. QED
    BY <2>1, LenProperties
<1>2. S \in SUBSET (0 .. Len(open_inodes)) /\ S # {}
  BY <1>1
<1>3. Max(S) \in S /\ \A j \in S : j <= Max(S)
  <2> HIDE DEF S
  <2>1. QED
    BY <1>1, <1>2, GreatestIn
<1>4. QED
  BY <1>1, <1>3 DEF Latest

\* The inode of a directory entry, what it is and whose its blocks are.
LEMMA OfEntry ==
  ASSUME NEW e, NEW f, NEW g, Goes(e, f, g), NEW d \in DOMAIN dentries
  PROVE  LET i == dentries[d].inode
             k == e.no[e.inode[d]]
         IN /\ i \in DOMAIN open_inodes /\ i = e.inode[d] /\ k = open_inodes[i].no
            /\ d \in DOMAIN e.inode /\ f.no[f.inode[d]] = k
            /\ k \in g.kept /\ k \in g.used /\ open_inodes[i].dir = g.dir[k] /\ Plain(open_inodes[i])
            /\ \A n \in Pointers \ {NDIRECT} : Data_of(e, k, open_inodes[i].sectors[n])
<1> DEFINE i == dentries[d].inode
           k == e.no[e.inode[d]]
<1>1. d \in DOMAIN e.inode /\ e.inode[d] = i
  BY Before_After
<1>2. i \in DOMAIN open_inodes /\ k = open_inodes[i].no /\ f.no[f.inode[d]] = k
  BY <1>1, Before_After DEF Goes, Grows
<1>3. k \in g.kept /\ k \in g.used /\ open_inodes[i].dir = g.dir[k] /\ Plain(open_inodes[i])
  BY <1>1, <1>2 DEF Goes, Knows, EntriesTold, MemoryTold
<1>4. SectorsOf(e, k, open_inodes[i].sectors)
  BY <1>1, <1>2, Before_After
<1>5. QED
  BY <1>1, <1>2, <1>3, <1>4 DEF SectorsOf

\* The search goes on at the next block, or ends.
LEMMA SearchFromNames ==
  ASSUME NEW e, NEW f, NEW g, Goes(e, f, g), NEW p \in Proc, UNCHANGED << disk, memory, dirs >>,
         ~Written(loc[p]), NEW idx \in Nat, NEW r, search_from(p, r.parent, idx, r),
         r.parent \in DOMAIN dentries, {"parent", "name", "call"} \subseteq DOMAIN r,
         r.name \notin {".", ".."}, r.call # "write", ~Written(r)
  PROVE  NamesInv'
<1> DEFINE more == { i \in idx .. NDIRECT - 1 : DirInode(r.parent).sectors[i] # 0 }
<1>1. PICK K, M : /\ K = [child |-> 0] ++ Restrict(r, DOMAIN r \ {"idx", "lba"})
                  /\ M = [idx |-> Min(more), lba |-> DirInode(r.parent).sectors[Min(more)]] ++ r
  OBVIOUS
<1>2. \/ Local(p, K) /\ ThenAt(p, "walk")
      \/ more # {} /\ Local(p, M) /\ ThenAt(p, "search")
  BY <1>1 DEF search_from
<1>3. K.call = r.call /\ ~Written(K)
  BY <1>1 DEF Restrict, Written, ++
<1>4. CASE Local(p, K) /\ ThenAt(p, "walk")
  BY <1>3, <1>4, Unmarked_step DEF Unmarked, memory, dirs
<1>5. CASE more # {} /\ Local(p, M) /\ ThenAt(p, "search")
  <2>1. Min(more) \in more
    <3>1. more \in SUBSET Nat
      OBVIOUS
    <3> HIDE DEF more
    <3>2. QED
      BY <1>5, <3>1, LeastIn
  <2>2. PICK n : n = Min(more)
    OBVIOUS
  <2>3. n \in Nat /\ n \in Pointers \ {NDIRECT} /\ DirInode(r.parent).sectors[n] # 0
    BY <2>1, <2>2, InodeAssumption DEF Pointers
  <2> HIDE DEF more
  <2>4. PICK b : b = DirInode(r.parent).sectors[n]
    OBVIOUS
  <2>5. M = [idx |-> n, lba |-> b] ++ r
    BY <1>1, <2>2, <2>4
  <2>6. /\ M.idx = n /\ M.lba = b /\ M.parent = r.parent /\ M.name = r.name /\ M.call = r.call
        /\ {"name", "idx"} \subseteq DOMAIN M /\ ~Written(M)
    BY <2>5 DEF Written, ++
  <2>7. PICK k : k = e.no[e.inode[r.parent]]
    OBVIOUS
  <2>8. Home(e, M) = k /\ Home(f, M) = k /\ Data_of(e, k, b)
    <3>1. PICK d, i : d = r.parent /\ i = dentries[d].inode
      OBVIOUS
    <3>2. d \in DOMAIN dentries
      BY <3>1
    <3>3. f.no[f.inode[d]] = k /\ Data_of(e, k, open_inodes[i].sectors[n])
      BY <2>3, <2>7, <3>1, <3>2, OfEntry
    <3>4. b = open_inodes[i].sectors[n]
      BY <2>4, <3>1 DEF DirInode
    <3>5. QED
      BY <2>6, <2>7, <3>1, <3>3, <3>4 DEF Home
  <2>9. OfInode(f, M, k)
    <3>1. b \in e.synced /\ e.who[b] = k
      BY <2>3, <2>4, <2>8 DEF Data_of
    <3>2. QED
      BY <2>6, <3>1 DEF OfInode, Goes, Grows
  <2>10. Searches(f, g, "search", M)
    BY <2>3, <2>6, <2>8, <2>9 DEF Searches
  <2>11. Before(f, g, "search", M) /\ After(f, g, "search", M) /\ Restores(f, g, "search", M)
    BY <2>6 DEF Before, Naming, After, Wrote, Restores
  <2>12. Fills(f, g, "search", M)
    BY <2>6 DEF Fills
  <2>13. /\ pc'[p] = "search" /\ loc'[p] = M
         /\ \A q \in Proc \ {p} : pc'[q] = pc[q] /\ loc'[q] = loc[q]
    BY <1>5, Goes_on
  <2>14. Marks(f, g, pc'[p], loc'[p])
    BY <2>10, <2>11, <2>12, <2>13 DEF Marks
  <2>15. QED
    BY <2>13, <2>14, LocalQuiet DEF memory, dirs
<1>6. QED
  BY <1>2, <1>4, <1>5

\* A call that walks a path.
LEMMA WalksAt ==
  ASSUME NEW e, NEW f, NEW g, Goes(e, f, g), NEW p \in Proc, pc[p] \in {"walk", "search", "iget"}
  PROVE  /\ Walks(e, loc[p]) /\ ~Written(loc[p])
         /\ {"call", "fd", "parent", "child"} \subseteq DOMAIN loc[p] /\ loc[p].call \in {"open", "mkdir", "chdir"}
         /\ loc[p].parent \in DOMAIN dentries /\ loc[p].child \in DOMAIN dentries \cup {0}
<1>1. Walks(e, loc[p])
  BY Before_After, HasInode
<1>2. Marks(e, g, pc[p], loc[p])
  BY Before_After
<1>3. ~Written(loc[p])
  BY <1>2, NotWritten DEF Unmarked
<1>4. QED
  BY <1>1, <1>3, Before_After DEF Walks, Call_in

\* The next name of a path is looked for.
LEMMA SearchDentryNames ==
  ASSUME NEW e, NEW f, NEW g, Goes(e, f, g), NEW p \in Proc, search_dentry(p) PROVE NamesInv'
<1>1. PICK L, n, parent : L = loc[p] /\ n = Head(L.path) /\ parent = L.child
  OBVIOUS
<1>2. PICK r : r = [parent |-> parent, name |-> n, path |-> Tail(L.path)] ++ L
  OBVIOUS
<1>3. pc[p] = "walk" /\ UNCHANGED << disk, memory, cwd >> /\ parent # 0
  BY <1>1 DEF search_dentry, Runs, At
<1>4. /\ ~Written(L) /\ L.call \in {"open", "mkdir", "chdir"} /\ {"call", "fd"} \subseteq DOMAIN L
      /\ parent \in DOMAIN dentries
  BY <1>1, <1>3, WalksAt
<1>5. /\ r.parent = parent /\ r.name = n /\ r.call = L.call /\ ~Written(r)
      /\ {"parent", "name", "call"} \subseteq DOMAIN r
  BY <1>2, <1>4 DEF Written, ++
<1>6. ASSUME NEW d, Local(p, [child |-> d] ++ r), ThenAt(p, "walk"), DOMAIN dentries' = DOMAIN dentries
      PROVE  NamesInv'
  <2>1. PICK M : M = [child |-> d] ++ r
    OBVIOUS
  <2>2. M.call = r.call /\ ~Written(M)
    BY <1>5, <2>1 DEF Written, ++
  <2>3. QED
    BY <1>1, <1>3, <1>4, <1>5, <1>6, <2>1, <2>2, Unmarked_step DEF Unmarked, memory
<1>7. CASE search_from(p, parent, 0, r) /\ UNCHANGED dentries /\ n \notin {".", ".."}
  <2>1. search_from(p, r.parent, 0, r) /\ UNCHANGED << disk, memory, dirs >> /\ r.parent \in DOMAIN dentries
    BY <1>3, <1>4, <1>5, <1>7 DEF dirs
  <2>2. ~Written(loc[p]) /\ r.call # "write" /\ r.name \notin {".", ".."}
    BY <1>1, <1>4, <1>5, <1>7
  <2>3. QED
    BY <1>5, <2>1, <2>2, SearchFromNames
<1>8. \/ \E d : Local(p, [child |-> d] ++ r) /\ ThenAt(p, "walk") /\ DOMAIN dentries' = DOMAIN dentries
      \/ search_from(p, parent, 0, r) /\ UNCHANGED dentries /\ n \notin {".", ".."}
  BY <1>1, <1>2 DEF search_dentry
<1>9. QED
  BY <1>6, <1>7, <1>8

\* What a directory's block holds for the name that is looked for.
LEMMA HitKept ==
  ASSUME NEW e, NEW f, NEW g, Goes(e, f, g), NEW p \in Proc, pc[p] = "search",
         KindsRespected, ~torn, NEW b, b = DirAt(loc[p].lba),
         NEW hits, hits = { j \in DOMAIN b : b[j] # NULL /\ b[j].name = loc[p].name }, hits # {}
  PROVE  b[Min(hits)].no \in g.kept
<1>0. b = disk.block[loc[p].lba] /\ b # Dirty
  <2>1. CASE b = EmptyDir
    BY <2>1 DEF EmptyDir
  <2>2. QED
    BY <2>1 DEF DirAt
<1>1. PICK L, d, k : L = loc[p] /\ d = L.parent /\ k = Home(e, L)
  OBVIOUS
<1>2. d \in DOMAIN dentries /\ k = e.no[e.inode[d]]
  BY <1>1, WalksAt DEF Home
<1>3. g.dir[k]
  <2>1. DirInode(d).dir
    BY <1>1 DEF KindsRespected
  <2>2. QED
    BY <1>2, <2>1, OfEntry DEF DirInode
<1>4. L.name \notin {".", ".."} /\ L.lba \in e.synced /\ e.who[L.lba] = k
  <2>1. Marks(e, g, "search", L)
    BY <1>1, Before_After
  <2>2. QED
    BY <1>1, <2>1 DEF Marks, Searches, OfInode
<1>5. L.lba \in Block
  BY <1>4, Synced DEF Goes
<1>6. Says(g, b, k)
  BY <1>0, <1>1, <1>3, <1>4, <1>5 DEF Goes, Knows, BlocksTold
<1>7. hits \in SUBSET Nat /\ DOMAIN b = DOMAIN EmptyDir
  <2>1. DOMAIN b = DOMAIN EmptyDir
    BY <1>6 DEF Says
  <2>2. DOMAIN EmptyDir \in SUBSET Nat
    BY DEF EmptyDir
  <2>3. QED
    BY <2>1, <2>2
<1>8. Min(hits) \in hits
  BY <1>7, LeastIn
<1>9. PICK x : x = b[Min(hits)]
  OBVIOUS
<1>10. x # NULL /\ x.name = L.name /\ Min(hits) \in DOMAIN EmptyDir
  BY <1>1, <1>7, <1>8, <1>9
<1>11. x \in EntriesIn(b)
  BY <1>0, <1>4, <1>9, <1>10 DEF EntriesIn
<1>12. QED
  BY <1>6, <1>9, <1>11 DEF Says

\* An entry is cached for an inode that is kept.
LEMMA EntersNames ==
  ASSUME NEW e, NEW f, NEW g, Goes(e, f, g), NEW p \in Proc, pc[p] \in {"search", "iget"},
         UNCHANGED << disk, inode_bitmap >>, MemoryTold(g, open_inodes'),
         NEW i, dentries' = Append(dentries, Dentry(loc[p].parent, loc[p].name, i)),
         i \in DOMAIN open_inodes', open_inodes'[i].no \in g.kept, Walk(p, Len(dentries'))
  PROVE  NamesInv'
<1>1. PICK L, M : L = loc[p] /\ M = [child |-> Len(dentries')] ++ Restrict(L, DOMAIN L \ {"idx", "lba", "no"})
  OBVIOUS
<1>2. ~Written(L) /\ L.call \in {"open", "mkdir", "chdir"} /\ "call" \in DOMAIN L
  BY <1>1, WalksAt
<1>3. M.call = L.call /\ ~Written(M)
  BY <1>1, <1>2 DEF Restrict, Written, ++
<1>4. /\ pc'[p] = "walk" /\ loc'[p] = M
      /\ \A q \in Proc \ {p} : pc'[q] = pc[q] /\ loc'[q] = loc[q]
  BY <1>1, Goes_on DEF Walk
<1>5. Marks(f, g, pc'[p], loc'[p])
  BY <1>2, <1>3, <1>4, UnmarkedOK DEF Unmarked
<1>6. EntriesTold(f, g)
  <2>1. dentries \in Seq(Range(dentries))
    BY Same DEF Goes, Owners, Entered
  <2>2. \A d \in DOMAIN dentries' : d \in DOMAIN dentries \/ dentries'[d].inode = i
    BY <2>1, Appended DEF Dentry
  <2>3. \A d \in DOMAIN dentries' : d \in DOMAIN dentries \/ f.no[f.inode[d]] \in g.kept
    BY <2>2, Before_After
  <2>4. QED
    BY <2>3, LearnsNone, EntriesStand
<1>7. BlocksTold(f, g, disk'.block) /\ TableTold(g, disk'.itable)
  BY LearnsNone, BlocksStay DEF Goes, Knows
<1>8. QED
  BY <1>1, <1>2, <1>4, <1>5, <1>6, <1>7, QuietStep

\* A block of a directory has been read.
LEMMA SearchBlockNames ==
  ASSUME NEW e, NEW f, NEW g, Goes(e, f, g), NEW p \in Proc, KindsRespected, ~torn, search_block(p)
  PROVE  NamesInv'
<1>1. PICK L, b : L = loc[p] /\ b = DirAt(L.lba)
  OBVIOUS
<1>2. PICK hits : hits = { j \in DOMAIN b : b[j] # NULL /\ b[j].name = L.name }
  OBVIOUS
<1>3. PICK k : k = b[Min(hits)].no
  OBVIOUS
<1>4. pc[p] = "search" /\ UNCHANGED << disk, memory, cwd >>
  BY DEF search_block, Runs, At
<1>5. /\ ~Written(L) /\ L.call \in {"open", "mkdir", "chdir"} /\ {"call", "parent"} \subseteq DOMAIN L
      /\ L.parent \in DOMAIN dentries
  BY <1>1, <1>4, WalksAt
<1>6. Searches(e, g, "search", L) /\ Marks(f, g, "search", L)
  BY <1>1, <1>4, Before_After, MarksStay DEF Marks
<1>7. Knows(e, g)
  BY DEF Goes
<1>8. hits # {} => k \in g.kept /\ k \in g.used
  <2>1. ASSUME hits # {} PROVE k \in g.kept
    <3>1. /\ b = DirAt(loc[p].lba)
          /\ hits = { j \in DOMAIN b : b[j] # NULL /\ b[j].name = loc[p].name }
      BY <1>1, <1>2, <2>1
    <3>2. b[Min(hits)].no \in g.kept
      BY <1>4, <2>1, <3>1, HitKept
    <3>3. QED
      BY <1>3, <3>2
  <2>2. QED
    BY <1>7, <2>1 DEF Knows, Bits
<1>9. CASE UNCHANGED << dentries, pc, loc >>
  BY <1>4, <1>9, Stands DEF memory
<1>10. CASE search_from(p, L.parent, L.idx + 1, L) /\ UNCHANGED dentries
  <2>1. L.idx + 1 \in Nat /\ L.name \notin {".", ".."} /\ {"parent", "name", "call"} \subseteq DOMAIN L
    BY <1>5, <1>6 DEF Searches
  <2>2. UNCHANGED << disk, memory, dirs >> /\ L.call # "write" /\ ~Written(loc[p])
    BY <1>1, <1>4, <1>5, <1>10 DEF dirs
  <2>3. QED
    BY <1>5, <1>10, <2>1, <2>2, SearchFromNames
<1>11. CASE /\ hits # {} /\ Latest(k) # 0
            /\ dentries' = Append(dentries, Dentry(L.parent, L.name, Latest(k)))
            /\ Walk(p, Len(dentries'))
  <2>1. PICK i : i = Latest(k)
    OBVIOUS
  <2>2. i \in DOMAIN open_inodes /\ open_inodes[i].no = k
    BY <1>11, <2>1, LatestIs DEF Goes
  <2>3. UNCHANGED << disk, inode_bitmap, open_inodes >> /\ MemoryTold(g, open_inodes')
    BY <1>4, <1>7 DEF memory, Knows
  <2>4. QED
    BY <1>1, <1>4, <1>8, <1>11, <2>1, <2>2, <2>3, EntersNames
<1>12. CASE /\ hits # {} /\ Latest(k) = 0
            /\ Put(p, [no |-> k]) /\ ThenAt(p, "iget") /\ UNCHANGED dentries
  <2>1. PICK M : M = [no |-> k] ++ L
    OBVIOUS
  <2>2. k \in g.old
    <3>1. \A i \in DOMAIN open_inodes : open_inodes[i].no # k
      BY <1>12, LatestIs DEF Goes
    <3>2. QED
      BY <1>7, <1>8, <1>12, <3>1 DEF Knows, MemoryTold
  <2>3. M.no = k /\ M.call = L.call /\ ~Written(M) /\ "call" \in DOMAIN M
    BY <1>5, <2>1 DEF Written, ++
  <2>4. Searches(f, g, "iget", M)
    BY <1>8, <1>12, <2>2, <2>3 DEF Searches
  <2>5. Before(f, g, "iget", M) /\ After(f, g, "iget", M) /\ Restores(f, g, "iget", M)
    BY <2>3 DEF Before, Naming, After, Wrote, Restores
  <2>6. Fills(f, g, "iget", M)
    BY <1>5, <2>3 DEF Fills
  <2>7. /\ pc'[p] = "iget" /\ loc'[p] = M
        /\ \A q \in Proc \ {p} : pc'[q] = pc[q] /\ loc'[q] = loc[q]
    BY <1>1, <1>12, <2>1, Goes_on
  <2>8. Marks(f, g, pc'[p], loc'[p])
    BY <2>4, <2>5, <2>6, <2>7 DEF Marks
  <2>9. QED
    BY <1>1, <1>4, <1>5, <1>12, <2>7, <2>8, LocalQuiet DEF memory
<1>13. QED
  BY <1>1, <1>2, <1>3, <1>9, <1>10, <1>11, <1>12 DEF search_block, Panic

\* An inode has been read, and is linked: it was on the disk when the machine started.
LEMMA InodeOpenNames ==
  ASSUME NEW e, NEW f, NEW g, Goes(e, f, g), NEW p \in Proc, inode_open(p) PROVE NamesInv'
<1>1. PICK L, i : L = loc[p] /\ i = InMemory(disk, L.no)
  OBVIOUS
<1>2. /\ pc[p] = "iget" /\ UNCHANGED << disk, inode_bitmap >>
      /\ open_inodes' = Append(open_inodes, i)
      /\ dentries' = Append(dentries, Dentry(L.parent, L.name, Len(open_inodes')))
      /\ Walk(p, Len(dentries'))
  BY <1>1 DEF inode_open, Runs, At
<1>3. L.no \in g.old \cap g.kept
  <2>1. Marks(e, g, "iget", L)
    BY <1>1, <1>2, Before_After
  <2>2. QED
    BY <2>1 DEF Marks, Searches
<1>4. Knows(e, g) /\ L.no \in Ino
  <2>1. LocalsOK(e, "iget", L)
    BY <1>1, <1>2, Before_After
  <2>2. QED
    BY <2>1, LocalsAt DEF Goes, Looking
<1>5. i.no = L.no /\ i.dir = g.dir[L.no] /\ Plain(i) /\ L.no \in g.used
  BY <1>1, <1>3, <1>4 DEF Knows, Bits, TableTold, InMemory, Plain
<1>6. open_inodes \in Seq(Range(open_inodes))
  <2>1. open_inodes \in Seq(MemInode)
    BY Same DEF Goes, Owners, InMemoryOf
  <2>2. QED
    BY <2>1, SeqOfRange
<1>7. /\ Len(open_inodes') = Len(open_inodes) + 1 /\ DOMAIN open_inodes' = 1 .. Len(open_inodes) + 1
      /\ Len(open_inodes) \in Nat /\ DOMAIN open_inodes = 1 .. Len(open_inodes)
      /\ \A j \in DOMAIN open_inodes : open_inodes'[j] = open_inodes[j]
      /\ open_inodes'[Len(open_inodes) + 1] = i
  BY <1>2, <1>6, Appended
<1>8. MemoryTold(g, open_inodes')
  BY <1>4, <1>5, <1>7 DEF Knows, MemoryTold
<1>9. QED
  BY <1>1, <1>2, <1>3, <1>5, <1>7, <1>8, EntersNames

\* Inodes in memory have the fields of an inode.
LEMMA InodesTyped ==
  ASSUME NEW e, Seen(e)
  PROVE  /\ open_inodes \in Seq(MemInode) /\ open_inodes \in Seq(Range(open_inodes))
         /\ \A i \in DOMAIN open_inodes : open_inodes[i] \in MemInode
<1>1. open_inodes \in Seq(MemInode)
  BY Same DEF Owners, InMemoryOf
<1>2. QED
  BY <1>1, SeqOfRange, LenProperties, ElementOfSeq

\* One inode in memory changes, but not what it is.
LEMMA OneInode ==
  ASSUME NEW e, NEW f, NEW g, Goes(e, f, g), NEW i \in DOMAIN open_inodes, NEW y,
         open_inodes' = [open_inodes EXCEPT ![i] = y],
         y.no = open_inodes[i].no, y.dir = open_inodes[i].dir,
         open_inodes[i].dir => y.sectors[NDIRECT] = open_inodes[i].sectors[NDIRECT]
  PROVE  MemoryTold(g, open_inodes')
BY MemoryStays

\* A pointer changes,
LEMMA PointedTold ==
  ASSUME NEW e, NEW f, NEW g, Goes(e, f, g), NEW i \in DOMAIN open_inodes, NEW n, NEW b,
         open_inodes' = [open_inodes EXCEPT ![i].sectors[n] = b], open_inodes[i].dir => n # NDIRECT
  PROVE  MemoryTold(g, open_inodes')
<1>1. PICK y : y = [open_inodes[i] EXCEPT !.sectors[n] = b]
  OBVIOUS
<1>2. open_inodes[i] \in MemInode
  BY InodesTyped DEF Goes
<1>3. /\ y.no = open_inodes[i].no /\ y.dir = open_inodes[i].dir
      /\ open_inodes[i].dir => y.sectors[NDIRECT] = open_inodes[i].sectors[NDIRECT]
  BY <1>1, <1>2 DEF MemInode
<1>4. open_inodes' = [open_inodes EXCEPT ![i] = y]
  BY <1>1
<1>5. QED
  BY <1>3, <1>4, OneInode

\* or a size.
LEMMA ResizedTold ==
  ASSUME NEW e, NEW f, NEW g, Goes(e, f, g), NEW i \in DOMAIN open_inodes, NEW s,
         open_inodes' = [open_inodes EXCEPT ![i].size = s]
  PROVE  MemoryTold(g, open_inodes')
<1>1. PICK y : y = [open_inodes[i] EXCEPT !.size = s]
  OBVIOUS
<1>2. open_inodes[i] \in MemInode
  BY InodesTyped DEF Goes
<1>3. y.no = open_inodes[i].no /\ y.dir = open_inodes[i].dir /\ y.sectors = open_inodes[i].sectors
  BY <1>1, <1>2 DEF MemInode
<1>4. open_inodes' = [open_inodes EXCEPT ![i] = y]
  BY <1>1
<1>5. QED
  BY <1>3, <1>4, OneInode

\* A call that creates, at any of its labels before the inode is written back.
LEMMA CreatesAt ==
  ASSUME NEW e, NEW f, NEW g, Goes(e, f, g), NEW p \in Proc,
         \/ Naming(pc[p], loc[p])
         \/ pc[p] \in {"dot", "dot_write", "dirw_end"}
  PROVE  LET L == loc[p]
         IN /\ Creates(e, L) /\ Creates(f, L) /\ L.call \in {"open", "mkdir"}
            /\ {"call", "fd", "parent", "inode", "idx"} \subseteq DOMAIN L
            /\ L.parent \in DOMAIN dentries /\ L.inode \in DOMAIN open_inodes
            /\ Own(f, L) = Own(e, L) /\ Own(e, L) = open_inodes[L.inode].no /\ Own(e, L) \in g.used
            /\ Home(f, L) = Home(e, L) /\ Home(e, L) = open_inodes[dentries[L.parent].inode].no
            /\ Home(e, L) \in g.kept
            /\ Written(L) <=> ~Naming(pc[p], L)
<1>1. PICK L, l : L = loc[p] /\ l = pc[p]
  OBVIOUS
<1>2. LocalsOK(e, l, L) /\ LocalsOK(f, l, L)
  BY <1>1, Before_After, MarksStay
<1>3. Creates(e, L) /\ Creates(f, L)
  BY <1>1, <1>2, HasInode
<1>4. /\ L.call \in {"open", "mkdir"} /\ {"call", "fd", "parent", "inode", "idx"} \subseteq DOMAIN L
      /\ L.parent \in DOMAIN dentries /\ L.inode \in DOMAIN open_inodes
  BY <1>3, Before_After DEF Creates, Call_in, Inode_in
<1>5. Own(f, L) = Own(e, L) /\ Own(e, L) = open_inodes[L.inode].no /\ Own(e, L) \in g.used
  BY <1>4, Before_After DEF Own, Goes, Grows, Knows, MemoryTold
<1>6. /\ Home(f, L) = Home(e, L) /\ Home(e, L) = open_inodes[dentries[L.parent].inode].no
      /\ Home(e, L) \in g.kept
  BY <1>4, OfEntry DEF Home
<1>7. Written(L) <=> ~Naming(l, L)
  <2>1. Marks(e, g, l, L)
    BY <1>1, Before_After
  <2>2. Naming(l, L) => ~Written(L)
    BY <2>1, NotWritten
  <2>3. l \in {"dot", "dot_write", "dirw_end"} => Written(L)
    BY <2>1 DEF Marks, After, Wrote
  <2>4. QED
    BY <1>1, <2>2, <2>3
<1>8. QED
  BY <1>1, <1>3, <1>4, <1>5, <1>6, <1>7

\* It goes on before it has written its entry.
LEMMA NamingOn ==
  ASSUME NEW f, NEW g, NEW l, NEW L, Marks(f, g, l, L), Naming(l, L), Creates(f, L),
         NEW r, DOMAIN r \subseteq {"ret", "lba", "blk", "buf", "idx"}, NEW M, M = r ++ L,
         NEW m, Naming(m, M),
         m = "dirw_read" => OfInode(f, M, Home(f, L)),
         m = "dirw_write" => M.lba = 0 \/ OfInode(f, M, Home(f, L)),
         m = "dirw_write" /\ g.dir[Home(f, L)] => SaysBut(g, M.buf, Home(f, L), Own(f, L))
  PROVE  Marks(f, g, m, M) /\ ~Written(M) /\ ~Written(L)
<1>1. Before(f, g, l, L) /\ ~Written(L)
  BY NotWritten DEF Marks
<1>2. "name" \in DOMAIN L /\ g.named[Own(f, L)] = [dir |-> Home(f, L), name |-> L.name]
  BY <1>1 DEF Before
<1>3. /\ M.inode = L.inode /\ M.parent = L.parent /\ M.call = L.call /\ M.name = L.name
      /\ {"inode", "name", "call"} \subseteq DOMAIN M /\ ~Written(M) /\ L.call \in {"open", "mkdir"}
  BY <1>1, <1>2 DEF Creates, Inode_in, Call_in, Written, ++
<1>4. Own(f, M) = Own(f, L) /\ Home(f, M) = Home(f, L)
  BY <1>3 DEF Own, Home
<1>5. Before(f, g, m, M)
  BY <1>2, <1>3, <1>4 DEF Before
<1>6. ~Wrote(m, M) /\ m \notin {"isync_read", "isync_write", "created", "dot_write", "search", "iget", "fw_write"}
  BY DEF Naming, Wrote
<1>7. After(f, g, m, M) /\ Searches(f, g, m, M) /\ Restores(f, g, m, M) /\ Fills(f, g, m, M)
  BY <1>3, <1>6 DEF After, Searches, Restores, Fills
<1>8. QED
  BY <1>1, <1>3, <1>5, <1>7 DEF Marks

\* dir_write() looks for a block with room, or for a new one.
LEMMA DirWriteNames ==
  ASSUME NEW e, NEW f, NEW g, Goes(e, f, g), NEW p \in Proc, dir_write(p), UNCHANGED dirs
  PROVE  NamesInv'
<1>1. PICK L, b : L = loc[p] /\ b = DirInode(L.parent).sectors[L.idx]
  OBVIOUS
<1>2. pc[p] = "dirw" /\ UNCHANGED << disk, memory, dirs >>
  BY DEF dir_write, Runs, At
<1>3. Naming("dirw", L) /\ Marks(f, g, "dirw", L)
  BY <1>1, <1>2, MarksStay DEF Naming
<1>4. /\ Creates(f, L) /\ Creates(e, L) /\ Home(f, L) = Home(e, L)
      /\ L.parent \in DOMAIN dentries /\ "inode" \in DOMAIN L
  BY <1>1, <1>2, <1>3, CreatesAt
<1>5. ASSUME NEW r, DOMAIN r \subseteq {"ret", "lba"}, Put(p, r), NEW m, ThenAt(p, m), Naming(m, r ++ L),
             m # "dirw_write", m = "dirw_read" => OfInode(f, r ++ L, Home(f, L))
      PROVE  NamesInv'
  <2>1. PICK M : M = r ++ L
    OBVIOUS
  <2>2. Marks(f, g, m, M) /\ ~Written(L)
    BY <1>3, <1>4, <1>5, <2>1, NamingOn
  <2>3. /\ pc'[p] = m /\ loc'[p] = M
        /\ \A q \in Proc \ {p} : pc'[q] = pc[q] /\ loc'[q] = loc[q]
    BY <1>1, <1>5, <2>1, Goes_on
  <2>4. QED
    BY <1>1, <1>2, <2>2, <2>3, LocalQuiet DEF memory, dirs
<1>6. CASE UNCHANGED << pc, loc >>
  BY <1>2, <1>6, Stands DEF memory, dirs
<1>7. CASE Put(p, [ret |-> "dirw_zero"]) /\ ThenAt(p, "alloc")
  <2>1. PICK r : r = [ret |-> "dirw_zero"]
    OBVIOUS
  <2>2. DOMAIN r \subseteq {"ret", "lba"} /\ (r ++ L).ret = "dirw_zero"
    BY <2>1 DEF ++
  <2>3. Naming("alloc", r ++ L)
    BY <2>2 DEF Naming
  <2>4. QED
    BY <1>5, <1>7, <2>1, <2>2, <2>3
<1>8. CASE L.idx < NDIRECT /\ b # 0 /\ Put(p, [lba |-> b]) /\ ThenAt(p, "dirw_read")
  <2>1. PICK r, M : r = [lba |-> b] /\ M = r ++ L
    OBVIOUS
  <2>2. DOMAIN r \subseteq {"ret", "lba"} /\ M.lba = b
    BY <2>1 DEF ++
  <2>3. L.idx \in Pointers \ {NDIRECT}
    BY <1>4, <1>8, InodeAssumption DEF Creates, Pointers
  <2>4. Data_of(e, Home(e, L), b)
    BY <1>1, <1>4, <2>3, OfEntry DEF Home, DirInode
  <2>5. OfInode(f, M, Home(f, L))
    BY <1>4, <1>8, <2>2, <2>4 DEF OfInode, Data_of, Goes, Grows
  <2>6. Naming("dirw_read", M)
    BY DEF Naming
  <2>7. QED
    BY <1>5, <1>8, <2>1, <2>2, <2>5, <2>6
<1>9. QED
  BY <1>1, <1>6, <1>7, <1>8 DEF dir_write, Panic

\* A block of a directory with one more entry, of the call that writes it.
LEMMA FilledSays ==
  ASSUME NEW g, NEW p \in Proc, NEW k, NEW b, DOMAIN b = DOMAIN EmptyDir, FreePlaces(b) # {},
         \A j \in DOMAIN EmptyDir : b[j] = NULL \/ b[j].name \in {".", ".."}
           \/ (b[j].no \in g.kept /\ g.named[b[j].no] = [dir |-> k, name |-> b[j].name]),
         NEW no, no = open_inodes[loc[p].inode].no, g.named[no] = [dir |-> k, name |-> loc[p].name]
  PROVE  SaysBut(g, Filled(p, b), k, no)
<1>1. PICK c, j : c = Filled(p, b) /\ j = Min(FreePlaces(b))
  OBVIOUS
<1>2. j \in DOMAIN b
  <2>1. FreePlaces(b) \in SUBSET Nat
    BY DEF FreePlaces, EmptyDir
  <2>2. j \in FreePlaces(b)
    BY <1>1, <2>1, LeastIn
  <2>3. QED
    BY <2>2 DEF FreePlaces
<1>3. c = [b EXCEPT ![j] = Entry(p)]
  BY <1>1 DEF Filled
<1>4. PICK x : x = Entry(p)
  OBVIOUS
<1>5. x.name = loc[p].name /\ x.no = no
  BY <1>4 DEF Entry
<1>6. DOMAIN c = DOMAIN EmptyDir /\ \A i \in DOMAIN EmptyDir : c[i] = IF i = j THEN x ELSE b[i]
  BY <1>2, <1>3, <1>4
<1>7. ASSUME NEW y \in EntriesIn(c) PROVE y.no \in g.kept \cup {no} /\ g.named[y.no] = [dir |-> k, name |-> y.name]
  <2>1. PICK i \in DOMAIN EmptyDir : y = c[i] /\ y # NULL /\ y.name \notin {".", ".."}
    BY <1>7 DEF EntriesIn
  <2>2. CASE i = j
    BY <1>5, <1>6, <2>1, <2>2
  <2>3. CASE i # j
    BY <1>6, <2>1, <2>3
  <2>4. QED
    BY <2>2, <2>3
<1>8. QED
  BY <1>1, <1>6, <1>7 DEF SaysBut

\* The new block is pointed to.
LEMMA DirWriteZeroNames ==
  ASSUME NEW e, NEW f, NEW g, Goes(e, f, g), NEW p \in Proc, dir_write_zero(p) PROVE NamesInv'
<1>1. PICK L, c, i, r : /\ L = loc[p] /\ c = Filled(p, EmptyDir) /\ i = dentries[L.parent].inode
                        /\ r = [lba |-> L.blk, blk |-> 0, buf |-> c]
  OBVIOUS
<1>2. /\ pc[p] = "dirw_zero" /\ UNCHANGED << disk, block_bitmap, inode_bitmap, dirs >>
      /\ open_inodes' = [open_inodes EXCEPT ![i].sectors[L.idx] = L.blk]
      /\ Put(p, r) /\ ThenAt(p, "dirw_write")
  BY <1>1 DEF dir_write_zero, Runs, At
<1>3. PICK M : M = r ++ L
  OBVIOUS
<1>4. Naming("dirw_zero", L) /\ Naming("dirw_write", M) /\ Marks(f, g, "dirw_zero", L)
  BY <1>1, <1>2, MarksStay DEF Naming
<1>5. /\ Creates(f, L) /\ Creates(e, L) /\ Home(f, L) = Home(e, L) /\ L.parent \in DOMAIN dentries
      /\ "inode" \in DOMAIN L /\ Own(f, L) = open_inodes[L.inode].no
  BY <1>1, <1>2, <1>4, CreatesAt
<1>6. Awaits(e, "dirw_zero", L) /\ Given(e, "dirw_zero", L, e.synced)
  BY <1>1, <1>2, CreatingAt DEF Goes
<1>7. M.lba = L.blk /\ M.buf = c /\ DOMAIN r \subseteq {"ret", "lba", "blk", "buf", "idx"}
  BY <1>1, <1>3 DEF ++
<1>8. OfInode(f, M, Home(f, L))
  BY <1>5, <1>6, <1>7 DEF OfInode, Given, ForInode, Home, Goes, Grows
<1>9. SaysBut(g, c, Home(f, L), Own(f, L))
  <2>1. g.named[Own(f, L)] = [dir |-> Home(f, L), name |-> L.name]
    BY <1>4 DEF Marks, Before
  <2>2. FreePlaces(EmptyDir) # {}
    <3>1. 0 \in 0 .. DirSlots - 1
      BY InodeAssumption
    <3>2. 0 \in FreePlaces(EmptyDir)
      BY <3>1 DEF FreePlaces, EmptyDir
    <3>3. QED
      BY <3>2
  <2>3. PICK b, k, no : b = EmptyDir /\ k = Home(f, L) /\ no = Own(f, L)
    OBVIOUS
  <2>4. /\ DOMAIN b = DOMAIN EmptyDir /\ FreePlaces(b) # {}
        /\ \A j \in DOMAIN EmptyDir : b[j] = NULL
    BY <2>2, <2>3 DEF EmptyDir
  <2>5. \A j \in DOMAIN EmptyDir : b[j] = NULL \/ b[j].name \in {".", ".."}
          \/ (b[j].no \in g.kept /\ g.named[b[j].no] = [dir |-> k, name |-> b[j].name])
    BY <2>4
  <2>6. no = open_inodes[loc[p].inode].no /\ g.named[no] = [dir |-> k, name |-> loc[p].name]
    BY <1>1, <1>5, <2>1, <2>3
  <2>7. SaysBut(g, Filled(p, b), k, no)
    BY <2>4, <2>5, <2>6, FilledSays
  <2>8. QED
    BY <1>1, <2>3, <2>7
<1>10. Marks(f, g, "dirw_write", M) /\ ~Written(L)
  BY <1>3, <1>4, <1>5, <1>7, <1>8, <1>9, NamingOn
<1>11. /\ pc'[p] = "dirw_write" /\ loc'[p] = M
       /\ \A q \in Proc \ {p} : pc'[q] = pc[q] /\ loc'[q] = loc[q]
  BY <1>1, <1>2, <1>3, Goes_on
<1>12. MemoryTold(g, open_inodes')
  <2>1. i \in DOMAIN open_inodes /\ L.idx # NDIRECT
    BY <1>1, <1>5, <1>6, OfEntry DEF Awaits
  <2>2. QED
    BY <1>2, <2>1, PointedTold
<1>13. EntriesTold(f, g) /\ BlocksTold(f, g, disk'.block) /\ TableTold(g, disk'.itable)
  BY <1>2, LearnsNone, EntriesStand, BlocksStay DEF dirs, Goes, Knows
<1>14. QED
  BY <1>1, <1>2, <1>10, <1>11, <1>12, <1>13, QuietStep

\* The block has been read.
LEMMA DirWriteReadNames ==
  ASSUME NEW e, NEW f, NEW g, Goes(e, f, g), NEW p \in Proc, dir_write_read(p) PROVE NamesInv'
<1>1. PICK L, b, c, t : /\ L = loc[p] /\ b = DirAt(L.lba) /\ c = Filled(p, b)
                        /\ t = DirInode(L.parent).sectors[L.idx]
  OBVIOUS
<1>2. pc[p] = "dirw_read" /\ UNCHANGED << disk, memory, dirs >>
  BY DEF dir_write_read, Runs, At
<1>3. Naming("dirw_read", L) /\ Marks(f, g, "dirw_read", L) /\ Marks(e, g, "dirw_read", L)
  BY <1>1, <1>2, MarksStay, Before_After DEF Naming
<1>4. /\ Creates(f, L) /\ Creates(e, L) /\ Home(f, L) = Home(e, L) /\ Own(f, L) = Own(e, L)
      /\ "inode" \in DOMAIN L /\ Own(f, L) = open_inodes[L.inode].no
  BY <1>1, <1>2, <1>3, CreatesAt
<1>5. Before(e, g, "dirw_read", L) /\ Before(f, g, "dirw_read", L)
  BY <1>3 DEF Marks
<1>6. ASSUME NEW r, DOMAIN r \subseteq {"buf", "idx", "lba"}, Put(p, r), NEW m, ThenAt(p, m),
             m \in {"dirw", "dirw_write"},
             m = "dirw_write" => (r ++ L).lba = 0 \/ OfInode(f, r ++ L, Home(f, L)),
             m = "dirw_write" /\ g.dir[Home(f, L)] => SaysBut(g, (r ++ L).buf, Home(f, L), Own(f, L))
      PROVE  NamesInv'
  <2>1. PICK M : M = r ++ L
    OBVIOUS
  <2>6. Naming(m, M) /\ DOMAIN r \subseteq {"ret", "lba", "blk", "buf", "idx"}
    BY <1>6 DEF Naming
  <2>7. Marks(f, g, m, M) /\ ~Written(L)
    BY <1>3, <1>4, <1>6, <2>1, <2>6, NamingOn
  <2>8. /\ pc'[p] = m /\ loc'[p] = M
        /\ \A q \in Proc \ {p} : pc'[q] = pc[q] /\ loc'[q] = loc[q]
    BY <1>1, <1>6, <2>1, Goes_on
  <2>9. QED
    BY <1>1, <1>2, <2>7, <2>8, LocalQuiet DEF memory, dirs
<1>7. CASE UNCHANGED << pc, loc >>
  BY <1>2, <1>7, Stands DEF memory, dirs
<1>8. CASE FreePlaces(b) # {} /\ Put(p, [buf |-> c, lba |-> t]) /\ ThenAt(p, "dirw_write")
  <2>1. PICK r : r = [buf |-> c, lba |-> t]
    OBVIOUS
  <2>2. DOMAIN r \subseteq {"buf", "idx", "lba"} /\ (r ++ L).buf = c /\ (r ++ L).lba = t
    BY <2>1 DEF ++
  <2>5. t = 0 \/ OfInode(f, r ++ L, Home(f, L))
    <3>1. L.parent \in DOMAIN dentries /\ L.idx \in Pointers \ {NDIRECT}
      <4>1. LocalsOK(e, "dirw_read", L)
        BY <1>1, <1>2, Before_After
      <4>2. L.idx # NDIRECT
        BY <4>1, LocalsAt DEF Creating
      <4>3. QED
        BY <1>4, <4>2, Before_After DEF Creates
    <3>2. Data_of(e, Home(e, L), t)
      BY <1>1, <3>1, OfEntry DEF Home, DirInode
    <3>3. QED
      BY <1>4, <2>2, <3>2 DEF OfInode, Data_of, Goes, Grows
  <2>3. ASSUME g.dir[Home(f, L)] PROVE SaysBut(g, c, Home(f, L), Own(f, L))
    <3>1. L.lba \in e.synced /\ e.who[L.lba] = Home(e, L)
      BY <1>3, <1>5 DEF Before, OfInode
    <3>2. L.lba \in Block
      BY <3>1, Synced DEF Goes
    <3>5. g.named[Own(f, L)] = [dir |-> Home(f, L), name |-> L.name]
      BY <1>3, <1>5 DEF Before
    <3>3. CASE disk.block[L.lba] # Dirty
      <4>1. Says(g, b, Home(f, L)) /\ b # Dirty
        BY <1>1, <1>4, <2>3, <3>1, <3>2, <3>3 DEF Goes, Knows, BlocksTold, DirAt
      <4>2. \A j \in DOMAIN EmptyDir : b[j] = NULL \/ b[j].name \in {".", ".."}
               \/ (b[j].no \in g.kept /\ g.named[b[j].no] = [dir |-> Home(f, L), name |-> b[j].name])
        BY <4>1 DEF Says, EntriesIn
      <4>3. DOMAIN b = DOMAIN EmptyDir
        BY <4>1 DEF Says
      <4>4. QED
        BY <1>1, <1>4, <1>8, <3>5, <4>2, <4>3, FilledSays
    <3>4. CASE disk.block[L.lba] = Dirty
      <4>1. b = EmptyDir
        BY <1>1, <3>4 DEF DirAt
      <4>2. DOMAIN b = DOMAIN EmptyDir /\ \A j \in DOMAIN EmptyDir : b[j] = NULL
        BY <4>1 DEF EmptyDir
      <4>3. \A j \in DOMAIN EmptyDir : b[j] = NULL \/ b[j].name \in {".", ".."}
               \/ (b[j].no \in g.kept /\ g.named[b[j].no] = [dir |-> Home(f, L), name |-> b[j].name])
        BY <4>2
      <4>4. QED
        BY <1>1, <1>4, <1>8, <3>5, <4>2, <4>3, FilledSays
    <3>6. QED
      BY <3>3, <3>4
  <2>4. QED
    BY <1>6, <1>8, <2>1, <2>2, <2>3, <2>5
<1>9. CASE Put(p, [idx |-> L.idx + 1]) /\ ThenAt(p, "dirw")
  <2>1. PICK r : r = [idx |-> L.idx + 1]
    OBVIOUS
  <2>2. QED
    BY <1>6, <1>9, <2>1
<1>10. QED
  BY <1>1, <1>7, <1>8, <1>9 DEF dir_write_read

\* A call that has written its entry.
LEMMA MarksWrote ==
  ASSUME NEW f, NEW h, NEW m, NEW M, Wrote(m, M), m \notin {"created", "dot_write"}, Written(M),
         Call_in(M, {"open", "mkdir"}), Inode_in(f, M), Own(f, M) \in h.kept
  PROVE  Marks(f, h, m, M)
<1>1. /\ ~Naming(m, M)
      /\ m \notin {"search", "iget", "isync_read", "isync_write", "fw_write", "created", "dot_write"}
  BY DEF Wrote, Naming
<1>2. Before(f, h, m, M) /\ After(f, h, m, M)
  BY <1>1 DEF Before, After
<1>3. Searches(f, h, m, M) /\ Restores(f, h, m, M) /\ Fills(f, h, m, M)
  BY <1>1 DEF Searches, Restores, Fills, Call_in
<1>4. QED
  BY <1>2, <1>3 DEF Marks

\* The entry is written: from now on its inode is kept.
LEMMA DirWriteWriteNames ==
  ASSUME NEW e, NEW f, NEW g, Goes(e, f, g), NEW p \in Proc, dir_write_write(p) PROVE NamesInv'
<1>1. PICK L, o, m, M :
        /\ L = loc[p] /\ o = Own(e, L) /\ m = (IF open_inodes[L.inode].dir THEN "alloc" ELSE "dirw_end")
        /\ M = [buf |-> NULL, written |-> TRUE, ret |-> "dot"] ++ L
  OBVIOUS
<1>2. PICK h : h = [used |-> g.used, ibits |-> g.ibits, dir |-> g.dir, named |-> g.named,
                    kept |-> g.kept \cup {o}, old |-> g.old]
  OBVIOUS
<1>3. /\ pc[p] = "dirw_write" /\ UNCHANGED << memory, dirs >>
      /\ disk' = [disk EXCEPT !.block[L.lba] = L.buf]
      /\ pc'[p] = m /\ loc'[p] = M
      /\ \A q \in Proc \ {p} : pc'[q] = pc[q] /\ loc'[q] = loc[q]
  BY <1>1, Goes_on DEF dir_write_write, Runs, At
<1>4. Naming("dirw_write", L) /\ Marks(f, g, "dirw_write", L)
  BY <1>1, <1>3, MarksStay DEF Naming
<1>5. /\ Creates(f, L) /\ Home(f, L) \in g.kept /\ Own(f, L) = o /\ o \in g.used /\ ~Written(L)
      /\ L.call \in {"open", "mkdir"} /\ {"call", "inode"} \subseteq DOMAIN L
  BY <1>1, <1>3, <1>4, CreatesAt
<1>6. Learns(g, h)
  BY <1>2, LearnsNone DEF Learns
<1>7. disk'.ibits = disk.ibits /\ disk'.itable = disk.itable /\ DOMAIN disk.block = Block
  BY <1>3, Before_After DEF OnTheDisk
<1>8. \A b \in Block : disk'.block[b] = IF b = L.lba THEN L.buf ELSE disk.block[b]
  BY <1>3, <1>7, Before_After DEF OnTheDisk
<1>9. Bits(h)'
  BY <1>2, <1>3, <1>5, <1>7 DEF Bits, Goes, Knows, memory
<1>10. EntriesTold(f, h) /\ MemoryTold(h, open_inodes')
  BY <1>2, <1>3, <1>6, DiskQuiet
<1>11. TableTold(h, disk'.itable)
  BY <1>6, <1>7, LearnsSays DEF Goes, Knows
<1>12. BlocksTold(f, h, disk'.block)
  <2> SUFFICES ASSUME NEW b \in Block, disk'.block[b] # Dirty
               PROVE  f.who[b] \in h.kept /\ (h.dir[f.who[b]] => Says(h, disk'.block[b], f.who[b]))
    BY DEF BlocksTold
  <2>1. CASE b = L.lba
    <3>1. Before(f, g, "dirw_write", L)
      BY <1>4 DEF Marks
    <3>2. f.who[b] = Home(f, L)
      BY <1>4, <2>1, <3>1, InodeAssumption DEF Before, OfInode, Block
    <3>3. g.dir[Home(f, L)] => SaysBut(g, L.buf, Home(f, L), o)
      BY <1>4, <1>5, <3>1 DEF Before
    <3>4. h.dir[Home(f, L)] => Says(h, L.buf, Home(f, L))
      BY <1>2, <3>3 DEF Says, SaysBut
    <3>5. QED
      BY <1>2, <1>5, <1>8, <2>1, <3>2, <3>4
  <2>2. CASE b # L.lba
    BY <1>6, <1>8, <2>2, BlocksOn
  <2>3. QED
    BY <2>1, <2>2
<1>13. M.inode = L.inode /\ M.call = L.call /\ M.ret = "dot" /\ {"call", "inode"} \subseteq DOMAIN M /\ Written(M)
  BY <1>1, <1>5 DEF Written, ++
<1>14. Own(f, M) = o /\ Inode_in(f, M) /\ Call_in(M, {"open", "mkdir"}) /\ Wrote(m, M)
  BY <1>1, <1>5, <1>13 DEF Own, Inode_in, Call_in, Wrote, Creates
<1>15. Marks(f, h, m, M)
  <2>1. m \notin {"created", "dot_write"} /\ o \in h.kept
    BY <1>1, <1>2
  <2>2. QED
    BY <1>13, <1>14, <2>1, MarksWrote
<1>16. \A k \in h.kept \ disk'.ibits : k \in g.kept \/ (Written(loc'[p]) /\ Own(f, loc'[p]) = k)
  BY <1>2, <1>3, <1>13, <1>14
<1>17. ~Written(loc[p]) /\ Marks(f, h, pc'[p], loc'[p])
  BY <1>1, <1>3, <1>5, <1>15
<1>18. \A q \in Proc \ {p} : pc'[q] = pc[q] /\ loc'[q] = loc[q]
  BY <1>3
<1>19. QED
  BY <1>6, <1>9, <1>10, <1>11, <1>12, <1>16, <1>17, <1>18, KnowsStep

\* The block of a new directory says nothing of names,
LEMMA DotsSay ==
  ASSUME NEW no, NEW parent
  PROVE  DOMAIN Dots(no, parent) = DOMAIN EmptyDir /\ EntriesIn(Dots(no, parent)) = {}
<1>1. PICK c : c = Dots(no, parent)
  OBVIOUS
<1>2. DOMAIN c = DOMAIN EmptyDir
  BY <1>1 DEF Dots, EmptyDir
<1>3. \A j \in DOMAIN EmptyDir : c[j] = NULL \/ c[j].name \in {".", ".."}
  BY <1>1 DEF Dots, EmptyDir
<1>4. EntriesIn(c) = {}
  BY <1>3 DEF EntriesIn
<1>5. QED
  BY <1>1, <1>2, <1>4

\* is pointed to,
LEMMA DirWriteDotsNames ==
  ASSUME NEW e, NEW f, NEW g, Goes(e, f, g), NEW p \in Proc, dir_write_dots(p) PROVE NamesInv'
<1>1. PICK L, c, r, M : /\ L = loc[p] /\ c = Dots(Entry(p).no, DirInode(L.parent).no)
                        /\ r = [lba |-> L.blk, blk |-> 0, buf |-> c] /\ M = r ++ L
  OBVIOUS
<1>2. /\ pc[p] = "dot" /\ UNCHANGED << disk, block_bitmap, inode_bitmap, dirs >>
      /\ open_inodes' = [open_inodes EXCEPT ![L.inode].sectors[0] = L.blk, ![L.inode].size = 2]
      /\ pc'[p] = "dot_write" /\ loc'[p] = M
      /\ \A q \in Proc \ {p} : pc'[q] = pc[q] /\ loc'[q] = loc[q]
  BY <1>1, Goes_on DEF dir_write_dots, Runs, At
<1>3. /\ Creates(e, L) /\ Own(f, L) = Own(e, L) /\ Own(e, L) = open_inodes[L.inode].no
      /\ L.call \in {"open", "mkdir"} /\ {"call", "inode"} \subseteq DOMAIN L /\ L.inode \in DOMAIN open_inodes
  <2>1. pc[p] = "dot" /\ loc[p] = L
    BY <1>1, <1>2
  <2>2. /\ Creates(e, loc[p]) /\ Own(f, loc[p]) = Own(e, loc[p])
        /\ Own(e, loc[p]) = open_inodes[loc[p].inode].no /\ loc[p].call \in {"open", "mkdir"}
        /\ {"call", "inode"} \subseteq DOMAIN loc[p] /\ loc[p].inode \in DOMAIN open_inodes
    BY <2>1, CreatesAt
  <2>3. QED
    BY <2>1, <2>2
<1>4. Given(e, "dot", L, e.synced)
  BY <1>1, <1>2, CreatingAt DEF Goes
<1>5. After(f, g, "dot", L)
  BY <1>1, <1>2, MarksStay DEF Marks
<1>6. /\ M.lba = L.blk /\ M.buf = c /\ M.inode = L.inode /\ M.call = L.call
      /\ {"call", "inode"} \subseteq DOMAIN M /\ (Written(M) <=> Written(L))
  BY <1>1, <1>3 DEF Written, ++
<1>7. Own(f, M) = Own(f, L) /\ (Inode_in(f, M) <=> Inode_in(f, L))
  BY <1>3, <1>6 DEF Own, Inode_in
<1>8. OfInode(f, M, Own(f, M))
  BY <1>3, <1>4, <1>6, <1>7 DEF OfInode, Given, ForInode, Own, Goes, Grows
<1>9. After(f, g, "dot_write", M)
  <2>1. Written(L) /\ Inode_in(f, L) /\ Own(f, L) \in g.kept
    BY <1>5 DEF After, Wrote
  <2>2. DOMAIN M.buf = DOMAIN EmptyDir /\ EntriesIn(M.buf) = {}
    BY <1>1, <1>6, DotsSay
  <2>3. QED
    BY <1>3, <1>6, <1>7, <1>8, <2>1, <2>2 DEF After, Wrote, Call_in
<1>10. Marks(f, g, "dot_write", M)
  BY <1>3, <1>6, <1>9 DEF Marks, Before, Naming, Searches, Restores, Fills
<1>11. MemoryTold(g, open_inodes')
  <2>1. PICK y : y = [open_inodes[L.inode] EXCEPT !.sectors[0] = L.blk, !.size = 2]
    OBVIOUS
  <2>2. open_inodes[L.inode] \in MemInode
    BY <1>3, InodesTyped DEF Goes
  <2>3. /\ y.no = open_inodes[L.inode].no /\ y.dir = open_inodes[L.inode].dir
        /\ y.sectors[NDIRECT] = open_inodes[L.inode].sectors[NDIRECT]
    BY <2>1, <2>2, InodeAssumption DEF MemInode, Pointers
  <2>4. open_inodes' = [open_inodes EXCEPT ![L.inode] = y]
    BY <1>2, <2>1
  <2>5. QED
    BY <1>3, <2>3, <2>4, OneInode
<1>12. EntriesTold(f, g) /\ BlocksTold(f, g, disk'.block) /\ TableTold(g, disk'.itable)
  BY <1>2, LearnsNone, EntriesStand, BlocksStay DEF dirs, Goes, Knows
<1>13. QED
  BY <1>1, <1>2, <1>6, <1>10, <1>11, <1>12, QuietStep

\* and written.
LEMMA DotsWriteNames ==
  ASSUME NEW e, NEW f, NEW g, Goes(e, f, g), NEW p \in Proc, dir_write_dots_write(p) PROVE NamesInv'
<1>1. PICK L, M : L = loc[p] /\ M = [buf |-> NULL] ++ L
  OBVIOUS
<1>2. /\ pc[p] = "dot_write" /\ UNCHANGED << memory, dirs >>
      /\ disk' = [disk EXCEPT !.block[L.lba] = L.buf]
      /\ pc'[p] = "dirw_end" /\ loc'[p] = M
      /\ \A q \in Proc \ {p} : pc'[q] = pc[q] /\ loc'[q] = loc[q]
  BY <1>1, Goes_on DEF dir_write_dots_write, Runs, At
<1>3. /\ L.call \in {"open", "mkdir"} /\ {"call", "inode"} \subseteq DOMAIN L
  BY <1>1, <1>2, CreatesAt
<1>4. After(f, g, "dot_write", L)
  BY <1>1, <1>2, MarksStay DEF Marks
<1>5. Written(L) /\ Inode_in(f, L) /\ Own(f, L) \in g.kept
  BY <1>4 DEF After, Wrote
<1>6. disk'.ibits = disk.ibits /\ disk'.itable = disk.itable /\ DOMAIN disk.block = Block
  BY <1>2, Before_After DEF OnTheDisk
<1>7. \A b \in Block : disk'.block[b] = IF b = L.lba THEN L.buf ELSE disk.block[b]
  BY <1>2, <1>6, Before_After DEF OnTheDisk
<1>8. BlocksTold(f, g, disk'.block)
  <2> SUFFICES ASSUME NEW b \in Block, disk'.block[b] # Dirty
               PROVE  f.who[b] \in g.kept /\ (g.dir[f.who[b]] => Says(g, disk'.block[b], f.who[b]))
    BY DEF BlocksTold
  <2>1. CASE b = L.lba
    <3>1. f.who[b] = Own(f, L) /\ DOMAIN L.buf = DOMAIN EmptyDir /\ EntriesIn(L.buf) = {}
      BY <1>4, <2>1 DEF After, OfInode
    <3>2. QED
      BY <1>5, <1>7, <2>1, <3>1 DEF Says
  <2>2. CASE b # L.lba
    BY <1>7, <2>2, LearnsNone, BlocksOn
  <2>3. QED
    BY <2>1, <2>2
<1>9. /\ M.inode = L.inode /\ M.call = L.call /\ {"call", "inode"} \subseteq DOMAIN M /\ Written(M)
  BY <1>1, <1>3, <1>5 DEF Written, ++
<1>10. Own(f, M) = Own(f, L) /\ Inode_in(f, M) /\ Call_in(M, {"open", "mkdir"}) /\ Wrote("dirw_end", M)
  BY <1>3, <1>5, <1>9 DEF Own, Inode_in, Call_in, Wrote
<1>11. Marks(f, g, "dirw_end", M)
  BY <1>5, <1>9, <1>10, MarksWrote
<1>12. EntriesTold(f, g) /\ MemoryTold(g, open_inodes') /\ TableTold(g, disk'.itable)
  BY <1>2, <1>6, LearnsNone, DiskQuiet DEF Goes, Knows
<1>13. QED
  BY <1>1, <1>2, <1>6, <1>8, <1>9, <1>11, <1>12, QuietStep DEF memory

\* The end of dir_write(): the entry is cached, the inode will be written back.
LEMMA DirWrittenNames ==
  ASSUME NEW e, NEW f, NEW g, Goes(e, f, g), NEW p \in Proc, pc[p] = "dirw_end", NEW r, dir_written(p, r),
         DOMAIN r \subseteq {"call", "fd", "f", "written"}, Call_in(r, {"open", "mkdir"}), Written(r)
  PROVE  NamesInv'
<1>1. PICK L, d, j, M : /\ L = loc[p] /\ d = dentries[L.parent].inode /\ j = L.inode
                        /\ M = [inode |-> j, copy |-> OnDisk(j), ret |-> "ibsync"] ++ r
  OBVIOUS
<1>2. /\ UNCHANGED << disk, block_bitmap, inode_bitmap >>
      /\ dentries' = Append(dentries, Dentry(L.parent, L.name, j))
      /\ open_inodes' = [open_inodes EXCEPT ![d].size = @ + 1]
      /\ pc'[p] = "isync_read" /\ loc'[p] = M
      /\ \A q \in Proc \ {p} : pc'[q] = pc[q] /\ loc'[q] = loc[q]
  BY <1>1, Goes_on DEF dir_written, inode_sync
<1>3. /\ L.parent \in DOMAIN dentries /\ "inode" \in DOMAIN L /\ j \in DOMAIN open_inodes
  BY <1>1, CreatesAt
<1>4. Written(L) /\ Own(f, L) \in g.kept
  <2>1. Marks(f, g, "dirw_end", L)
    BY <1>1, MarksStay
  <2>2. QED
    BY <2>1 DEF Marks, After, Wrote
<1>5. d \in DOMAIN open_inodes
  BY <1>1, <1>3, OfEntry
<1>6. MemoryTold(g, open_inodes')
  <2>1. PICK s : s = open_inodes[d].size + 1
    OBVIOUS
  <2>2. open_inodes' = [open_inodes EXCEPT ![d].size = s]
    BY <1>2, <2>1
  <2>3. QED
    BY <1>5, <2>2, ResizedTold
<1>7. j \in DOMAIN open_inodes' /\ f.no[j] = open_inodes'[j].no /\ j \in DOMAIN f.no
  BY <1>2, <1>3, Before_After
<1>8. EntriesTold(f, g)
  <2>1. dentries \in Seq(Range(dentries))
    BY Same DEF Goes, Owners, Entered
  <2>2. \A c \in DOMAIN dentries' : c \in DOMAIN dentries \/ dentries'[c].inode = j
    BY <1>2, <2>1, Appended DEF Dentry
  <2>3. f.no[j] \in g.kept
    BY <1>1, <1>4 DEF Own
  <2>4. \A c \in DOMAIN dentries' : c \in DOMAIN dentries \/ f.no[f.inode[c]] \in g.kept
    BY <2>2, <2>3, Before_After
  <2>5. QED
    BY <2>4, LearnsNone, EntriesStand
<1>9. BlocksTold(f, g, disk'.block) /\ TableTold(g, disk'.itable)
  BY <1>2, LearnsNone, BlocksStay DEF Goes, Knows
<1>10. /\ M.inode = j /\ M.copy = OnDisk(j) /\ M.ret = "ibsync" /\ M.call = r.call
       /\ {"inode", "call"} \subseteq DOMAIN M /\ Written(M) /\ r.call \in {"open", "mkdir"}
  BY <1>1 DEF Written, Call_in, ++
<1>11. Own(f, M) = f.no[j] /\ Own(f, M) \in g.kept /\ Inode_in(f, M) /\ Call_in(M, {"open", "mkdir"})
  BY <1>1, <1>4, <1>7, <1>10 DEF Own, Inode_in, Call_in
<1>12. M.copy.dir = g.dir[Own(f, M)] /\ Plain(M.copy)
  BY <1>6, <1>7, <1>10, <1>11 DEF MemoryTold, Plain, OnDisk
<1>13. Marks(f, g, "isync_read", M)
  <2>1. Before(f, g, "isync_read", M) /\ Searches(f, g, "isync_read", M)
    BY DEF Before, Naming, Searches
  <2>2. After(f, g, "isync_read", M)
    BY <1>11 DEF After, Wrote
  <2>3. Restores(f, g, "isync_read", M) /\ Fills(f, g, "isync_read", M)
    BY <1>10, <1>11, <1>12 DEF Restores, Fills
  <2>4. QED
    BY <2>1, <2>2, <2>3 DEF Marks
<1>14. QED
  BY <1>1, <1>2, <1>6, <1>8, <1>9, <1>10, <1>13, QuietStep

\* An inode is taken for a new name: nobody else has it, and it gets no other name.
LEMMA CreateNames ==
  ASSUME NEW e, NEW f, NEW g, Goes(e, f, g), NEW p \in Proc, pc[p] = "walk", NEW dir \in BOOLEAN,
         create(p, dir), UNCHANGED dirs, loc[p].call \in {"open", "mkdir"}
  PROVE  NamesInv'
<1>1. PICK L, k : L = loc[p] /\ k = Min(Ino \ inode_bitmap)
  OBVIOUS
<1>2. PICK i, n, M : /\ i = [no |-> k, dir |-> dir, size |-> 0, sectors |-> NoBlocks]
                     /\ n = Len(open_inodes')
                     /\ M = [call |-> L.call, fd |-> L.fd, parent |-> L.parent,
                             name |-> L.name, inode |-> n, idx |-> 0]
  OBVIOUS
<1>3. CASE Ino \subseteq inode_bitmap
  BY <1>3, Stands DEF create, Panic, memory, dirs
<1>4. CASE ~(Ino \subseteq inode_bitmap)
  <2>1. k \in Ino \ inode_bitmap
    <3>1. Ino \ inode_bitmap \in SUBSET Nat /\ Ino \ inode_bitmap # {}
      BY <1>4, InodeAssumption DEF Ino
    <3>2. QED
      BY <1>1, <3>1, LeastIn
  <2>2. /\ inode_bitmap' = inode_bitmap \cup {k} /\ open_inodes' = Append(open_inodes, i)
        /\ UNCHANGED << disk, block_bitmap >>
        /\ pc'[p] = "dirw" /\ loc'[p] = M
        /\ \A q \in Proc \ {p} : pc'[q] = pc[q] /\ loc'[q] = loc[q]
    BY <1>1, <1>2, <1>4, Goes_on DEF create, inode_alloc, bitmap_scan
  <2>3. PICK home : home = Home(e, L)
    OBVIOUS
  <2>4. PICK h : h = [used |-> g.used \cup {k}, ibits |-> g.ibits, kept |-> g.kept, old |-> g.old,
                      dir |-> [x \in Ino |-> IF x = k THEN dir ELSE g.dir[x]],
                      named |-> [x \in Ino |-> IF x = k THEN [dir |-> home, name |-> L.name] ELSE g.named[x]]]
    OBVIOUS
  <2>5. Knows(e, g) /\ Bits(g) /\ g.used \subseteq Ino /\ k \notin g.used
    BY <2>1, Before_After DEF Goes, Knows, Bits
  <2>6. /\ h.dir[k] = dir /\ h.named[k] = [dir |-> home, name |-> L.name] /\ h.dir \in [Ino -> BOOLEAN]
        /\ \A x \in g.used : h.dir[x] = g.dir[x] /\ h.named[x] = g.named[x]
    BY <2>1, <2>4, <2>5 DEF Bits
  <2>7. Learns(g, h)
    BY <2>4, <2>5, <2>6 DEF Learns, Bits
  <2>8. Bits(h)'
    BY <2>2, <2>4, <2>5, <2>6 DEF Bits
  <2>9. open_inodes \in Seq(Range(open_inodes))
    BY InodesTyped DEF Goes
  <2>10. /\ Len(open_inodes) \in Nat /\ n = Len(open_inodes) + 1
         /\ DOMAIN open_inodes' = 1 .. n /\ DOMAIN open_inodes = 1 .. n - 1
         /\ \A j \in DOMAIN open_inodes : open_inodes'[j] = open_inodes[j]
         /\ open_inodes'[n] = i
    BY <1>2, <2>2, <2>9, Appended
  <2>11. Plain(i) /\ i.no = k /\ i.dir = dir
    BY <1>2, InodeAssumption DEF Plain, NoBlocks, Pointers
  <2>12. MemoryTold(h, open_inodes')
    <3>1. MemoryTold(g, open_inodes)
      BY <2>5 DEF Knows
    <3>2. ASSUME NEW j \in DOMAIN open_inodes'
          PROVE  /\ open_inodes'[j].no \in h.used /\ open_inodes'[j].dir = h.dir[open_inodes'[j].no]
                 /\ Plain(open_inodes'[j])
      <4>1. CASE j \in DOMAIN open_inodes
        <5>1. PICK x, o : x = open_inodes[j].no /\ o = open_inodes[j]
          OBVIOUS
        <5>2. x \in g.used /\ o.no = x /\ o.dir = g.dir[x] /\ Plain(o)
          BY <3>1, <4>1, <5>1 DEF MemoryTold
        <5>3. open_inodes'[j] = o
          BY <2>10, <4>1, <5>1
        <5>4. x \in h.used /\ h.dir[x] = g.dir[x]
          BY <2>4, <2>6, <5>2
        <5>5. QED
          BY <5>2, <5>3, <5>4
      <4>2. CASE j = n
        BY <2>4, <2>6, <2>10, <2>11, <4>2
      <4>3. QED
        BY <2>10, <4>1, <4>2
    <3>3. ASSUME NEW x \in h.used \ h.old PROVE \E j \in DOMAIN open_inodes' : open_inodes'[j].no = x
      <4>1. CASE x = k
        BY <2>10, <2>11, <4>1
      <4>2. CASE x # k
        <5>1. PICK j \in DOMAIN open_inodes : open_inodes[j].no = x
          BY <2>4, <3>1, <3>3, <4>2 DEF MemoryTold
        <5>2. QED
          BY <2>10, <5>1
      <4>3. QED
        BY <4>1, <4>2
    <3>4. QED
      BY <3>2, <3>3 DEF MemoryTold
  <2>13. EntriesTold(f, h) /\ BlocksTold(f, h, disk'.block)
    BY <2>2, <2>7, EntriesStand, BlocksStay DEF dirs
  <2>14. TableTold(h, disk'.itable)
    BY <2>2, <2>5, <2>7, LearnsSays DEF Knows
  <2>15. ~Written(L) /\ L.parent \in DOMAIN dentries
    BY <1>1, WalksAt
  <2>16. Marks(f, h, "dirw", M)
    <3>1. M.call = L.call /\ M.parent = L.parent /\ M.name = L.name /\ M.inode = n /\ "name" \in DOMAIN M /\ ~Written(M)
      BY <1>2 DEF Written
    <3>2. Own(f, M) = k
      <4>1. n \in DOMAIN open_inodes' /\ open_inodes'[n].no = k
        BY <2>10, <2>11
      <4>2. f.no[n] = open_inodes'[n].no
        BY <4>1, Before_After
      <4>3. QED
        BY <3>1, <4>1, <4>2 DEF Own
    <3>3. Home(f, M) = home
      BY <2>3, <2>15, <3>1, OfEntry DEF Home
    <3>4. Before(f, h, "dirw", M)
      BY <2>6, <3>1, <3>2, <3>3 DEF Before
    <3>5. After(f, h, "dirw", M) /\ Searches(f, h, "dirw", M) /\ Restores(f, h, "dirw", M)
      BY <3>1 DEF After, Wrote, Searches, Restores
    <3>6. Fills(f, h, "dirw", M)
      BY <1>1, <3>1 DEF Fills
    <3>7. QED
      BY <3>4, <3>5, <3>6 DEF Marks
  <2>17. \A x \in h.kept \ disk'.ibits : x \in g.kept
    BY <2>4
  <2>18. QED
    BY <1>1, <2>2, <2>7, <2>8, <2>12, <2>13, <2>14, <2>15, <2>16, <2>17, KnowsStep
<1>5. QED
  BY <1>3, <1>4

\* Nobody who is outside, walks a path, or reads or writes a file has written an entry.
LEMMA NothingWritten ==
  ASSUME NEW e, NEW f, NEW g, Goes(e, f, g), NEW p \in Proc, Unmarked(pc[p], loc[p])
  PROVE  ~Written(loc[p])
<1>1. Marks(e, g, pc[p], loc[p])
  BY Before_After
<1>2. QED
  BY <1>1, NotWritten

\* A call with a path begins,
LEMMA PathNames ==
  ASSUME NEW e, NEW f, NEW g, Goes(e, f, g), NEW p \in Proc, At(p, "out"),
         UNCHANGED << disk, memory, dirs >>, NEW r, NEW path, parse_path(p, r, path),
         "call" \in DOMAIN r, r.call # "write", ~Written(r)
  PROVE  NamesInv'
<1>1. PICK t, child, start :
        /\ Local(p, r ++ [path |-> t, parent |-> start, child |-> child, name |-> NULL])
        /\ ThenAt(p, "walk")
  BY DEF parse_path
<1>2. PICK L : L = r ++ [path |-> t, parent |-> start, child |-> child, name |-> NULL]
  OBVIOUS
<1>3. L.call = r.call /\ ~Written(L)
  BY <1>2 DEF Written, ++
<1>4. ~Written(loc[p])
  BY NothingWritten DEF At, Unmarked
<1>5. QED
  BY <1>1, <1>2, <1>3, <1>4, Unmarked_step DEF Unmarked, memory, dirs

\* and one returns: if it has written an entry, the bit of the inode is on the disk.
LEMMA ReturnNames ==
  ASSUME NEW e, NEW f, NEW g, Goes(e, f, g), NEW p \in Proc, Return(p),
         UNCHANGED << disk, memory, dentries >>, Unmarked(pc[p], loc[p]) \/ pc[p] = "created"
  PROVE  NamesInv'
<1>1. Knows(e, g) /\ Learns(g, g)
  BY LearnsNone DEF Goes
<1>2. /\ pc'[p] = "out" /\ loc'[p] = << >>
      /\ \A q \in Proc \ {p} : pc'[q] = pc[q] /\ loc'[q] = loc[q]
  BY Goes_on DEF Return
<1>3. Written(loc[p]) => Own(e, loc[p]) \in disk'.ibits
  <2>1. CASE Unmarked(pc[p], loc[p])
    BY <2>1, NothingWritten
  <2>2. CASE pc[p] = "created"
    <3>1. Marks(e, g, "created", loc[p])
      BY <2>2, Before_After
    <3>2. QED
      BY <1>1, <3>1 DEF Marks, After, Knows, Bits
  <2>3. QED
    BY <2>1, <2>2
<1>4. Marks(f, g, pc'[p], loc'[p])
  <2>1. PICK L : L = << >>
    OBVIOUS
  <2>2. DOMAIN L = {}
    BY <2>1
  <2>3. Unmarked("out", L) /\ ~Written(L) /\ "call" \notin DOMAIN L
    BY <2>2 DEF Unmarked, Written
  <2>4. QED
    BY <1>2, <2>1, <2>3, UnmarkedOK
<1>5. Bits(g)' /\ MemoryTold(g, open_inodes') /\ TableTold(g, disk'.itable)
  BY <1>1 DEF Knows, Bits, memory
<1>6. EntriesTold(f, g) /\ BlocksTold(f, g, disk'.block)
  BY <1>1, EntriesStand, BlocksStay
<1>7. QED
  BY <1>1, <1>2, <1>3, <1>4, <1>5, <1>6, KnowsStep

\* So each step of fs/dir.c leaves the names told.
LEMMA DirectoryNames ==
  ASSUME NEW e, NEW f, NEW g, Goes(e, f, g), NEW p \in Proc, KindsRespected, ~torn, DirectoryStep(p)
  PROVE  NamesInv'
<1>1. CASE dir_create(p)
  <2> DEFINE r == [call |-> "mkdir", written |-> TRUE]
  <2>1. DOMAIN r \subseteq {"call", "fd", "f", "written"} /\ Call_in(r, {"open", "mkdir"}) /\ Written(r)
    BY DEF Call_in, Written
  <2>2. dir_written(p, r) /\ pc[p] = "dirw_end"
    BY <1>1 DEF dir_create, Runs, At
  <2> HIDE DEF r
  <2>3. QED
    BY <2>1, <2>2, DirWrittenNames
<1>2. CASE mkdir_end(p)
  <2>1. Return(p) /\ UNCHANGED << disk, memory, dentries >> /\ pc[p] = "created"
    BY <1>2 DEF mkdir_end, dirs, Runs, At
  <2>2. QED
    BY <2>1, ReturnNames
<1>3. CASE \E path \in MkdirPaths : mkdir(p, path)
  <2>1. PICK path : mkdir(p, path)
    BY <1>3
  <2>2. PICK r : r = [call |-> "mkdir", fd |-> 0]
    OBVIOUS
  <2>3. "call" \in DOMAIN r /\ r.call # "write" /\ ~Written(r)
    BY <2>2 DEF Written
  <2>4. At(p, "out") /\ UNCHANGED << disk, memory, dirs >> /\ parse_path(p, r, path)
    BY <2>1, <2>2 DEF mkdir
  <2>5. QED
    BY <2>3, <2>4, PathNames
<1>4. CASE \E path \in ChdirPaths : chdir(p, path)
  <2>1. PICK path : chdir(p, path)
    BY <1>4
  <2>2. PICK r : r = [call |-> "chdir", fd |-> 0]
    OBVIOUS
  <2>3. "call" \in DOMAIN r /\ r.call # "write" /\ ~Written(r)
    BY <2>2 DEF Written
  <2>4. At(p, "out") /\ UNCHANGED << disk, memory, dirs >> /\ parse_path(p, r, path)
    BY <2>1, <2>2 DEF chdir
  <2>5. QED
    BY <2>3, <2>4, PathNames
<1>5. CASE sys_mkdirat(p)
  <2>1. UNCHANGED dirs /\ pc[p] = "walk" /\ loc[p].call = "mkdir"
    BY <1>5 DEF sys_mkdirat, Parsed, Runs, At
  <2>2. CASE UNCHANGED << disk, memory, pc, loc >>
    BY <2>1, <2>2, Stands DEF memory, dirs
  <2>3. CASE create(p, TRUE)
    BY <2>1, <2>3, CreateNames
  <2>4. QED
    BY <1>5, <2>2, <2>3 DEF sys_mkdirat, Panic
<1>6. CASE sys_chdir(p)
  <2>1. UNCHANGED << disk, memory, dentries >> /\ pc[p] = "walk"
    BY <1>6 DEF sys_chdir, Parsed, Runs, At
  <2>2. CASE UNCHANGED << pc, loc >>
    BY <2>1, <2>2, Stands DEF memory
  <2>3. CASE Return(p)
    BY <2>1, <2>3, ReturnNames DEF Unmarked
  <2>4. QED
    BY <1>6, <2>2, <2>3 DEF sys_chdir, Panic
<1>7. dir_write(p) => UNCHANGED dirs
  BY DEF dir_write
<1>8. QED
  BY <1>1, <1>2, <1>3, <1>4, <1>5, <1>6, <1>7, SearchDentryNames, SearchBlockNames, InodeOpenNames,
     DirWriteNames, DirWriteZeroNames, DirWriteReadNames, DirWriteWriteNames, DirWriteDotsNames,
     DotsWriteNames DEF DirectoryStep

\* The labels of a call that reads or writes a file.
Transferring ==
  {"fw_loop", "fw_slot", "fw_read", "fw_write", "fw_got", "fw_table", "tab_zero", "tab_read", "tab_write",
   "fr_loop", "fr_slot", "fr_read"}

\* What is known of such a call,
LEMMA FileCall ==
  ASSUME NEW e, NEW f, NEW g, Goes(e, f, g), NEW p \in Proc, pc[p] \in Transferring
  PROVE  LET L == loc[p]
         IN /\ "call" \in DOMAIN L /\ L.call \in {"write", "read"} /\ ~Written(L)
            /\ pc[p] \notin {"tab_read", "fr_loop", "fr_slot", "fr_read"} => L.call = "write"
            /\ L.call = "write" =>
                 /\ "inode" \in DOMAIN L /\ L.inode \in DOMAIN open_inodes
                 /\ Own(f, L) = Own(e, L) /\ Own(e, L) = open_inodes[L.inode].no
                 /\ Own(e, L) \in g.kept /\ Own(e, L) \in g.used
                 /\ open_inodes[L.inode].dir = g.dir[Own(e, L)]
<1>1. PICK L, l : L = loc[p] /\ l = pc[p]
  OBVIOUS
<1>2. LocalsOK(e, l, L) /\ Marks(e, g, l, L)
  BY <1>1, Before_After
<1>3. ~Written(L)
  BY <1>1, <1>2, NotWritten DEF Unmarked, Transferring
<1>4. /\ "call" \in DOMAIN L /\ L.call \in {"write", "read"}
      /\ l \notin {"tab_read", "fr_loop", "fr_slot", "fr_read"} => L.call = "write"
  <2>1. CASE l \in {"fw_loop", "fw_slot", "fw_read", "fw_write"}
    BY <1>2, <2>1, LocalsAt DEF Writing, WritesBlock, Writes, Call_in
  <2>2. CASE l \in {"fw_got", "fw_table"}
    <3>1. Allocating(e, l, L)
      BY <1>2, <2>2, LocalsAt
    <3>2. QED
      BY <2>2, <3>1 DEF Allocating, Awaits, WritesBlock, Writes, Call_in
  <2>3. CASE l \in {"tab_zero", "tab_write"}
    BY <1>2, <2>3, LocalsAt DEF WritingTable, Writes, Call_in
  <2>4. CASE l \in {"tab_read", "fr_loop", "fr_slot", "fr_read"}
    BY <1>2, <2>4, LocalsAt DEF WritingTable, Writes, Reading, Reads, Call_in
  <2>5. QED
    BY <1>1, <2>1, <2>2, <2>3, <2>4 DEF Transferring
<1>5. ASSUME L.call = "write"
      PROVE  /\ "inode" \in DOMAIN L /\ L.inode \in DOMAIN open_inodes
             /\ Own(f, L) = Own(e, L) /\ Own(e, L) = open_inodes[L.inode].no
             /\ Own(e, L) \in g.kept /\ Own(e, L) \in g.used
             /\ open_inodes[L.inode].dir = g.dir[Own(e, L)]
  <2>1. l # "fw_done"
    BY <1>1 DEF Transferring
  <2>2. Inode_in(e, L)
    BY <1>2, <1>4, <1>5, <2>1, HasInode
  <2>3. Own(e, L) \in g.kept
    BY <1>2, <1>4, <1>5, <2>1 DEF Marks, Fills
  <2>4. L.inode \in DOMAIN open_inodes /\ Own(e, L) = open_inodes[L.inode].no /\ Own(f, L) = Own(e, L)
    BY <2>2, Before_After DEF Inode_in, Own, Goes, Grows
  <2>5. QED
    BY <2>2, <2>3, <2>4 DEF Inode_in, Goes, Knows, MemoryTold
<1>6. QED
  BY <1>1, <1>3, <1>4, <1>5

\* and of what it goes on with.
LEMMA FileOn ==
  ASSUME NEW e, NEW f, NEW g, Goes(e, f, g), NEW p \in Proc, pc[p] \in Transferring,
         NEW r, {"call", "inode", "written"} \cap DOMAIN r = {}, NEW M, M = r ++ loc[p]
  PROVE  /\ "call" \in DOMAIN M /\ M.call = loc[p].call /\ ~Written(M)
         /\ M.call = "write" => "inode" \in DOMAIN M /\ M.inode = loc[p].inode
                                /\ Own(f, M) = Own(e, loc[p]) /\ Own(f, M) \in g.kept
         /\ \A x \in DOMAIN r : M[x] = r[x]
<1>1. PICK L : L = loc[p]
  OBVIOUS
<1>2. /\ "call" \in DOMAIN L /\ ~Written(L)
      /\ L.call = "write" => "inode" \in DOMAIN L /\ Own(f, L) = Own(e, L) /\ Own(e, L) \in g.kept
  BY <1>1, FileCall
<1>3. /\ "call" \in DOMAIN M /\ M.call = L.call /\ ~Written(M)
      /\ "inode" \in DOMAIN L => "inode" \in DOMAIN M /\ M.inode = L.inode
      /\ \A x \in DOMAIN r : M[x] = r[x]
  BY <1>1, <1>2 DEF Written, ++
<1>4. QED
  BY <1>1, <1>2, <1>3 DEF Own

\* It goes on to where nothing more needs to be known, without a change of an inode.
LEMMA FilePut ==
  ASSUME NEW e, NEW f, NEW g, Goes(e, f, g), NEW p \in Proc, pc[p] \in Transferring,
         UNCHANGED << disk, memory, dirs >>,
         NEW r, {"call", "inode", "written"} \cap DOMAIN r = {}, Put(p, r),
         NEW l, ThenAt(p, l),
         \/ l \in Transferring \cup {"fw_done"} /\ l # "fw_write"
         \/ l = "alloc" /\ "ret" \in DOMAIN r /\ r.ret \in {"fw_got", "fw_table"}
  PROVE  NamesInv'
<1>1. PICK M : M = r ++ loc[p]
  OBVIOUS
<1>2. /\ ~Written(M) /\ (M.call = "write" => Own(f, M) \in g.kept) /\ \A x \in DOMAIN r : M[x] = r[x]
  BY <1>1, FileOn
<1>3. Unmarked(l, M)
  BY <1>2 DEF Unmarked, Transferring
<1>4. Marks(f, g, l, M)
  BY <1>2, <1>3, UnmarkedOK
<1>5. /\ pc'[p] = l /\ loc'[p] = M
      /\ \A q \in Proc \ {p} : pc'[q] = pc[q] /\ loc'[q] = loc[q]
  BY <1>1, Goes_on
<1>6. ~Written(loc[p])
  BY FileCall
<1>7. QED
  BY <1>4, <1>5, <1>6, LocalQuiet DEF memory, dirs

\* The steps of a read,
LEMMA ReadNames ==
  ASSUME NEW e, NEW f, NEW g, Goes(e, f, g), NEW p \in Proc, read_loop(p) \/ read_slot(p) \/ read_read(p)
  PROVE  NamesInv'
<1>1. pc[p] \in Transferring /\ UNCHANGED << disk, memory, dirs >>
  BY DEF read_loop, read_slot, read_read, Runs, At, Transferring
<1>2. ASSUME NEW lba, read_block(p, lba) PROVE NamesInv'
  <2>1. CASE UNCHANGED << pc, loc >>
    BY <1>1, <2>1, Stands DEF memory, dirs
  <2>2. CASE Put(p, [lba |-> lba]) /\ ThenAt(p, "fr_read")
    <3>1. PICK r : r = [lba |-> lba]
      OBVIOUS
    <3>2. {"call", "inode", "written"} \cap DOMAIN r = {}
      BY <3>1
    <3>3. QED
      BY <1>1, <2>2, <3>1, <3>2, FilePut DEF Transferring
  <2>3. QED
    BY <1>2, <2>1, <2>2 DEF read_block, Panic
<1>3. CASE read_loop(p)
  <2>1. CASE read_block(p, Next_lba(p))
    BY <1>2, <2>1
  <2>2. CASE Put(p, [lba |-> Pointer(loc[p].inode, NDIRECT), ret |-> "fr_slot"]) /\ ThenAt(p, "tab_read")
    <3>1. PICK r : r = [lba |-> Pointer(loc[p].inode, NDIRECT), ret |-> "fr_slot"]
      OBVIOUS
    <3>2. {"call", "inode", "written"} \cap DOMAIN r = {}
      BY <3>1
    <3>3. QED
      BY <1>1, <2>2, <3>1, <3>2, FilePut DEF Transferring
  <2>3. QED
    BY <1>3, <2>1, <2>2 DEF read_loop
<1>4. CASE read_slot(p)
  <2>1. CASE read_block(p, InTable(p))
    BY <1>2, <2>1
  <2>2. CASE ThenAt(p, "fr_loop") /\ UNCHANGED loc
    <3>1. PICK L : L = loc[p]
      OBVIOUS
    <3>2. ~Written(L) /\ (L.call = "write" => Own(f, L) \in g.kept)
      BY <1>1, <3>1, FileCall
    <3>3. QED
      BY <1>1, <2>2, <3>1, <3>2, Unmarked_step DEF Unmarked, memory, dirs
  <2>3. QED
    BY <1>4, <2>1, <2>2 DEF read_slot
<1>5. CASE read_read(p)
  <2>1. PICK r : r = [got |-> loc[p].got \o
                        [k \in 1 .. Piece(p) |-> Contents(loc[p].lba)[Offset(p) + k - 1]],
                      lba |-> 0, at |-> loc[p].at + Piece(p)]
    OBVIOUS
  <2>2. {"call", "inode", "written"} \cap DOMAIN r = {}
    BY <2>1
  <2>3. Put(p, r) /\ ThenAt(p, "fr_loop")
    BY <1>5, <2>1 DEF read_read
  <2>4. QED
    BY <1>1, <2>2, <2>3, FilePut DEF Transferring
<1>6. QED
  BY <1>3, <1>4, <1>5

\* and those of a write that change no inode.
LEMMA WriteNames ==
  ASSUME NEW e, NEW f, NEW g, Goes(e, f, g), NEW p \in Proc,
         write_direct(p) \/ write_table(p) \/ write_zero_table(p) \/ write_slot(p) \/ table_read(p)
  PROVE  NamesInv'
<1>1. pc[p] \in Transferring /\ UNCHANGED << disk, memory, dirs >>
  BY DEF write_direct, write_table, write_zero_table, write_slot, table_read, Runs, At, Transferring
<1>2. ASSUME NEW r, DOMAIN r \subseteq {"ret", "sync2"}, Put(p, r), ThenAt(p, "alloc"),
             "ret" \in DOMAIN r, r.ret \in {"fw_got", "fw_table"}
      PROVE  NamesInv'
  <2>1. {"call", "inode", "written"} \cap DOMAIN r = {}
    BY <1>2
  <2>2. QED
    BY <1>1, <1>2, <2>1, FilePut
<1>3. ASSUME NEW r, DOMAIN r \subseteq {"lba", "ret", "tab", "sync2"}, Put(p, r),
             NEW l \in {"fw_read", "tab_read", "fw_loop", "fw_slot", "fr_slot"}, ThenAt(p, l)
      PROVE  NamesInv'
  <2>1. {"call", "inode", "written"} \cap DOMAIN r = {} /\ l \in Transferring /\ l # "fw_write"
    BY <1>3 DEF Transferring
  <2>2. QED
    BY <1>1, <1>3, <2>1, FilePut
<1>4. CASE write_direct(p)
  <2>1. PICK a, b : a = [ret |-> "fw_got"] /\ b = [lba |-> Next_lba(p)]
    OBVIOUS
  <2>2. \/ Put(p, a) /\ ThenAt(p, "alloc")
        \/ Put(p, b) /\ ThenAt(p, "fw_read")
    BY <1>4, <2>1 DEF write_direct
  <2>3. DOMAIN a = {"ret"} /\ a.ret = "fw_got" /\ DOMAIN b = {"lba"}
    BY <2>1
  <2>4. QED
    BY <1>2, <1>3, <2>2, <2>3
<1>5. CASE write_table(p)
  <2>1. PICK a, b : a = [ret |-> "fw_table"] /\ b = [lba |-> Pointer(loc[p].inode, NDIRECT), ret |-> "fw_slot"]
    OBVIOUS
  <2>2. \/ Put(p, a) /\ ThenAt(p, "alloc")
        \/ Put(p, b) /\ ThenAt(p, "tab_read")
    BY <1>5, <2>1 DEF write_table
  <2>3. DOMAIN a = {"ret"} /\ a.ret = "fw_table" /\ DOMAIN b = {"lba", "ret"}
    BY <2>1
  <2>4. QED
    BY <1>2, <1>3, <2>2, <2>3
<1>6. CASE write_zero_table(p)
  <2>1. PICK b : b = [tab |-> EmptyTab, sync2 |-> TRUE]
    OBVIOUS
  <2>2. DOMAIN b = {"tab", "sync2"} /\ Put(p, b) /\ ThenAt(p, "fw_slot")
    BY <1>6, <2>1 DEF write_zero_table
  <2>3. QED
    BY <1>3, <2>2
<1>7. CASE write_slot(p)
  <2>1. PICK a, b : a = [sync2 |-> loc[p].sync2 \/ Sec(p) > NDIRECT, ret |-> "fw_got"] /\ b = [lba |-> InTable(p)]
    OBVIOUS
  <2>2. \/ Put(p, a) /\ ThenAt(p, "alloc")
        \/ Put(p, b) /\ ThenAt(p, "fw_read")
    BY <1>7, <2>1 DEF write_slot
  <2>3. DOMAIN a = {"ret", "sync2"} /\ a.ret = "fw_got" /\ DOMAIN b = {"lba"}
    BY <2>1
  <2>4. QED
    BY <1>2, <1>3, <2>2, <2>3
<1>8. CASE table_read(p)
  <2>1. PICK b, L : b = [tab |-> TableAt(loc[p].lba)] /\ L = loc[p]
    OBVIOUS
  <2>2. Put(p, b) /\ ThenAt(p, L.ret)
    BY <1>8, <2>1 DEF table_read
  <2>3. DOMAIN b = {"tab"}
    BY <2>1
  <2>4. L.ret \in {"fw_loop", "fw_slot", "fr_slot"}
    <3>1. LocalsOK(e, "tab_read", L)
      BY <1>8, <2>1, Before_After DEF table_read, Runs, At
    <3>2. QED
      BY <3>1, LocalsAt DEF WritingTable, Reading
  <2>5. QED
    BY <1>3, <2>2, <2>3, <2>4
<1>9. QED
  BY <1>4, <1>5, <1>6, <1>7, <1>8

\* No directory is written to.
LEMMA WritesNoDirectory ==
  ASSUME NEW e, NEW f, NEW g, Goes(e, f, g), NEW p \in Proc, pc[p] \in Transferring,
         KindsRespected, ~torn, loc[p].call = "write"
  PROVE  ~open_inodes[loc[p].inode].dir /\ ~g.dir[Own(e, loc[p])]
<1>1. "call" \in DOMAIN loc[p] /\ open_inodes[loc[p].inode].dir = g.dir[Own(e, loc[p])]
  BY FileCall
<1>2. ~open_inodes[loc[p].inode].dir
  BY <1>1 DEF KindsRespected
<1>3. QED
  BY <1>1, <1>2

\* A pointer of the file is set.
LEMMA PointerNames ==
  ASSUME NEW e, NEW f, NEW g, Goes(e, f, g), NEW p \in Proc, pc[p] \in Transferring,
         KindsRespected, ~torn, loc[p].call = "write",
         UNCHANGED << disk, inode_bitmap, dirs >>,
         NEW n, NEW b, UNCHANGED open_inodes \/ open_inodes' = [open_inodes EXCEPT ![loc[p].inode].sectors[n] = b],
         NEW M, NEW r, {"call", "inode", "written"} \cap DOMAIN r = {}, M = r ++ loc[p],
         Local(p, M), ThenAt(p, "fw_read")
  PROVE  NamesInv'
<1>1. PICK i : i = loc[p].inode
  OBVIOUS
<1>2. i \in DOMAIN open_inodes /\ ~open_inodes[i].dir
  BY <1>1, FileCall, WritesNoDirectory
<1>3. MemoryTold(g, open_inodes')
  <2>1. CASE UNCHANGED open_inodes
    BY <2>1 DEF Goes, Knows
  <2>2. CASE open_inodes' = [open_inodes EXCEPT ![i].sectors[n] = b]
    BY <1>2, <2>2, PointedTold
  <2>3. QED
    BY <1>1, <2>1, <2>2
<1>4. EntriesTold(f, g) /\ BlocksTold(f, g, disk'.block) /\ TableTold(g, disk'.itable)
  BY LearnsNone, EntriesStand, BlocksStay DEF dirs, Goes, Knows
<1>5. ~Written(M) /\ M.call = "write" /\ Own(f, M) \in g.kept /\ ~Written(loc[p])
  BY FileOn, FileCall
<1>6. /\ pc'[p] = "fw_read" /\ loc'[p] = M
      /\ \A q \in Proc \ {p} : pc'[q] = pc[q] /\ loc'[q] = loc[q]
  BY Goes_on
<1>7. Marks(f, g, pc'[p], loc'[p])
  BY <1>5, <1>6, UnmarkedOK DEF Unmarked
<1>8. QED
  BY <1>3, <1>4, <1>5, <1>6, <1>7, QuietStep

\* write_file() takes the block that it has been given, into the inode or into the table;
LEMMA NewBlockNames ==
  ASSUME NEW e, NEW f, NEW g, Goes(e, f, g), NEW p \in Proc, KindsRespected, ~torn,
         write_new_table(p) \/ write_new_block(p)
  PROVE  NamesInv'
<1>1. pc[p] \in {"fw_table", "fw_got"} /\ UNCHANGED << disk, inode_bitmap, dirs >>
  BY DEF write_new_table, write_new_block, Runs, At
<1>2. pc[p] \in Transferring /\ loc[p].call = "write"
  BY <1>1, FileCall DEF Transferring
<1>3. CASE write_new_table(p)
  <2>1. PICK r, b, L : r = [x \in {} |-> 0] /\ b = loc[p].blk /\ L = loc[p]
    OBVIOUS
  <2>2. DOMAIN r = {}
    BY <2>1
  <2>3. "call" \in DOMAIN L
    BY <1>2, <2>1, FileCall
  <2>4. /\ open_inodes' = [open_inodes EXCEPT ![loc[p].inode].sectors[NDIRECT] = b]
        /\ UNCHANGED loc /\ ThenAt(p, "tab_zero")
    BY <1>3, <2>1 DEF write_new_table
  <2>5. ~Written(L) /\ Own(f, L) \in g.kept
    BY <1>2, <2>1, FileCall
  <2>6. /\ pc'[p] = "tab_zero" /\ loc'[p] = L
        /\ \A q \in Proc \ {p} : pc'[q] = pc[q] /\ loc'[q] = loc[q]
    BY <2>1, <2>4, Goes_on
  <2>7. Marks(f, g, pc'[p], loc'[p])
    BY <2>5, <2>6, UnmarkedOK DEF Unmarked
  <2>8. MemoryTold(g, open_inodes')
    <3>1. loc[p].inode \in DOMAIN open_inodes /\ ~open_inodes[loc[p].inode].dir
      BY <1>2, FileCall, WritesNoDirectory
    <3>2. QED
      BY <2>4, <3>1, PointedTold
  <2>9. EntriesTold(f, g) /\ BlocksTold(f, g, disk'.block) /\ TableTold(g, disk'.itable)
    BY <1>1, LearnsNone, EntriesStand, BlocksStay DEF dirs, Goes, Knows
  <2>10. QED
    BY <1>1, <2>1, <2>5, <2>6, <2>7, <2>8, <2>9, QuietStep
<1>4. CASE write_new_block(p)
  <2>1. PICK b, n : b = loc[p].blk /\ n = Sec(p)
    OBVIOUS
  <2>2. PICK a, c : a = [lba |-> b] /\ c = [lba |-> b, tab |-> [loc[p].tab EXCEPT ![n - NDIRECT] = b]]
    OBVIOUS
  <2>3. /\ {"call", "inode", "written"} \cap DOMAIN a = {} /\ {"call", "inode", "written"} \cap DOMAIN c = {}
    BY <2>2
  <2>4. /\ ThenAt(p, "fw_read")
        /\ \/ Put(p, a) /\ open_inodes' = [open_inodes EXCEPT ![loc[p].inode].sectors[n] = b]
           \/ Put(p, c) /\ UNCHANGED open_inodes
    BY <1>4, <2>1, <2>2 DEF write_new_block
  <2>5. PICK A, C : A = a ++ loc[p] /\ C = c ++ loc[p]
    OBVIOUS
  <2>6. CASE Put(p, a) /\ open_inodes' = [open_inodes EXCEPT ![loc[p].inode].sectors[n] = b]
    <3>1. Local(p, A)
      BY <2>5, <2>6 DEF Put, Local
    <3>2. QED
      BY <1>1, <1>2, <2>3, <2>4, <2>5, <2>6, <3>1, PointerNames
  <2>7. CASE Put(p, c) /\ UNCHANGED open_inodes
    <3>1. Local(p, C)
      BY <2>5, <2>7 DEF Put, Local
    <3>2. QED
      BY <1>1, <1>2, <2>3, <2>4, <2>5, <2>7, <3>1, PointerNames
  <2>8. QED
    BY <2>4, <2>6, <2>7
<1>5. QED
  BY <1>3, <1>4

\* The block has been read; it is written to a block of the file.
LEMMA WriteReadNames ==
  ASSUME NEW e, NEW f, NEW g, Goes(e, f, g), NEW p \in Proc, write_read(p) PROVE NamesInv'
<1>1. pc[p] = "fw_read" /\ UNCHANGED << disk, memory, dirs >> /\ pc[p] \in Transferring
  BY DEF write_read, Runs, At, Transferring
<1>2. PICK b, n : /\ n = Next_lba(p)
                  /\ b = [u \in 0 .. Units - 1 |-> IF u \in Offset(p) .. Offset(p) + Piece(p) - 1
                                                   THEN loc[p].datum ELSE Contents(loc[p].lba)[u]]
  OBVIOUS
<1>3. PICK r, M : r = [buf |-> b, lba |-> n] /\ M = r ++ loc[p]
  OBVIOUS
<1>4. /\ pc'[p] = "fw_write" /\ loc'[p] = M
      /\ \A q \in Proc \ {p} : pc'[q] = pc[q] /\ loc'[q] = loc[q]
  BY <1>2, <1>3, Goes_on DEF write_read
<1>5. /\ M.call = "write" /\ Own(f, M) = Own(e, loc[p]) /\ Own(f, M) \in g.kept /\ ~Written(M) /\ ~Written(loc[p])
      /\ M.lba = n
  BY <1>1, <1>3, FileOn, FileCall
<1>6. Data_of(e, Own(e, loc[p]), n)
  <2>1. WritesBlock(e, loc[p])
    BY <1>1, WritingAt DEF Goes
  <2>2. QED
    BY <1>2, <2>1, NextLba DEF Goes, Own
<1>7. M.lba = 0 \/ OfInode(f, M, Own(f, M))
  BY <1>5, <1>6 DEF Data_of, OfInode, Goes, Grows
<1>8. Marks(f, g, "fw_write", M)
  BY <1>5, <1>7 DEF Marks, Before, Naming, After, Wrote, Searches, Restores, Fills
<1>9. QED
  BY <1>1, <1>4, <1>5, <1>8, LocalQuiet DEF memory, dirs

\* What a block of a file holds does not matter here.
LEMMA StoredTold ==
  ASSUME NEW e, NEW f, NEW g, Goes(e, f, g), NEW b, NEW x, disk' = [disk EXCEPT !.block[b] = x],
         NEW k \in g.kept, ~g.dir[k], b = 0 \/ f.who[b] = k
  PROVE  BlocksTold(f, g, disk'.block) /\ TableTold(g, disk'.itable) /\ disk'.ibits = disk.ibits
<1>1. disk'.ibits = disk.ibits /\ disk'.itable = disk.itable /\ DOMAIN disk.block = Block
  BY Before_After DEF OnTheDisk
<1>2. \A c \in Block : disk'.block[c] = IF c = b THEN x ELSE disk.block[c]
  BY <1>1, Before_After DEF OnTheDisk
<1>3. ASSUME NEW c \in Block, disk'.block[c] # Dirty
      PROVE  f.who[c] \in g.kept /\ (g.dir[f.who[c]] => Says(g, disk'.block[c], f.who[c]))
  <2>1. CASE c = b
    <3>1. c # 0
      BY DEF Block
    <3>2. QED
      BY <2>1, <3>1
  <2>2. CASE c # b
    BY <1>2, <1>3, <2>2, LearnsNone, BlocksOn
  <2>3. QED
    BY <2>1, <2>2
<1>4. QED
  BY <1>1, <1>3 DEF BlocksTold, Goes, Knows

\* write_file() writes the data, to a block of a file and never of a directory.
LEMMA WriteWriteNames ==
  ASSUME NEW e, NEW f, NEW g, Goes(e, f, g), NEW p \in Proc, KindsRespected, ~torn, write_write(p)
  PROVE  NamesInv'
<1>1. PICK L, r, M : /\ L = loc[p] /\ r = [buf |-> NULL, blk |-> 0, lba |-> 0, at |-> L.at + Piece(p)]
                     /\ M = r ++ L
  OBVIOUS
<1>2. /\ pc[p] = "fw_write" /\ UNCHANGED << memory, dirs >>
      /\ disk' = [disk EXCEPT !.block[L.lba] = L.buf]
      /\ pc'[p] = "fw_loop" /\ loc'[p] = M
      /\ \A q \in Proc \ {p} : pc'[q] = pc[q] /\ loc'[q] = loc[q]
  BY <1>1, Goes_on DEF write_write, Runs, At
<1>3. pc[p] \in Transferring /\ loc[p].call = "write"
  BY <1>2, FileCall DEF Transferring
<1>4. {"call", "inode", "written"} \cap DOMAIN r = {}
  BY <1>1
<1>5. M.call = "write" /\ Own(f, M) \in g.kept /\ ~Written(M) /\ ~Written(L)
  BY <1>1, <1>3, <1>4, FileOn, FileCall
<1>6. ~g.dir[Own(e, L)] /\ Own(f, L) = Own(e, L) /\ Own(e, L) \in g.kept /\ "call" \in DOMAIN L
  BY <1>1, <1>3, FileCall, WritesNoDirectory
<1>7. L.lba = 0 \/ f.who[L.lba] = Own(e, L)
  <2>1. Marks(f, g, "fw_write", L)
    BY <1>1, <1>2, MarksStay
  <2>2. QED
    BY <1>6, <2>1 DEF Marks, Fills, OfInode
<1>8. BlocksTold(f, g, disk'.block) /\ TableTold(g, disk'.itable) /\ disk'.ibits = disk.ibits
  BY <1>2, <1>6, <1>7, StoredTold
<1>9. EntriesTold(f, g) /\ MemoryTold(g, open_inodes')
  BY <1>2, LearnsNone, DiskQuiet
<1>10. Marks(f, g, pc'[p], loc'[p])
  BY <1>2, <1>5, UnmarkedOK DEF Unmarked
<1>11. QED
  BY <1>1, <1>2, <1>5, <1>8, <1>9, <1>10, QuietStep DEF memory

\* The inode is copied to be written back, if the file has grown.
LEMMA SyncInodeNames ==
  ASSUME NEW e, NEW f, NEW g, Goes(e, f, g), NEW p \in Proc, pc[p] \in Transferring, loc[p].call = "write",
         NEW grew, SyncInode(p, grew), MemoryTold(g, open_inodes'), DOMAIN open_inodes' = DOMAIN open_inodes
  PROVE  Marks(f, g, pc'[p], loc'[p]) /\ \A q \in Proc \ {p} : pc'[q] = pc[q] /\ loc'[q] = loc[q]
<1>1. PICK L, j : L = loc[p] /\ j = L.inode
  OBVIOUS
<1>2. /\ j \in DOMAIN open_inodes /\ "inode" \in DOMAIN L /\ Own(f, L) = Own(e, L) /\ Own(e, L) \in g.kept
  BY <1>1, FileCall
<1>3. CASE inode_sync(p, [call |-> "write", f |-> L.f, end |-> L.end], j, "fw_done")
  <2>1. PICK r, M : /\ r = [call |-> "write", f |-> L.f, end |-> L.end]
                    /\ M = [inode |-> j, copy |-> OnDisk(j), ret |-> "fw_done"] ++ r
    OBVIOUS
  <2>2. /\ pc'[p] = "isync_read" /\ loc'[p] = M
        /\ \A q \in Proc \ {p} : pc'[q] = pc[q] /\ loc'[q] = loc[q]
    BY <1>3, <2>1, Goes_on DEF inode_sync
  <2>3. /\ M.inode = j /\ M.copy = OnDisk(j) /\ M.ret = "fw_done" /\ M.call = "write" /\ ~Written(M)
    BY <2>1 DEF Written, ++
  <2>4. Own(f, M) = Own(f, L) /\ Own(f, M) = open_inodes'[j].no
    BY <1>1, <1>2, <2>3, Before_After DEF Own
  <2>5. M.copy.dir = g.dir[Own(f, M)] /\ Plain(M.copy)
    BY <1>2, <2>3, <2>4 DEF MemoryTold, Plain, OnDisk
  <2>6. Marks(f, g, "isync_read", M)
    BY <1>2, <2>3, <2>4, <2>5 DEF Marks, Before, Naming, After, Wrote, Searches, Restores, Fills
  <2>7. QED
    BY <2>2, <2>6
<1>4. CASE Put(p, [tab |-> NULL]) /\ ThenAt(p, "fw_done")
  <2>1. PICK r, M : r = [tab |-> NULL] /\ M = r ++ loc[p]
    OBVIOUS
  <2>2. ~Written(M)
    BY <2>1, FileOn
  <2>3. /\ pc'[p] = "fw_done" /\ loc'[p] = M
        /\ \A q \in Proc \ {p} : pc'[q] = pc[q] /\ loc'[q] = loc[q]
    BY <1>4, <2>1, Goes_on
  <2>4. QED
    BY <2>2, <2>3, UnmarkedOK DEF Unmarked
<1>5. QED
  BY <1>1, <1>3, <1>4 DEF SyncInode

\* The end of the loop,
LEMMA WriteEndNames ==
  ASSUME NEW e, NEW f, NEW g, Goes(e, f, g), NEW p \in Proc, write_end(p) PROVE NamesInv'
<1>1. PICK L, i, s, grew : /\ L = loc[p] /\ i = L.inode /\ s = Max({open_inodes[i].size, L.end})
                           /\ grew = (Size(i) < L.end)
  OBVIOUS
<1>2. PICK r : r = [lba |-> Pointer(i, NDIRECT), sync2 |-> grew]
  OBVIOUS
<1>3. /\ pc[p] = "fw_loop" /\ UNCHANGED << disk, block_bitmap, inode_bitmap, dirs >>
      /\ open_inodes' = [open_inodes EXCEPT ![i].size = Max({@, L.end})]
      /\ (Put(p, r) /\ ThenAt(p, "tab_write")) \/ SyncInode(p, grew)
  BY <1>1, <1>2 DEF write_end, Runs, At
<1>4. pc[p] \in Transferring /\ loc[p].call = "write"
  BY <1>3, FileCall DEF Transferring
<1>5. i \in DOMAIN open_inodes
  BY <1>1, <1>4, FileCall
<1>6. open_inodes' = [open_inodes EXCEPT ![i].size = s]
  BY <1>1, <1>3
<1>7. MemoryTold(g, open_inodes') /\ DOMAIN open_inodes' = DOMAIN open_inodes
  BY <1>5, <1>6, ResizedTold
<1>8. EntriesTold(f, g) /\ BlocksTold(f, g, disk'.block) /\ TableTold(g, disk'.itable)
  BY <1>3, LearnsNone, EntriesStand, BlocksStay DEF dirs, Goes, Knows
<1>9. Marks(f, g, pc'[p], loc'[p]) /\ \A q \in Proc \ {p} : pc'[q] = pc[q] /\ loc'[q] = loc[q]
  <2>1. CASE Put(p, r) /\ ThenAt(p, "tab_write")
    <3>1. PICK M : M = r ++ loc[p]
      OBVIOUS
    <3>2. {"call", "inode", "written"} \cap DOMAIN r = {}
      BY <1>2
    <3>3. ~Written(M) /\ M.call = "write" /\ Own(f, M) \in g.kept
      BY <1>4, <3>1, <3>2, FileOn
    <3>4. /\ pc'[p] = "tab_write" /\ loc'[p] = M
          /\ \A q \in Proc \ {p} : pc'[q] = pc[q] /\ loc'[q] = loc[q]
      BY <2>1, <3>1, Goes_on
    <3>5. QED
      BY <3>3, <3>4, UnmarkedOK DEF Unmarked
  <2>2. CASE SyncInode(p, grew)
    BY <1>4, <1>7, <2>2, SyncInodeNames
  <2>3. QED
    BY <1>3, <2>1, <2>2
<1>10. ~Written(loc[p])
  BY <1>4, FileCall
<1>11. QED
  BY <1>3, <1>7, <1>8, <1>9, <1>10, QuietStep

\* and the write of the table.
LEMMA TableBackNames ==
  ASSUME NEW e, NEW f, NEW g, Goes(e, f, g), NEW p \in Proc, KindsRespected, ~torn, write_table_back(p)
  PROVE  NamesInv'
<1>1. PICK L, grew : L = loc[p] /\ grew = L.sync2
  OBVIOUS
<1>2. /\ pc[p] = "tab_write" /\ UNCHANGED << memory, dirs >>
      /\ disk' = [disk EXCEPT !.block[L.lba] = L.tab] /\ SyncInode(p, grew)
  BY <1>1 DEF write_table_back, Runs, At
<1>3. pc[p] \in Transferring /\ loc[p].call = "write"
  BY <1>2, FileCall DEF Transferring
<1>4. ~g.dir[Own(e, L)] /\ Own(e, L) \in g.kept
  BY <1>1, <1>3, FileCall, WritesNoDirectory
<1>5. L.lba = 0 \/ f.who[L.lba] = Own(e, L)
  <2>1. Tab_of(e, e.no[L.inode], L.lba)
    BY <1>1, <1>2, WritingAt DEF Goes
  <2>2. QED
    BY <2>1 DEF Tab_of, Own, Goes, Grows
<1>6. BlocksTold(f, g, disk'.block) /\ TableTold(g, disk'.itable) /\ disk'.ibits = disk.ibits
  BY <1>2, <1>4, <1>5, StoredTold
<1>7. EntriesTold(f, g) /\ MemoryTold(g, open_inodes') /\ DOMAIN open_inodes' = DOMAIN open_inodes
  BY <1>2, LearnsNone, DiskQuiet DEF memory
<1>8. Marks(f, g, pc'[p], loc'[p]) /\ \A q \in Proc \ {p} : pc'[q] = pc[q] /\ loc'[q] = loc[q]
  BY <1>2, <1>3, <1>7, SyncInodeNames
<1>9. ~Written(loc[p])
  BY <1>3, FileCall
<1>10. QED
  BY <1>2, <1>6, <1>7, <1>8, <1>9, QuietStep DEF memory

\* A read or a write begins, with the inode of its descriptor: it has an entry.
LEMMA BeginNames ==
  ASSUME Descriptors, NEW e, NEW f, NEW g, Goes(e, f, g), NEW p \in Proc, NEW fd, NEW n,
         (\E v : write(p, fd, n, v)) \/ read(p, fd, n)
  PROVE  NamesInv'
<1>1. PICK s, i : s = fd_array[fd] /\ i = FileInode(s)
  OBVIOUS
<1>2. UNCHANGED << disk, memory, dirs >> /\ pc[p] = "out" /\ fd \in Returned
  BY DEF write, read, Idle, At
<1>3. ~Written(loc[p])
  BY <1>2, NothingWritten DEF Unmarked
<1>4. f.no[i] \in g.kept
  <2>1. PICK d : d = file_table[s].f_dentry
    OBVIOUS
  <2>2. d \in DOMAIN dentries /\ i = dentries[d].inode
    BY <1>1, <1>2, <2>1, FileOf DEF Goes, FileInode
  <2>3. e.no[e.inode[d]] \in g.kept /\ f.no[f.inode[d]] = e.no[e.inode[d]] /\ e.inode[d] = i /\ d \in DOMAIN e.inode
    BY <2>2, OfEntry
  <2>4. f.inode[d] = e.inode[d]
    BY <2>3 DEF Goes, Grows
  <2>5. QED
    BY <2>3, <2>4
<1>5. ASSUME NEW L, L.inode = i, ~Written(L), "lba" \notin DOMAIN L, NEW loop, NEW slot, Begin(p, L, loop, slot),
             loop \in {"fw_loop", "fr_loop"}, {"inode", "call"} \subseteq DOMAIN L
      PROVE  NamesInv'
  <2>1. PICK r : r = [lba |-> Pointer(i, NDIRECT), ret |-> slot]
    OBVIOUS
  <2>2. PICK M : M = r ++ L
    OBVIOUS
  <2>3. \/ Local(p, L) /\ ThenAt(p, loop)
        \/ UNCHANGED << pc, loc >>
        \/ Local(p, M) /\ ThenAt(p, "tab_read")
    BY <1>5, <2>1, <2>2 DEF Begin, Panic
  <2>4. M.inode = i /\ ~Written(M)
    BY <1>5, <2>1, <2>2 DEF Written, ++
  <2>5. Own(f, L) \in g.kept /\ Own(f, M) \in g.kept
    BY <1>4, <1>5, <2>4 DEF Own
  <2>6. CASE UNCHANGED << pc, loc >>
    BY <1>2, <2>6, Stands DEF memory, dirs
  <2>7. CASE Local(p, L) /\ ThenAt(p, loop)
    BY <1>2, <1>3, <1>5, <2>5, <2>7, Unmarked_step DEF Unmarked, memory, dirs
  <2>8. CASE Local(p, M) /\ ThenAt(p, "tab_read")
    BY <1>2, <1>3, <2>4, <2>5, <2>8, Unmarked_step DEF Unmarked, memory, dirs
  <2>9. QED
    BY <2>3, <2>6, <2>7, <2>8
<1>6. CASE \E v : write(p, fd, n, v)
  <2>1. PICK v : write(p, fd, n, v)
    BY <1>6
  <2>2. PICK pos, L : /\ pos = file_table[s].pos
                      /\ L = [call |-> "write", f |-> s, inode |-> i, datum |-> v,
                              at |-> pos, end |-> pos + n, tab |-> NULL, sync2 |-> FALSE]
    OBVIOUS
  <2>3. L.inode = i /\ ~Written(L) /\ "lba" \notin DOMAIN L /\ {"inode", "call"} \subseteq DOMAIN L
    BY <2>2 DEF Written
  <2>4. Begin(p, L, "fw_loop", "fw_loop")
    BY <1>1, <2>1, <2>2 DEF write
  <2>5. QED
    BY <1>5, <2>3, <2>4
<1>7. CASE read(p, fd, n)
  <2>1. PICK pos, L : /\ pos = file_table[s].pos
                      /\ L = [call |-> "read", f |-> s, inode |-> i, at |-> pos,
                              start |-> pos, n |-> n, end |-> Min({Size(i), pos + n}), tab |-> NULL,
                              got |-> << >>]
    OBVIOUS
  <2>2. L.inode = i /\ ~Written(L) /\ "lba" \notin DOMAIN L /\ {"inode", "call"} \subseteq DOMAIN L
    BY <2>1 DEF Written
  <2>3. UNCHANGED << pc, loc >> \/ Begin(p, L, "fr_loop", "fr_slot")
    BY <1>1, <1>7, <2>1 DEF read, Panic
  <2>4. CASE UNCHANGED << pc, loc >>
    BY <1>2, <2>4, Stands DEF memory, dirs
  <2>5. QED
    BY <1>5, <2>2, <2>3, <2>4
<1>8. QED
  BY <1>6, <1>7

\* So each step of fs/file.c leaves the names told.
LEMMA FileNames ==
  ASSUME Descriptors, NEW e, NEW f, NEW g, Goes(e, f, g), NEW p \in Proc, KindsRespected, ~torn, FileStep(p)
  PROVE  NamesInv'
<1>1. CASE \E path \in OpenPaths, creat \in Creat : open(p, path, creat)
  <2>1. PICK path, creat : open(p, path, creat)
    BY <1>1
  <2>2. PICK r : r = [call |-> "open", fd |-> Min(Fd \ open_fds), creat |-> creat]
    OBVIOUS
  <2>3. "call" \in DOMAIN r /\ r.call # "write" /\ ~Written(r)
    BY <2>2 DEF Written
  <2>4. At(p, "out") /\ UNCHANGED << disk, memory, dirs >> /\ parse_path(p, r, path)
    BY <2>1, <2>2 DEF open, Idle
  <2>5. QED
    BY <2>3, <2>4, PathNames
<1>2. CASE \/ filp_openat_none(p) \/ filp_openat(p) \/ install_fd(p) \/ write_done(p)
           \/ read_end(p) /\ Return(p)
  <2>1. Return(p) /\ UNCHANGED << disk, memory, dentries >> /\ pc[p] \in {"walk", "created", "fw_done", "fr_loop"}
    BY <1>2 DEF filp_openat_none, filp_openat, install_fd, write_done, read_end, Parsed, Runs, At, dirs
  <2>2. QED
    BY <2>1, ReturnNames DEF Unmarked
<1>8. CASE \/ filp_openat_slash(p) \/ write_too_much(p)
           \/ read_end(p) /\ UNCHANGED << pc, loc >>
  <2>1. UNCHANGED << disk, inode_bitmap, open_inodes, pc, loc, dentries >>
    BY <1>8 DEF filp_openat_slash, write_too_much, read_end, Panic, memory, dirs
  <2>2. QED
    BY <2>1, Stands
<1>9. read_end(p) => Return(p) \/ UNCHANGED << pc, loc >>
  BY DEF read_end, Panic
<1>3. CASE filp_openat_create(p)
  <2>1. UNCHANGED dirs /\ pc[p] = "walk" /\ loc[p].call = "open" /\ create(p, FALSE)
    BY <1>3 DEF filp_openat_create, Parsed, Runs, At
  <2>2. QED
    BY <2>1, CreateNames
<1>4. CASE file_create(p)
  <2>1. PICK r : r = [call |-> "open", fd |-> loc[p].fd, f |-> get_free_file, written |-> TRUE]
    OBVIOUS
  <2>2. DOMAIN r \subseteq {"call", "fd", "f", "written"} /\ Call_in(r, {"open", "mkdir"}) /\ Written(r)
    BY <2>1 DEF Call_in, Written
  <2>3. dir_written(p, r) /\ pc[p] = "dirw_end"
    BY <1>4, <2>1 DEF file_create, Runs, At
  <2>4. QED
    BY <2>2, <2>3, DirWrittenNames
<1>5. CASE \E fd \in Fd : close(p, fd)
  <2>1. UNCHANGED << disk, inode_bitmap, open_inodes, pc, loc >> /\ DOMAIN dentries' = DOMAIN dentries
    BY <1>5 DEF close, Panic, control, memory
  <2>2. QED
    BY <2>1, Stands
<1>6. CASE \/ \E fd \in Fd, n \in WriteCounts, v \in Data : write(p, fd, n, v)
           \/ \E fd \in Fd, n \in ReadCounts : read(p, fd, n)
  BY <1>6, BeginNames
<1>7. QED
  BY <1>1, <1>2, <1>3, <1>4, <1>5, <1>6, <1>8, <1>9, WriteNames, NewBlockNames, WriteReadNames,
     WriteWriteNames, WriteEndNames, TableBackNames, ReadNames DEF FileStep

\* Nothing of this changes.
LEMMA NamesStay == ASSUME NamesInv, UNCHANGED << disk, memory, control, dirs >> PROVE NamesInv'
<1>1. PICK e, g : Seen(e) /\ Knows(e, g)
  BY DEF NamesInv
<1>2. UNCHANGED << disk, block_bitmap, inode_bitmap, open_inodes, dentries, cwd, pc, loc >>
  BY DEF memory, control, dirs
<1>3. Seen(e)'
  <2>1. PICK who \in [Block -> Ino], tabs \in SUBSET Block : e = View(who, tabs) /\ Owners(e)
    BY <1>1 DEF Seen
  <2>2. e = View(who, tabs)'
    BY <1>2, <2>1 DEF View
  <2>3. Owners(e)'
    BY <1>2, <2>1 DEF Owners
  <2>4. QED
    BY <2>2, <2>3 DEF Seen
<1>4. Knows(e, g)'
  BY <1>1, <1>2 DEF Knows, Bits, Underway
<1>5. QED
  BY <1>3, <1>4 DEF NamesInv

\* Every step but a reset, of calls that respect what names stand for.
LEMMA NamesStep == ASSUME Descriptors, KindsRespected, ~torn, NamesInv, Next, ~Reset PROVE NamesInv'
<1>1. PICK e, g : Seen(e) /\ Knows(e, g)
  BY DEF NamesInv
<1>2. PICK f : Grows(e, f) /\ Seen(f)'
  BY <1>1, GrownStep DEF Grown
<1>3. Goes(e, f, g)
  BY <1>1, <1>2 DEF Goes
<1>4. PICK p \in Proc : \/ InodeStep(p) /\ UNCHANGED << dirs, files, reset >>
                        \/ DirectoryStep(p) /\ UNCHANGED << files, reset >>
                        \/ FileStep(p) /\ UNCHANGED reset
                        \/ Misread(p)
  BY DEF Next
<1>5. Misread(p) => NamesInv'
  BY NamesStay DEF Misread
<1>6. QED
  BY <1>3, <1>4, <1>5, InodeNames, DirectoryNames, FileNames

\* Nothing needs to be known of who is outside.
LEMMA OutsideMarks == ASSUME NEW f, NEW g PROVE Marks(f, g, "out", << >>)
<1>1. PICK L : L = << >>
  OBVIOUS
<1>2. DOMAIN L = {}
  BY <1>1
<1>3. Unmarked("out", L) /\ ~Written(L) /\ "call" \notin DOMAIN L
  BY <1>2 DEF Unmarked, Written
<1>4. QED
  BY <1>1, <1>3, UnmarkedOK

\* The machine is reset when no call has written an entry it has not finished: every
\* inode that an entry names has its bit on the disk.
LEMMA NamesReset == ASSUME NamesInv, Reset, ~torn' PROVE NamesInv'
<1>1. PICK e, g : Seen(e) /\ Knows(e, g)
  BY DEF NamesInv
<1>2. PICK f : f.who = e.who /\ Seen(f)'
  BY <1>1, ResetSeen
<1>3. /\ disk' = disk /\ inode_bitmap' = disk.ibits /\ open_inodes' = << InMemory(disk, 0) >>
      /\ dentries' = << RootDentry >> /\ pc' = [p \in Proc |-> "out"] /\ loc' = [p \in Proc |-> << >>]
      /\ \A p \in Proc : ~Written(loc[p])
  BY DEF Reset, mount_partition, Written
<1>4. g.kept = disk.ibits /\ g.ibits = disk.ibits /\ 0 \in disk.ibits
  BY <1>1, <1>3 DEF Knows, Bits, Underway
<1>5. PICK h : h = [used |-> disk.ibits, ibits |-> disk.ibits, kept |-> disk.ibits, old |-> disk.ibits,
                    dir |-> [k \in Ino |-> disk.itable[k].dir], named |-> g.named]
  OBVIOUS
<1>6. InodesOf(e, disk.itable) /\ TableTold(g, disk.itable)
  BY <1>1, Same DEF Owners, OnTheDisk, Knows
<1>7. h.dir \in [Ino -> BOOLEAN]
  BY <1>5, <1>6 DEF InodesOf, DiskInode
<1>8. PICK i : i = InMemory(disk, 0)
  OBVIOUS
<1>9. 0 \in Ino /\ i.no = 0 /\ i.dir = h.dir[0] /\ Plain(i)
  <2>1. 0 \in Ino
    BY InodeAssumption DEF Ino
  <2>2. QED
    BY <1>5, <1>6, <1>8, <2>1 DEF InMemory, Plain, TableTold
<1>10. DOMAIN open_inodes' = {1} /\ open_inodes'[1] = i /\ DOMAIN dentries' = {1} /\ dentries'[1].inode = 1
  BY <1>3, <1>8 DEF RootDentry
<1>11. f.no[1] = 0 /\ DOMAIN f.inode = {1} /\ f.inode[1] = 1
  <2>1. PICK who, tabs : f = View(who, tabs)'
    BY <1>2 DEF Seen
  <2>2. f.no = [j \in DOMAIN open_inodes' |-> open_inodes'[j].no] /\ f.inode = [d \in DOMAIN dentries' |-> dentries'[d].inode]
    BY <2>1 DEF View
  <2>3. QED
    BY <1>9, <1>10, <2>2
<1>12. Bits(h)'
  BY <1>3, <1>4, <1>5, <1>7 DEF Bits
<1>13. MemoryTold(h, open_inodes')
  BY <1>4, <1>5, <1>9, <1>10 DEF MemoryTold
<1>14. TableTold(h, disk'.itable)
  BY <1>3, <1>4, <1>5, <1>6 DEF TableTold
<1>15. EntriesTold(f, h)
  BY <1>4, <1>5, <1>11 DEF EntriesTold
<1>16. BlocksTold(f, h, disk'.block)
  <2> SUFFICES ASSUME NEW b \in Block, disk.block[b] # Dirty
               PROVE  f.who[b] \in h.kept /\ (h.dir[f.who[b]] => Says(h, disk.block[b], f.who[b]))
    BY <1>3 DEF BlocksTold
  <2>1. e.who[b] \in g.kept /\ (g.dir[e.who[b]] => Says(g, disk.block[b], e.who[b]))
    BY <1>1 DEF Knows, BlocksTold
  <2>2. f.who[b] = e.who[b] /\ e.who[b] \in h.kept /\ e.who[b] \in Ino
    BY <1>1, <1>2, <1>4, <1>5, <2>1, Same DEF Owners, OnTheDisk
  <2>3. h.dir[e.who[b]] => g.dir[e.who[b]]
    BY <1>5, <1>6, <2>2 DEF TableTold
  <2>4. Says(g, disk.block[b], e.who[b]) => Says(h, disk.block[b], e.who[b])
    BY <1>4, <1>5 DEF Says
  <2>5. QED
    BY <2>1, <2>2, <2>3, <2>4
<1>17. Underway(f, h)'
  BY <1>3, <1>5 DEF Underway
<1>18. \A p \in Proc : Marks(f, h, pc'[p], loc'[p])
  BY <1>3, OutsideMarks
<1>19. Knows(f, h)'
  BY <1>12, <1>13, <1>14, <1>15, <1>16, <1>17, <1>18 DEF Knows
<1>20. QED
  BY <1>2, <1>19 DEF NamesInv

\* A partition that has been formatted has no names.
LEMMA NamesStart == ASSUME Init PROVE NamesInv
<1>1. PICK e : Seen(e)
  BY OwnersInit, SomeSeen
<1>2. PICK i : i = InMemory(Formatted, 0)
  OBVIOUS
<1>3. 0 \in Ino /\ 1 \in Block /\ 0 \in Pointers \ {NDIRECT} /\ NDIRECT \in Pointers
  BY InodeAssumption DEF Ino, Block, Pointers
<1>4. /\ disk = Formatted /\ inode_bitmap = {0} /\ open_inodes = << i >> /\ dentries = << RootDentry >>
      /\ pc = [p \in Proc |-> "out"] /\ loc = [p \in Proc |-> << >>]
  BY <1>2 DEF Init
<1>5. /\ disk.ibits = {0}
      /\ \A b \in Block \ {1} : disk.block[b] = Dirty
      /\ disk.block[1] = Dots(0, 0)
      /\ disk.itable[0] = [dir |-> TRUE, size |-> 2, sectors |-> [NoBlocks EXCEPT ![0] = 1]]
      /\ \A k \in Ino \ {0} : disk.itable[k] = [dir |-> FALSE, size |-> 0, sectors |-> NoBlocks]
  BY <1>3, <1>4 DEF Formatted
<1>6. disk.itable[0].sectors[0] = 1 /\ disk.itable[0].sectors[NDIRECT] = 0 /\ disk.itable[0].dir
  BY <1>3, <1>5 DEF NoBlocks
<1>7. e.who[1] = 0
  <2>1. SectorsOf(e, 0, disk.itable[0].sectors)
    BY <1>1, <1>3, Same DEF Owners, OnTheDisk, InodesOf
  <2>2. Data_of(e, 0, 1)
    BY <1>3, <1>6, <2>1 DEF SectorsOf
  <2>3. QED
    BY <2>2 DEF Data_of
<1>8. PICK g : g = [used |-> {0}, ibits |-> {0}, kept |-> {0}, old |-> {0},
                    dir |-> [k \in Ino |-> k = 0], named |-> [k \in Ino |-> 0]]
  OBVIOUS
<1>9. i.no = 0 /\ i.dir /\ Plain(i)
  BY <1>2, <1>4, <1>6 DEF InMemory, Plain
<1>10. DOMAIN open_inodes = {1} /\ open_inodes[1] = i /\ DOMAIN dentries = {1} /\ dentries[1].inode = 1
  BY <1>4 DEF RootDentry
<1>11. Bits(g)
  BY <1>3, <1>4, <1>5, <1>8 DEF Bits
<1>12. MemoryTold(g, open_inodes)
  <2>1. g.dir[0] = TRUE /\ i.dir = TRUE
    <3>1. i.dir = disk.itable[0].dir
      BY <1>2, <1>4 DEF InMemory
    <3>2. g.dir = [k \in Ino |-> k = 0]
      BY <1>8
    <3>3. disk.itable[0].dir = TRUE
      BY <1>5
    <3>4. g.dir[0]
      BY <1>3, <3>2
    <3>5. g.dir[0] \in BOOLEAN
      BY <1>3, <3>2
    <3>6. QED
      BY <3>1, <3>3, <3>4, <3>5
  <2>2. QED
    BY <1>8, <1>9, <1>10, <2>1 DEF MemoryTold
<1>13. TableTold(g, disk.itable)
  <2> SUFFICES ASSUME NEW k \in Ino
               PROVE  /\ disk.itable[k].dir =>
                           g.dir[k] /\ k \in g.kept /\ disk.itable[k].sectors[NDIRECT] = 0
                      /\ k \in g.old => disk.itable[k].dir = g.dir[k]
    BY DEF TableTold
  <2>1. g.dir[k] = (k = 0)
    BY <1>8
  <2>2. CASE k = 0
    <3>1. disk.itable[k].dir = TRUE
      BY <1>5, <2>2
    <3>2. g.dir[k] = TRUE
      BY <2>1, <2>2
    <3>3. 0 \in g.kept /\ disk.itable[0].sectors[NDIRECT] = 0
      BY <1>6, <1>8
    <3>4. QED
      BY <2>2, <3>1, <3>2, <3>3
  <2>3. CASE k # 0
    <3>1. disk.itable[k].dir = FALSE
      BY <1>5, <2>3
    <3>2. k \notin g.old
      BY <1>8, <2>3
    <3>3. QED
      BY <3>1, <3>2
  <2>4. QED
    BY <2>2, <2>3
<1>14. EntriesTold(e, g)
  <2>1. e.no[1] = 0 /\ DOMAIN e.inode = {1} /\ e.inode[1] = 1
    BY <1>1, <1>9, <1>10, Same
  <2>2. QED
    BY <1>8, <2>1 DEF EntriesTold
<1>15. BlocksTold(e, g, disk.block)
  <2>1. DOMAIN disk.block[1] = DOMAIN EmptyDir /\ EntriesIn(disk.block[1]) = {}
    BY <1>5, DotsSay
  <2>2. Says(g, disk.block[1], 0)
    BY <2>1 DEF Says
  <2>3. QED
    BY <1>5, <1>7, <1>8, <2>2 DEF BlocksTold
<1>16. Underway(e, g)
  BY <1>5, <1>8 DEF Underway
<1>17. \A p \in Proc : Marks(e, g, pc[p], loc[p])
  BY <1>4, OutsideMarks
<1>18. Knows(e, g)
  BY <1>11, <1>12, <1>13, <1>14, <1>15, <1>16, <1>17 DEF Knows
<1>19. QED
  BY <1>1, <1>18 DEF NamesInv

-----------------------------------------------------------------------------
\* What is known of names: each stands in the directory, and under the name, that its inode
\* was created in.
LEMMA NameTold ==
  ASSUME NEW e, NEW g, Seen(e), Knows(e, g), NEW x \in Names
  PROVE  /\ x = [dir |-> x.dir, name |-> x.name, no |-> x.no]
         /\ g.named[x.no] = [dir |-> x.dir, name |-> x.name]
<1>1. PICK k \in inode_bitmap : Current(k).dir /\ x \in EntriesOf(k)
  BY DEF Names
<1>2. PICK i : i = Current(k)
  OBVIOUS
<1>3. PICK b \in Direct(i) : \E z \in Entries(b) : x = [dir |-> k, name |-> z.name, no |-> z.no]
  BY <1>1, <1>2 DEF EntriesOf
<1>4. PICK z \in Entries(b) : x = [dir |-> k, name |-> z.name, no |-> z.no]
  BY <1>3
<1>5. k \in Ino
  BY <1>1, Same DEF Owners
<1>6. g.dir[k] /\ i.sectors[NDIRECT] = 0 /\ SectorsOf(e, k, i.sectors)
  <2>1. CASE Latest(k) # 0
    <3>1. PICK j : j = Latest(k)
      OBVIOUS
    <3>2. j \in DOMAIN open_inodes /\ open_inodes[j].no = k /\ i = open_inodes[j]
      BY <1>2, <2>1, <3>1, LatestIs DEF Current
    <3>3. SectorsOf(e, k, i.sectors)
      BY <3>2, Same DEF Owners, InMemoryOf
    <3>4. g.dir[k] /\ i.sectors[NDIRECT] = 0
      BY <1>1, <1>2, <3>2 DEF Knows, MemoryTold, Plain
    <3>5. QED
      BY <3>3, <3>4
  <2>2. CASE Latest(k) = 0
    <3>1. i = disk.itable[k]
      BY <1>2, <2>2 DEF Current
    <3>2. SectorsOf(e, k, i.sectors)
      BY <1>5, <3>1, Same DEF Owners, OnTheDisk, InodesOf
    <3>3. g.dir[k] /\ i.sectors[NDIRECT] = 0
      BY <1>1, <1>2, <1>5, <3>1 DEF Knows, TableTold
    <3>4. QED
      BY <3>2, <3>3
  <2>3. QED
    BY <2>1, <2>2
<1>7. b # 0 /\ b \in e.synced /\ e.who[b] = k
  <2>1. PICK n \in Pointers : b = i.sectors[n] /\ b # 0
    BY <1>3 DEF Direct
  <2>2. Data_of(e, k, b)
    BY <1>6, <2>1 DEF SectorsOf
  <2>3. QED
    BY <2>1, <2>2 DEF Data_of
<1>8. b \in Block
  BY <1>7, Synced
<1>9. disk.block[b] # Dirty /\ z \in EntriesIn(disk.block[b])
  BY <1>4 DEF Entries, EntriesIn
<1>10. Says(g, disk.block[b], k)
  BY <1>6, <1>7, <1>8, <1>9 DEF Knows, BlocksTold
<1>11. g.named[z.no] = [dir |-> k, name |-> z.name]
  BY <1>9, <1>10 DEF Says
<1>12. QED
  BY <1>4, <1>11

\* So two names that stand for the same inode are one: both are what it was created under.
LEMMA NamesDistinct == (torn \/ NamesInv) => EntriesDistinct
<1> SUFFICES ASSUME NamesInv, NEW x \in Names, NEW y \in Names, x.no = y.no PROVE x = y
  BY DEF EntriesDistinct
<1>1. PICK e, g : Seen(e) /\ Knows(e, g)
  BY DEF NamesInv
<1>2. /\ x = [dir |-> x.dir, name |-> x.name, no |-> x.no] /\ g.named[x.no] = [dir |-> x.dir, name |-> x.name]
      /\ y = [dir |-> y.dir, name |-> y.name, no |-> y.no] /\ g.named[y.no] = [dir |-> y.dir, name |-> y.name]
  BY <1>1, NameTold
<1>3. x.dir = y.dir /\ x.name = y.name
  <2>1. PICK u, v : u = [dir |-> x.dir, name |-> x.name] /\ v = [dir |-> y.dir, name |-> y.name]
    OBVIOUS
  <2>2. u = v /\ u.dir = x.dir /\ v.dir = y.dir /\ u.name = x.name /\ v.name = y.name
    BY <1>2, <2>1
  <2>3. QED
    BY <2>2
<1>4. QED
  BY <1>2, <1>3

\* If clients write to no directory and lead no path through a file, then, however their
\* calls overlap and whenever the machine is reset, no two names stand for one inode, until
\* a reset cuts a creation after its entry was written (fs/file.c:222) or the garbage of an
\* unwritten block is taken for entries (fs/dir.c:152).
THEOREM EntriesDistinctAlways == Spec /\ []KindsRespected => []EntriesDistinct
<1>1. Init => torn \/ NamesInv
  BY NamesStart
<1>2. IInv /\ KindsRespected /\ (torn \/ NamesInv) /\ [Next]_vars => torn' \/ NamesInv'
  <2> SUFFICES ASSUME IInv, KindsRespected, torn \/ NamesInv, [Next]_vars, ~torn' PROVE NamesInv'
    OBVIOUS
  <2>1. ~torn /\ NamesInv
    BY DEF Next, Reset, Misread, vars, reset
  <2>2. CASE Reset
    BY <2>1, <2>2, NamesReset
  <2>3. CASE Next /\ ~Reset
    BY <2>1, <2>3, NamesStep DEF IInv
  <2>4. CASE UNCHANGED vars
    BY <2>1, <2>4, NamesStay DEF vars
  <2>5. QED
    BY <2>2, <2>3, <2>4
<1>3. (torn \/ NamesInv) => EntriesDistinct
  BY NamesDistinct
<1>4. QED
  BY <1>1, <1>2, <1>3, Invariant, PTL DEF Spec

=============================================================================
