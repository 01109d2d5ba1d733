------------------------------ MODULE FileSystem ------------------------------
(***************************************************************************)
(* The file system: fs/ as clients use it, from the mounted partition on,  *)
(* with resets between any two steps.                                      *)
(***************************************************************************)
EXTENDS File

CONSTANT MaxResets  \* bound: how often the machine is reset

VARIABLES resets,  \* how often it has been,
          torn,    \* and whether that cut a creation after its entry was written
          misread  \* whether garbage was taken for a table or a directory

reset == << resets, torn, misread >>
vars == << disk, memory, control, dirs, files, reset >>

\* filesys_init() on a partition that has been formatted.
Init ==
  /\ disk = Formatted
  /\ block_bitmap = {1} /\ inode_bitmap = {0}
  /\ open_inodes = << InMemory(Formatted, 0) >>
  /\ dentries = << RootDentry >> /\ cwd = 1
  /\ open_fds = {} /\ fd_array = [fd \in Fd |-> 0]
  /\ file_table = [s \in Slot |-> NoFile]
  /\ cpu = NULL /\ pc = [p \in Proc |-> "out"] /\ loc = [p \in Proc |-> << >>]
  /\ panic = NULL /\ torn = FALSE /\ misread = FALSE /\ resets = 0

\* The machine is reset, and starts again from the disk.
Reset ==
  /\ resets < MaxResets /\ resets' = resets + 1
  /\ mount_partition
  /\ dentries' = << RootDentry >> /\ cwd' = 1
  /\ open_fds' = {} /\ fd_array' = [fd \in Fd |-> 0]
  /\ file_table' = [s \in Slot |-> NoFile]
  /\ cpu' = NULL /\ pc' = [p \in Proc |-> "out"] /\ loc' = [p \in Proc |-> << >>]
  /\ panic' = NULL
  /\ torn' = (torn \/ \E p \in Proc : "written" \in DOMAIN loc[p])
  /\ UNCHANGED << disk, misread >>

\* A process reads a table or a directory that has a block and is not yet written, and
\* what is left there is not zeros.  The code goes on with whatever it says; nothing
\* can be said of the disk from there on, and the run is followed no further.
Misread(p) ==
  /\ \E l \in {"tab_read", "search", "dirw_read"} : Runs(p, l)
  /\ disk.block[loc[p].lba] = Dirty
  /\ misread' = TRUE
  /\ UNCHANGED << disk, memory, control, dirs, files, resets, torn >>

\* After a torn creation names are only looked up: its inode may get a second name, of
\* another kind, and a file be read as a directory.
Lookup(p) ==
  \/ search_dentry(p) \/ search_block(p) \/ inode_open(p)
  \/ \E path \in ChdirPaths : chdir(p, path)
  \/ sys_chdir(p)

Next ==
  /\ ~misread
  /\ \/ \E p \in Proc :
          \/ ~torn /\ InodeStep(p) /\ UNCHANGED << dirs, files, reset >>
          \/ ~torn /\ DirectoryStep(p) /\ UNCHANGED << files, reset >>
          \/ ~torn /\ FileStep(p) /\ UNCHANGED reset
          \/ torn /\ Lookup(p) /\ UNCHANGED << files, reset >>
          \/ Misread(p)
     \/ ~torn /\ Reset

Spec == Init /\ [][Next]_vars

-----------------------------------------------------------------------------
\* The blocks that inode i (in memory or of the disk) points to, table and all.  A table
\* not yet written has pointers only if it is misread.
Table(i) == IF i.sectors[NDIRECT] = 0 THEN EmptyTab ELSE TableAt(i.sectors[NDIRECT])
Direct(i) == { i.sectors[n] : n \in Pointers } \ {0}
Blocks(i) == Direct(i) \cup ({ Table(i)[n] : n \in DOMAIN EmptyTab } \ {0})

\* Pointers of the same inode: what it has in memory, in the call that will write its table
\* back, on the disk.
InCall(p) ==
  IF \/ loc[p] = << >> \/ loc[p].call # "write"
     \/ "tab" \notin DOMAIN loc[p] \/ loc[p].tab = NULL
  THEN {}
  ELSE { loc[p].tab[n] : n \in DOMAIN EmptyTab } \ {0}
Owned(k) ==
  Blocks(disk.itable[k])
  \cup (UNION { Blocks(open_inodes[i]) : i \in { j \in DOMAIN open_inodes : open_inodes[j].no = k } })
  \cup (UNION { InCall(p) : p \in { q \in Proc : InCall(q) # {} /\ open_inodes[loc[q].inode].no = k } })

\* No block belongs to two inodes, and none that an inode points to is free, on the
\* disk or in memory, however calls overlap and whenever the machine is reset, until a
\* call takes the garbage of an unwritten block for pointers (fs/file.c:108).  Two
\* processes that allocated one block, or a bit set on the disk after the pointer, would
\* mix two files (fs/inode.c:153).
BlocksOwnedOnce ==
  misread \/
  /\ \A j, k \in Ino : j # k => Owned(j) \cap Owned(k) = {}
  /\ \A k \in Ino : Owned(k) \subseteq block_bitmap /\ Blocks(disk.itable[k]) \subseteq disk.bbits

-----------------------------------------------------------------------------
\* The files as Files sees them.  Names are those of the directories in memory; what a
\* file holds is what the disk says.
Current(k) == IF Latest(k) # 0 THEN open_inodes[Latest(k)] ELSE disk.itable[k]
Entries(b) ==
  IF b = 0 \/ disk.block[b] = Dirty THEN {}
  ELSE { e \in { disk.block[b][j] : j \in DOMAIN EmptyDir } \ {NULL} : e.name \notin {".", ".."} }
EntriesOf(k) ==
  { [dir |-> k, name |-> e.name, no |-> e.no] :
      e \in UNION { Entries(b) : b \in Direct(Current(k)) } }
Names == UNION { EntriesOf(k) : k \in { j \in inode_bitmap : Current(j).dir } }

UnitOf(i, u) ==
  LET sec == u \div Units
      b == IF sec < NDIRECT THEN i.sectors[sec] ELSE Table(i)[sec - NDIRECT]
  IN IF b = 0 THEN Dirty ELSE Contents(b)[u % Units]
Content(k) ==
  LET i == disk.itable[k]
  IN IF i.dir THEN << >> ELSE [u \in 1 .. i.size |-> UnitOf(i, u - 1)]

FileNo(fd) == open_inodes[FileInode(fd_array[fd])].no

F == INSTANCE Files WITH
  Node <- Ino,
  names <- Names,
  content <- [k \in Ino |-> Content(k)],
  fds <- [fd \in Fd |-> IF fd \in Returned
                        THEN [no |-> FileNo(fd), pos |-> file_table[fd_array[fd]].pos]
                        ELSE NULL],
  cwd <- DirInode(cwd).no

\* Calls that do not overlap implement Files, resets included that cut them at any of
\* their waits: every order of writes to the disk leaves names and contents that Files
\* allows.  A creation cut after its entry is on the disk is the exception, since the
\* inode's bit is written last (fs/file.c:222).
ImplementsFiles == F!Init /\ [][~torn' => F!Next]_(F!vars)

\* When no call is under way, the disk knows all that the bitmaps and the files in memory
\* know, and where each directory begins: file_write and file_create have written back
\* whatever they changed (fs/file.c:138, :222).
AtRestSynced ==
  (panic = NULL /\ \A p \in Proc : At(p, "out")) =>
    /\ disk.bbits = block_bitmap /\ disk.ibits = inode_bitmap
    /\ \A i \in DOMAIN open_inodes :
         LET m == open_inodes[i]
             d == disk.itable[m.no]
         IN /\ m.dir = d.dir
            /\ IF m.dir THEN m.sectors[0] = d.sectors[0]
               ELSE m.size = d.size /\ m.sectors = d.sectors

\* A read returns what the file holds from the position on, through pointers of the
\* inode and of the table alike (fs/file.c:180).
ReadsTrue ==
  \A p \in Proc : At(p, "fr_loop") /\ loc[p].at = loc[p].end =>
    LET c == Content(open_inodes[loc[p].inode].no)
    IN loc[p].got = SubSeq(c, loc[p].start + 1, Min({loc[p].start + loc[p].n, Len(c)}))

\* What the cache of names says is what the disk says: each entry in memory stands in its
\* parent's blocks, for the same inode (fs/dir.c:46).
CacheTrue ==
  \A d \in DOMAIN dentries \ {1} :
    [dir |-> DirInode(dentries[d].parent).no, name |-> dentries[d].name, no |-> DirInode(d).no]
      \in Names

\* What a client can bring about by what it asks for: a directory that exists is made
\* (fs/dir.c:370), or a file entered (:400); a name with a slash after it is opened
\* (fs/file.c:258), or "." closed once more than its directory was looked up (fs/dir.c:219);
\* a file grows past what its table points to (fs/file.c:131).  And what it comes to by and
\* by: the bitmaps' end (lib/kernel/bitmap.c:151), or that of their first eighth
\* (fs/inode.c:172, :176).
Asked == {"sys_mkdirat_exists", "sys_chdir_not_a_directory", "filp_openat_slash",
          "dentry_close_count", "file_write_count"}
Exhausted == {"bitmap_scan_full", "bitmap_sync"}

\* As long as calls do not overlap, no other assertion of the file system fails, and no
\* garbage is read: every table and block that an inode's size speaks of is there, no
\* position is past the end, and no entry is of a free inode, after resets too.
StructureHolds == torn \/ (panic \in {NULL} \cup Asked \cup Exhausted /\ ~misread)

\* However calls overlap: no two names stand for one inode, of those that no reset has cut,
\* until garbage is taken for a directory (fs/dir.c:152).
EntriesDistinct ==
  torn \/ misread \/ \A e, f \in Names : e # f => e.no # f.no

=============================================================================
