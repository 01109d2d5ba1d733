------------------------------ MODULE Directory -------------------------------
(***************************************************************************)
(* Directories, fs/dir.c: the cache of directory entries, the search of a  *)
(* path in the cache and on the disk, and the creation of a name.  The     *)
(* processes share one current directory: fork copies the pointer to it    *)
(* (kernel/fork.c:104, :110).                                              *)
(*                                                                         *)
(* A path is a sequence of names, "/" first if it starts at the root and   *)
(* "" last if a slash ends it ("/" itself is both).  It does not lead      *)
(* through a file, whose data would be taken for entries.                  *)
(* Directories stay within their direct blocks: dir_write takes the index  *)
(* block from a part of its buffer it has not filled (fs/dir.c:139, :145), *)
(* and what it then does depends on what is left there.                    *)
(***************************************************************************)
EXTENDS Inode

CONSTANTS MkdirPaths, ChdirPaths,  \* what clients give to mkdir and chdir
          MaxRef                   \* bound: users of an entry are counted up to it

VARIABLES dentries,  \* the entries in memory: [name, parent, inode, count]; the first
                     \* is the root, the latest comes last
          cwd        \* the current directory, an index of dentries

dirs == << dentries, cwd >>

\* The root, as open_root_dir() leaves it.
RootDentry == [name |-> "/", parent |-> 1, inode |-> 1, count |-> 0]

\* atomic_inc of the users of an entry.
Counted(c) == Min({c + 1, MaxRef})

\* A new entry for the i-th inode in memory.
Dentry(parent, name, i) == [name |-> name, parent |-> parent, inode |-> i, count |-> 1]

\* A wrong variant of Cached: the name is looked up whatever directory it is in.
Cached_anywhere(parent, n) ==
  Max({0} \cup { d \in DOMAIN dentries \ {1} : dentries[d].name = n })

\* The entry search_dentry() finds in the cache: the latest child, or 0.
Cached(parent, n) ==
  Max({0} \cup { d \in DOMAIN dentries \ {1} :
                   dentries[d].parent = parent /\ dentries[d].name = n })

DirInode(d) == open_inodes[dentries[d].inode]

-----------------------------------------------------------------------------
\* A call with a path begins, the process with the local variables r.
parse_path(p, r, path) ==
  LET absolute == path # << >> /\ path[1] = "/"
      start == IF absolute THEN 1 ELSE cwd
  IN /\ Local(p, r ++ [path |-> IF absolute THEN Tail(path) ELSE path,
                       parent |-> start, child |-> start, name |-> NULL])
     /\ ThenAt(p, "walk")

\* One name of the path is found, child, or is not: 0.  The locals of the search go.
Walk(p, child) ==
  /\ Local(p, [child |-> child] ++ Restrict(loc[p], DOMAIN loc[p] \ {"idx", "lba", "no"}))
  /\ ThenAt(p, "walk")

\* parse_path() has reached the end of the path, or a name that is not there.
AtEnd(path) == path \in { << >>, << "" >> }
Parsed(p, call) ==
  /\ Runs(p, "walk") /\ loc[p].call = call
  /\ AtEnd(loc[p].path) \/ loc[p].child = 0

\* The search of the entry's blocks goes on at the next one from idx on, if any.
search_from(p, parent, idx, r) ==
  LET more == { i \in idx .. NDIRECT - 1 : DirInode(parent).sectors[i] # 0 }
  IN IF more = {}
     THEN Local(p, [child |-> 0] ++ Restrict(r, DOMAIN r \ {"idx", "lba"})) /\ ThenAt(p, "walk")
     ELSE /\ Local(p, [idx |-> Min(more), lba |-> DirInode(parent).sectors[Min(more)]] ++ r)
          /\ ThenAt(p, "search")

\* search_dentry() of the next name, before it needs the disk.
search_dentry(p) ==
  /\ Runs(p, "walk") /\ ~ AtEnd(loc[p].path) /\ loc[p].child # 0
  /\ LET parent == loc[p].child
         n == Head(loc[p].path)
         c == Cached(parent, n)
         r == [parent |-> parent, name |-> n, path |-> Tail(loc[p].path)] ++ loc[p]
     IN \/ /\ n \in {".", ".."}
           /\ Local(p, [child |-> IF n = "." THEN parent ELSE dentries[parent].parent] ++ r)
           /\ ThenAt(p, "walk") /\ UNCHANGED dentries
        \/ /\ n \notin {".", ".."} /\ c # 0
           /\ dentries' = [dentries EXCEPT ![c].count = Counted(@)]
           /\ Local(p, [child |-> c] ++ r) /\ ThenAt(p, "walk")
        \/ /\ n \notin {".", ".."} /\ c = 0
           /\ search_from(p, parent, 0, r) /\ UNCHANGED dentries
  /\ UNCHANGED << disk, memory, cwd >>

\* A block of the directory has been read.  If it holds the name, the inode is opened:
\* it may be in memory (inode_open).
search_block(p) ==
  /\ Runs(p, "search")
  /\ LET b == DirAt(loc[p].lba)
         hits == { j \in DOMAIN b : b[j] # NULL /\ b[j].name = loc[p].name }
         k == b[Min(hits)].no
     IN \/ /\ hits = {}
           /\ search_from(p, loc[p].parent, loc[p].idx + 1, loc[p]) /\ UNCHANGED dentries
        \/ /\ hits # {} /\ k \notin inode_bitmap
           /\ Panic("inode_open_inode_not_allocated") /\ UNCHANGED dentries
        \/ /\ hits # {} /\ k \in inode_bitmap /\ Latest(k) # 0
           /\ dentries' = Append(dentries, Dentry(loc[p].parent, loc[p].name, Latest(k)))
           /\ Walk(p, Len(dentries'))
        \/ /\ hits # {} /\ k \in inode_bitmap /\ Latest(k) = 0
           /\ Put(p, [no |-> k]) /\ ThenAt(p, "iget") /\ UNCHANGED dentries
  /\ UNCHANGED << disk, memory, cwd >>

\* inode_open(): the inode has been read, and is linked whoever did so meanwhile.
inode_open(p) ==
  /\ Runs(p, "iget")
  /\ open_inodes' = Append(open_inodes, InMemory(disk, loc[p].no))
  /\ dentries' = Append(dentries, Dentry(loc[p].parent, loc[p].name, Len(open_inodes')))
  /\ Walk(p, Len(dentries'))
  /\ UNCHANGED << disk, block_bitmap, inode_bitmap, cwd >>

-----------------------------------------------------------------------------
\* A file or directory is created under the name at which the walk of p ended:
\* inode_alloc() and the start of dir_write().
create(p, dir) ==
  IF Ino \subseteq inode_bitmap
  THEN Panic("bitmap_scan_full") /\ UNCHANGED << disk, memory >>
  ELSE /\ inode_alloc(dir)
       /\ Local(p, [call |-> loc[p].call, fd |-> loc[p].fd, parent |-> loc[p].parent,
                    name |-> loc[p].name, inode |-> Len(open_inodes'), idx |-> 0])
       /\ ThenAt(p, "dirw")

\* dir_write(), one turn of its loop: a block is allocated or read.
dir_write(p) ==
  /\ Runs(p, "dirw")
  /\ LET b == DirInode(loc[p].parent).sectors[loc[p].idx]
     IN \/ /\ loc[p].idx = NDIRECT
           /\ Panic("dir_write_index_block")
        \/ /\ loc[p].idx < NDIRECT /\ b = 0
           /\ Put(p, [ret |-> "dirw_zero"]) /\ ThenAt(p, "alloc")
        \/ /\ loc[p].idx < NDIRECT /\ b # 0
           /\ Put(p, [lba |-> b]) /\ ThenAt(p, "dirw_read")
  /\ UNCHANGED << disk, memory, dirs >>

\* A wrong variant of FreePlaces: any place after "." and ".." is taken for free.
FreePlaces_any(b) == DOMAIN b \ {0, 1}

\* The entry that p writes, and a block with it in its first free place.
Entry(p) == [name |-> loc[p].name, no |-> open_inodes[loc[p].inode].no]
FreePlaces(b) == { j \in DOMAIN b : b[j] = NULL }
Filled(p, b) == [b EXCEPT ![Min(FreePlaces(b))] = Entry(p)]

\* The new block is pointed to, and will be written whole.
dir_write_zero(p) ==
  /\ Runs(p, "dirw_zero")
  /\ open_inodes' =
       [open_inodes EXCEPT ![dentries[loc[p].parent].inode].sectors[loc[p].idx] = loc[p].blk]
  /\ Put(p, [lba |-> loc[p].blk, blk |-> 0, buf |-> Filled(p, EmptyDir)])
  /\ ThenAt(p, "dirw_write")
  /\ UNCHANGED << disk, block_bitmap, inode_bitmap, dirs >>

\* The block has been read: the entry goes into a free place, and will be written where
\* the pointer then points to; or it goes into the next block.
dir_write_read(p) ==
  /\ Runs(p, "dirw_read")
  /\ LET b == DirAt(loc[p].lba)
     IN \/ /\ FreePlaces(b) # {}
           /\ Put(p, [buf |-> Filled(p, b), lba |-> DirInode(loc[p].parent).sectors[loc[p].idx]])
           /\ ThenAt(p, "dirw_write")
        \/ /\ FreePlaces(b) = {}
           /\ Put(p, [idx |-> loc[p].idx + 1]) /\ ThenAt(p, "dirw")
  /\ UNCHANGED << disk, memory, dirs >>

\* The entry is on the disk.  A new directory gets a block of its own.
dir_write_write(p) ==
  /\ Runs(p, "dirw_write")
  /\ disk' = [disk EXCEPT !.block[loc[p].lba] = loc[p].buf]
  /\ Put(p, [buf |-> NULL, written |-> TRUE, ret |-> "dot"])
  /\ ThenAt(p, IF open_inodes[loc[p].inode].dir THEN "alloc" ELSE "dirw_end")
  /\ UNCHANGED << memory, dirs >>
dir_write_dots(p) ==
  /\ Runs(p, "dot")
  /\ open_inodes' = [open_inodes EXCEPT ![loc[p].inode].sectors[0] = loc[p].blk,
                                        ![loc[p].inode].size = 2]
  /\ Put(p, [lba |-> loc[p].blk, blk |-> 0,
             buf |-> Dots(Entry(p).no, DirInode(loc[p].parent).no)])
  /\ ThenAt(p, "dot_write")
  /\ UNCHANGED << disk, block_bitmap, inode_bitmap, dirs >>
dir_write_dots_write(p) ==
  /\ Runs(p, "dot_write")
  /\ disk' = [disk EXCEPT !.block[loc[p].lba] = loc[p].buf]
  /\ Put(p, [buf |-> NULL]) /\ ThenAt(p, "dirw_end")
  /\ UNCHANGED << memory, dirs >>

\* The end of dir_write(), the entry cached and the parent grown, and the start of
\* the new inode's inode_sync().  The process keeps the local variables r.
dir_written(p, r) ==
  /\ dentries' = Append(dentries, Dentry(loc[p].parent, loc[p].name, loc[p].inode))
  /\ open_inodes' = [open_inodes EXCEPT ![dentries[loc[p].parent].inode].size = @ + 1]
  /\ inode_sync(p, r, loc[p].inode, "ibsync")
  /\ UNCHANGED << disk, block_bitmap, inode_bitmap, cwd >>

-----------------------------------------------------------------------------
\* mkdir().
mkdir(p, path) ==
  /\ panic = NULL /\ cpu = NULL /\ At(p, "out")
  /\ parse_path(p, [call |-> "mkdir", fd |-> 0], path)
  /\ UNCHANGED << disk, memory, dirs >>
sys_mkdirat(p) ==
  /\ Parsed(p, "mkdir")
  /\ IF loc[p].child # 0
     THEN Panic("sys_mkdirat_exists") /\ UNCHANGED << disk, memory >>
     ELSE create(p, TRUE)
  /\ UNCHANGED dirs
dir_create(p) ==
  /\ Runs(p, "dirw_end") /\ loc[p].call = "mkdir"
  /\ dir_written(p, [call |-> "mkdir", written |-> TRUE])
mkdir_end(p) ==
  /\ Runs(p, "created") /\ loc[p].call = "mkdir" /\ Return(p)
  /\ UNCHANGED << disk, memory, dirs >>

\* chdir().
chdir(p, path) ==
  /\ panic = NULL /\ cpu = NULL /\ At(p, "out")
  /\ parse_path(p, [call |-> "chdir", fd |-> 0], path)
  /\ UNCHANGED << disk, memory, dirs >>
sys_chdir(p) ==
  /\ Parsed(p, "chdir")
  /\ \/ loc[p].child = 0 /\ Return(p) /\ UNCHANGED cwd
     \/ /\ loc[p].child # 0 /\ DirInode(loc[p].child).dir
        /\ cwd' = loc[p].child /\ Return(p)
     \/ /\ loc[p].child # 0 /\ ~DirInode(loc[p].child).dir
        /\ Panic("sys_chdir_not_a_directory") /\ UNCHANGED cwd
  /\ UNCHANGED << disk, memory, dentries >>

DirectoryStep(p) ==
  \/ search_dentry(p) \/ search_block(p) \/ inode_open(p)
  \/ dir_write(p) \/ dir_write_zero(p) \/ dir_write_read(p) \/ dir_write_write(p)
  \/ dir_write_dots(p) \/ dir_write_dots_write(p)
  \/ \E path \in MkdirPaths : mkdir(p, path)
  \/ sys_mkdirat(p) \/ dir_create(p) \/ mkdir_end(p)
  \/ \E path \in ChdirPaths : chdir(p, path)
  \/ sys_chdir(p)

=============================================================================
