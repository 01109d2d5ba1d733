-------------------------------- MODULE Files ---------------------------------
(***************************************************************************)
(* What the file system promises when its calls do not overlap: a tree of  *)
(* names, files that hold sequences of data, and descriptors with a        *)
(* position each.  A name is created where there was none, for a file that *)
(* has no other; a write changes an open file, at or after the descriptor's*)
(* position, and leaves no gap; a reset closes everything and may lose     *)
(* names, but no content.                                                  *)
(***************************************************************************)
EXTENDS Integers, SequencesExt

CONSTANTS Node,        \* files and directories; 0 is the root
          Fd, Data,
          OpenPaths, MkdirPaths, ChdirPaths,  \* of the calls of each kind
          NULL

VARIABLES names,    \* the tree: [dir, name, no]
          content,  \* of each file
          fds,      \* of each descriptor: NULL or [no, pos]
          cwd

vars == << names, content, fds, cwd >>

Init ==
  /\ names = {} /\ cwd = 0
  /\ content = [k \in Node |-> << >>]
  /\ fds = [fd \in Fd |-> NULL]

\* Where one name, and a path, leads to from k.
Follow(k, n) ==
  CASE k = NULL -> NULL
    [] n = "/"  -> 0
    [] n \in {".", ""} -> k
    [] n = ".." -> IF k = 0 THEN 0 ELSE (CHOOSE e \in names : e.no = k).dir
    [] OTHER    -> LET here == { e \in names : e.dir = k /\ e.name = n }
                   IN IF here = {} THEN NULL ELSE (CHOOSE e \in here : TRUE).no
Resolve(path) == FoldLeft(Follow, cwd, path)

\* The first name of a path that is missing gets a node of its own.
Create(path, i, k) ==
  LET d == Resolve(SubSeq(path, 1, i - 1))
  IN /\ d # NULL /\ Resolve(SubSeq(path, 1, i)) = NULL
     /\ k # 0 /\ ~ \E e \in names : e.no = k
     /\ names' = names \cup {[dir |-> d, name |-> path[i], no |-> k]}
     /\ UNCHANGED << content, fds, cwd >>

Open(fd, path) ==
  /\ fds[fd] = NULL /\ Resolve(path) # NULL
  /\ fds' = [fds EXCEPT ![fd] = [no |-> Resolve(path), pos |-> 0]]
  /\ UNCHANGED << names, content, cwd >>

Close(fd) ==
  /\ fds[fd] # NULL
  /\ fds' = [fds EXCEPT ![fd] = NULL]
  /\ UNCHANGED << names, content, cwd >>

\* Some of a write: v from place i to place j, one after the end at most.
Write(fd, v, i, j) ==
  /\ fds[fd] # NULL
  /\ LET c == content[fds[fd].no]
     IN /\ fds[fd].pos < i /\ i <= j /\ i <= Len(c) + 1
        /\ content' = [content EXCEPT ![fds[fd].no] =
             [u \in 1 .. (IF j > Len(c) THEN j ELSE Len(c)) |-> IF u \in i .. j THEN v ELSE c[u]]]
  /\ UNCHANGED << names, fds, cwd >>

\* The end of a read or a write.
Advance(fd, pos) ==
  /\ fds[fd] # NULL /\ fds[fd].pos < pos /\ pos <= Len(content[fds[fd].no])
  /\ fds' = [fds EXCEPT ![fd].pos = pos]
  /\ UNCHANGED << names, content, cwd >>

Chdir(path) ==
  /\ Resolve(path) # NULL
  /\ cwd' = Resolve(path)
  /\ UNCHANGED << names, content, fds >>

Reset ==
  /\ names' \subseteq names
  /\ fds' = [fd \in Fd |-> NULL] /\ cwd' = 0
  /\ UNCHANGED content

Next ==
  \/ \E path \in OpenPaths, k \in Node : Create(path, Len(path), k)
  \/ \E path \in MkdirPaths, k \in Node : \E i \in 1 .. Len(path) : Create(path, i, k)
  \/ \E fd \in Fd, path \in OpenPaths : Open(fd, path)
  \/ \E fd \in Fd : Close(fd)
  \/ \E fd \in Fd, v \in Data : fds[fd] # NULL /\
       \E i, j \in 1 .. Len(content'[fds[fd].no]) : Write(fd, v, i, j)
  \/ \E fd \in Fd : fds[fd] # NULL /\
       \E pos \in 1 .. Len(content[fds[fd].no]) : Advance(fd, pos)
  \/ \E path \in ChdirPaths : Chdir(path)
  \/ Reset

=============================================================================
