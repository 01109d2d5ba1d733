--------------------------------- MODULE Heap ---------------------------------
(***************************************************************************)
(* The kernel's heap, kmalloc and kfree of kernel/memory.c.  A small block *)
(* comes from a page that is cut into blocks of one of a few sizes; a page *)
(* begins with its descriptor, which is linked in the list of the pages of *)
(* that size that have a block left (part) or of those that have none      *)
(* (full).  A larger block is a run of pages of its own.                   *)
(*                                                                         *)
(* kmalloc turns interrupts off, but pops the block after it has turned    *)
(* them on again: a kernel thread can be preempted there.  kfree leaves    *)
(* interrupts as they are.  It is called by system calls and page faults,  *)
(* which have them off, so that both are atomic for a process.  (During    *)
(* boot there is one thread.)                                              *)
(*                                                                         *)
(* Lengths are in units as long as a descriptor, 32 bytes in the code.     *)
(***************************************************************************)
EXTENDS Naturals, Sequences, FiniteSets

CONSTANTS Kthread,               \* who runs with interrupts on
          NrPages, PageUnits,    \* the kernel's pages and their size
          mem_block_size,        \* the sizes of small blocks, ascending,
          mem_block_count,       \* and how many of each a page holds
          Lens,                  \* the lengths that clients ask for
          NULL

Idx == DOMAIN mem_block_size

ASSUME HeapAssumption ==
  /\ NrPages \in Nat /\ PageUnits \in Nat \ {0}
  /\ mem_block_size \in Seq(Nat \ {0}) /\ DOMAIN mem_block_count = Idx
  /\ \A i \in Idx : /\ mem_block_count[i] \in Nat \ {0, 1}
                    /\ 1 + mem_block_size[i] * mem_block_count[i] <= PageUnits
  /\ Lens \subseteq Nat \ {0}

Page == 0 .. NrPages - 1
Part(i) == << "part", i >>
Full(i) == << "full", i >>
Lists == { Part(i) : i \in Idx } \cup { Full(i) : i \in Idx }

INSTANCE LinkedList WITH Elem <- Page

VARIABLES mem,    \* the pointers of the lists
          desc,   \* the descriptor at the start of a page, if the heap has one there
          used,   \* the blocks in use: [start, len], len as asked for
          taken   \* the kernel threads in kmalloc: [page, len] of those before the pop

vars == << mem, desc, used, taken >>

Init ==
  /\ mem = list_init(Lists)
  /\ desc = [p \in Page |-> NULL]
  /\ used = {} /\ taken = [t \in Kthread |-> NULL]

-----------------------------------------------------------------------------
PageOf(b) == b.start \div PageUnits

\* The pages of the run that starts at p, and the runs of 2^o pages that are free.
Run(p) == IF desc[p] = NULL THEN {} ELSE p .. p + 2 ^ desc[p].order - 1
get_free_pages(o) ==
  { p \in Page : /\ p % 2 ^ o = 0 /\ p + 2 ^ o <= NrPages
                 /\ \A q \in Page : Run(q) \cap (p .. p + 2 ^ o - 1) = {} }

\* A new page, cut into blocks, one of which is about to be taken.
Cut(p, i) ==
  [large |-> FALSE, order |-> 0, mlist_idx |-> i, remain |-> mem_block_count[i] - 1,
   block_list |-> [k \in 1 .. mem_block_count[i] |-> p * PageUnits + 1 + mem_block_size[i] * (k - 1)]]

\* kmalloc() of a small block up to the pop: the page it is from, and what changes.  A
\* new page is pushed twice.
kmalloc_page(i) ==
  IF list_empty(mem, Part(i))
  THEN { [page |-> p, desc |-> [desc EXCEPT ![p] = Cut(p, i)],
          mem |-> list_push_back(list_push_back(mem, Part(i), p), Part(i), p)] :
           p \in get_free_pages(0) }
  ELSE LET p == mem.head[Part(i)]
           left == desc[p].remain - 1
       IN { [page |-> p, desc |-> [desc EXCEPT ![p].remain = left],
             mem |-> IF left > 0 THEN mem
                     ELSE list_push_back(list_delete(mem, Part(i), p), Full(i), p)] }

\* The pop of a block of the page p, which has the descriptor d.
list_pop_front(p, d, len) ==
  /\ desc' = [d EXCEPT ![p].block_list = Tail(@)]
  /\ used' = used \cup {[start |-> Head(d[p].block_list), len |-> len]}

Small(len) == \E i \in Idx : len <= mem_block_size[i]
Fitting(len) == CHOOSE i \in Idx : /\ len <= mem_block_size[i]
                                   /\ \A j \in 1 .. i - 1 : len > mem_block_size[j]

\* kmalloc() by a process, and by a kernel thread, whose pop comes later.  Without a free
\* page alloc_pages panics.
kmalloc(len) ==
  /\ Small(len)
  /\ \E t \in kmalloc_page(Fitting(len)) :
       mem' = t.mem /\ list_pop_front(t.page, t.desc, len)
  /\ UNCHANGED taken
kmalloc_on(t, len) ==
  /\ Small(len) /\ taken[t] = NULL
  /\ \E k \in kmalloc_page(Fitting(len)) :
       /\ mem' = k.mem /\ desc' = k.desc
       /\ taken' = [taken EXCEPT ![t] = [page |-> k.page, len |-> len]]
  /\ UNCHANGED used
kmalloc_pop(t) ==
  /\ taken[t] # NULL
  /\ list_pop_front(taken[t].page, desc, taken[t].len)
  /\ taken' = [taken EXCEPT ![t] = NULL]
  /\ UNCHANGED mem

\* A wrong variant of OrderOf: one too low for a power of two.
OrderOf_lower(cnt) == CHOOSE o \in 0 .. cnt : 2 ^ o < cnt /\ cnt <= 2 ^ (o + 1)

\* The highest bit of a count of pages.
OrderOf(cnt) == CHOOSE o \in 0 .. cnt : 2 ^ o <= cnt /\ cnt < 2 ^ (o + 1)

\* kmalloc() of a large block, behind its descriptor.
kmalloc_large(len) ==
  LET order == OrderOf((len + PageUnits) \div PageUnits)
  IN /\ ~Small(len)
     /\ \E p \in get_free_pages(order) :
          /\ desc' = [desc EXCEPT ![p] = [large |-> TRUE, order |-> order]]
          /\ used' = used \cup {[start |-> p * PageUnits + 1, len |-> len]}
     /\ UNCHANGED << mem, taken >>

-----------------------------------------------------------------------------
\* kfree(): of a large block;
kfree_large(b) ==
  /\ desc[PageOf(b)].large
  /\ desc' = [desc EXCEPT ![PageOf(b)] = NULL]
  /\ used' = used \ {b}
  /\ UNCHANGED << mem, taken >>

\* of a block of a full page, which goes back to the others;
kfree_full(b) ==
  LET p == PageOf(b)
      i == desc[p].mlist_idx
  IN /\ ~desc[p].large /\ list_find(mem, Full(i), p)
     /\ mem' = list_push_back(list_delete(mem, Full(i), p), Part(i), p)
     /\ desc' = [desc EXCEPT ![p].remain = @ + 1, ![p].block_list = Append(@, b.start)]
     /\ used' = used \ {b}
     /\ UNCHANGED taken

\* of any other.  A page with no block in use is freed: its pointers are lost.
kfree(b) ==
  LET p == PageOf(b)
      i == desc[p].mlist_idx
      left == desc[p].remain + 1
  IN /\ ~desc[p].large /\ list_find(mem, Part(i), p)
     /\ IF left = mem_block_count[i]
        THEN /\ mem' = [list_delete(mem, Part(i), p) EXCEPT !.prev[p] = NULL, !.next[p] = NULL]
             /\ desc' = [desc EXCEPT ![p] = NULL]
        ELSE /\ desc' = [desc EXCEPT ![p].remain = left, ![p].block_list = Append(@, b.start)]
             /\ UNCHANGED mem
     /\ used' = used \ {b}
     /\ UNCHANGED taken

Next ==
  \/ \E len \in Lens : kmalloc(len) \/ kmalloc_large(len) \/ \E t \in Kthread : kmalloc_on(t, len)
  \/ \E t \in Kthread : kmalloc_pop(t)
  \/ \E b \in used : kfree_large(b) \/ kfree_full(b) \/ kfree(b)

Spec == Init /\ [][Next]_vars

-----------------------------------------------------------------------------
InUse(p) == { b \in used : PageOf(b) = p }
Awaited(p) == { t \in Kthread : taken[t] # NULL /\ taken[t].page = p }
Linked(l) == { p \in Page : list_find(mem, l, p) }

\* Lists, counts and blocks agree, although a new page is pushed twice and a block is
\* popped after it has been counted (kernel/memory.c:183, :194, :210): the lists are well
\* linked; a page is in the list that its count says, and only there; the count is that of
\* the blocks in its list that nobody is about to pop; and a page is kept only for blocks
\* in use, which lie within it.
ListsTell ==
  /\ \A l \in Lists : WellLinked(mem, l)
  /\ \A i \in Idx :
       LET cut == { p \in Page : desc[p] # NULL /\ ~desc[p].large /\ desc[p].mlist_idx = i }
       IN /\ Linked(Part(i)) = { p \in cut : desc[p].remain > 0 }
          /\ Linked(Full(i)) = { p \in cut : desc[p].remain = 0 }
          /\ \A p \in cut :
               /\ Len(desc[p].block_list) = desc[p].remain + Cardinality(Awaited(p))
               /\ mem_block_count[i] - desc[p].remain = Cardinality(InUse(p)) + Cardinality(Awaited(p))
               /\ desc[p].remain < mem_block_count[i]
  /\ \A b \in used : Run(PageOf(b)) # {} /\
       b.start + b.len <= (PageOf(b) + 2 ^ desc[PageOf(b)].order) * PageUnits

\* Nobody is given memory that is in use.
Blocks == INSTANCE BlockAllocator WITH
  Address <- 0 .. NrPages * PageUnits - 1, owned <- used
ImplementsHeap == Blocks!Spec

=============================================================================
