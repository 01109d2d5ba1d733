-------------------------------- MODULE Buddy --------------------------------
(***************************************************************************)
(* The buddy allocator of page frames, kernel/buddy.c.                     *)
(*                                                                         *)
(* alloc_pages runs with interrupts off throughout.  __free_pages counts   *)
(* down with the interrupts as the caller has them and turns them off only *)
(* for the merge: in between, the block belongs to nobody and other threads*)
(* may allocate and free.                                                  *)
(***************************************************************************)
EXTENDS Integers, SequencesExt, FiniteSets

CONSTANTS MAX_ORDER,  \* the order of the largest block
          NrMax,      \* nr_max_order: the blocks of that order in the machine
          Reserved,   \* those that pool_init allocates for the kernel itself
          MaxHeld,    \* a bound on the blocks held or being freed, Reserved excepted
          MaxRefs     \* a bound on how many processes share a page

ASSUME BuddyAssumption ==
  /\ MAX_ORDER \in Nat /\ NrMax \in Nat /\ NrMax >= 4
  /\ Reserved \in 0 .. NrMax \div 4
  /\ MaxHeld \in Nat /\ MaxRefs \in Nat \ {0}

Order == 0 .. MAX_ORDER
\* 1 << o, by doubling.
PowerOf2[o \in 0 .. MAX_ORDER + 1] == IF o = 0 THEN 1 ELSE 2 * PowerOf2[o - 1]
Size(o) == PowerOf2[o]
Page == 0 .. NrMax * Size(MAX_ORDER) - 1
Pool == {"kernel", "user"}

\* The kernel gets a quarter of the blocks, the lower ones; the user the rest.
kernel_nr == NrMax \div 4
user_start_idx == kernel_nr * Size(MAX_ORDER)
PoolPages == [kernel |-> 0 .. user_start_idx - 1, user |-> Page \ (0 .. user_start_idx - 1)]
PoolOf(idx) == IF idx >= user_start_idx THEN "user" ELSE "kernel"

\* The length of a pool's bitmap for order o, in bits.
BitmapLen(pool, o) ==
  (IF pool = "kernel" THEN kernel_nr ELSE NrMax - kernel_nr) * Size(MAX_ORDER - o)

\* The bit of the block at idx and its buddy.  idx counts from the first page of
\* the machine, in either pool.
Bit(idx, o) == idx \div Size(o + 1)

VARIABLES pg_list,  \* free_area.pg_list: the free blocks, by their first page
          nr_free,  \* free_area.nr_free
          bmap,     \* free_area.bmap: the bits that are set
          count,    \* page.count
          private,  \* page.private: the order of the block that starts at the page
          freeing   \* the blocks that __free_pages has yet to merge

vars == << pg_list, nr_free, bmap, count, private, freeing >>

TypeOK ==
  /\ pg_list \in [Pool -> [Order -> Seq(Page)]]
  /\ nr_free \in [Pool -> [Order -> Nat]]
  /\ bmap \in [Pool -> [Order -> SUBSET Nat]]
  /\ count \in [Page -> 0 .. MaxRefs]
  /\ private \in [Page -> Order]
  /\ freeing \subseteq Page

-----------------------------------------------------------------------------
\* The first pages of the blocks of order MAX_ORDER from the m-th to the n-th.
Blocks(m, n) == [i \in 1 .. n - m |-> (m + i - 1) * Size(MAX_ORDER)]

\* buddy_init(), and pool_init() which then allocates the first blocks of the
\* kernel pool for the kernel, its page tables and mem_map.  The descriptors are
\* not cleared; count and private are not read before alloc_pages has set them.
Init ==
  /\ pg_list = [pool \in Pool |-> [o \in Order |->
       IF o < MAX_ORDER THEN << >>
       ELSE IF pool = "kernel" THEN Blocks(Reserved, kernel_nr) ELSE Blocks(kernel_nr, NrMax)]]
  /\ nr_free = [pool \in Pool |-> [o \in Order |->
       IF o < MAX_ORDER THEN 0
       ELSE IF pool = "kernel" THEN kernel_nr - Reserved ELSE NrMax - kernel_nr]]
  /\ bmap = [pool \in Pool |-> [o \in Order |->
       IF pool = "kernel" /\ o = MAX_ORDER
       THEN { b \in 0 .. kernel_nr : Reserved \div 2 = b /\ Reserved % 2 = 1 } ELSE {}]]
  /\ count = [p \in Page |-> IF p \in { i * Size(MAX_ORDER) : i \in 0 .. Reserved - 1 } THEN 1 ELSE 0]
  /\ private = [p \in Page |-> MAX_ORDER]
  /\ freeing = {}

ReservedPages == 0 .. Reserved * Size(MAX_ORDER) - 1
Held == { p \in Page \ ReservedPages : count[p] > 0 }

\* A wrong variant of reverse: the bit is only ever set.
reverse_sets(bits, b) == bits \cup {b}

\* bitmap_reverse()
reverse(bits, b) == IF b \in bits THEN bits \ {b} ELSE bits \cup {b}

\* alloc_pages(): the first block of the smallest order there is, from order
\* upwards; while it is too large its upper half goes back, one order below.
\* With no such block the code panics.
alloc_pages(pool, order) ==
  /\ Cardinality(Held \cup freeing) < MaxHeld
  /\ \E o \in order .. MAX_ORDER :
       /\ nr_free[pool][o] > 0
       /\ \A p \in order .. o - 1 : nr_free[pool][p] = 0
       /\ LET idx == Head(pg_list[pool][o])
              split == order .. o - 1
          IN  /\ pg_list' = [pg_list EXCEPT ![pool] = [p \in Order |->
                   IF p = o THEN Tail(@[p])
                   ELSE IF p \in split THEN Append(@[p], idx + Size(p)) ELSE @[p]]]
              /\ nr_free' = [nr_free EXCEPT ![pool] = [p \in Order |->
                   IF p = o THEN @[p] - 1 ELSE IF p \in split THEN @[p] + 1 ELSE @[p]]]
              /\ bmap' = [bmap EXCEPT ![pool] = [p \in Order |->
                   IF p \in order .. o THEN reverse(@[p], Bit(idx, p)) ELSE @[p]]]
              /\ count' = [count EXCEPT ![idx] = 1]
              /\ private' = [private EXCEPT ![idx] = order]
  /\ UNCHANGED freeing

\* copy_pt() shares a user page with one more process.
share(idx) ==
  /\ idx \in Held /\ PoolOf(idx) = "user" /\ private[idx] = 0
  /\ count[idx] < MaxRefs
  /\ count' = [count EXCEPT ![idx] = @ + 1]
  /\ UNCHANGED << pg_list, nr_free, bmap, private, freeing >>

\* A wrong variant of __free_pages: the first owner to free the block frees it.
free_pages_shared(idx) ==
  /\ idx \in Held
  /\ count' = [count EXCEPT ![idx] = @ - 1]
  /\ freeing' = freeing \cup {idx}
  /\ UNCHANGED << pg_list, nr_free, bmap, private >>

\* __free_pages() by one of the owners, who passes the order of its block: it
\* returns if there are other owners.
__free_pages(idx) ==
  /\ idx \in Held
  /\ count' = [count EXCEPT ![idx] = @ - 1]
  /\ freeing' = IF count[idx] > 1 THEN freeing ELSE freeing \cup {idx}
  /\ UNCHANGED << pg_list, nr_free, bmap, private >>

\* A wrong variant of Aligned: the merged block starts where the freed one did.
Aligned_not(idx, o) == idx

\* The first page of the block of order o that idx is in, and of its buddy.
Aligned(idx, o) == idx - (idx % Size(o))
BuddyOf(idx, o) ==
  IF Aligned(idx, o) % Size(o + 1) = 0 THEN Aligned(idx, o) + Size(o) ELSE Aligned(idx, o) - Size(o)

\* The order at which the merge of the block stops: the first one whose bit says
\* that the buddy is not free, or MAX_ORDER.
MergedOrder(idx) ==
  LET bits == bmap[PoolOf(idx)]
  IN  CHOOSE m \in private[idx] .. MAX_ORDER :
        /\ m = MAX_ORDER \/ Bit(idx, m) \notin bits[m]
        /\ \A o \in private[idx] .. m - 1 : Bit(idx, o) \in bits[o]

\* list_delete() of an element that is there.
list_delete(l, e) == RemoveAt(l, CHOOSE i \in DOMAIN l : l[i] = e)

\* The rest of __free_pages(): up to that order each buddy is taken off its list
\* (list_delete asserts that it is there), and the merged block is put in front.
Merge(idx) ==
  LET pool == PoolOf(idx)
      m    == MergedOrder(idx)
      merged == private[idx] .. m - 1
  IN
  /\ idx \in freeing
  /\ \A o \in merged : \E i \in DOMAIN pg_list[pool][o] : pg_list[pool][o][i] = BuddyOf(idx, o)
  /\ pg_list' = [pg_list EXCEPT ![pool] = [o \in Order |->
       IF o = m THEN << Aligned(idx, m) >> \o @[o]
       ELSE IF o \in merged THEN list_delete(@[o], BuddyOf(idx, o)) ELSE @[o]]]
  /\ nr_free' = [nr_free EXCEPT ![pool] = [o \in Order |->
       IF o = m THEN @[o] + 1 ELSE IF o \in merged THEN @[o] - 1 ELSE @[o]]]
  /\ bmap' = [bmap EXCEPT ![pool] = [o \in Order |->
       IF o \in private[idx] .. m /\ o < MAX_ORDER THEN reverse(@[o], Bit(idx, o)) ELSE @[o]]]
  /\ freeing' = freeing \ {idx}
  /\ UNCHANGED << count, private >>

Next ==
  \/ \E pool \in Pool, order \in Order : alloc_pages(pool, order)
  \/ \E idx \in Page : share(idx) \/ __free_pages(idx) \/ Merge(idx)

Spec == Init /\ [][Next]_vars

-----------------------------------------------------------------------------
\* The blocks in existence, as << first page, order >>: free, owned, or between
\* the two.
FreeBlocks(pool) ==
  UNION { { << pg_list[pool][o][i], o >> : i \in DOMAIN pg_list[pool][o] } : o \in Order }
UsedBlocks == { << p, private[p] >> : p \in { q \in Page : count[q] > 0 } \cup freeing }
AllBlocks == FreeBlocks("kernel") \cup FreeBlocks("user") \cup UsedBlocks
PagesOf(b) == b[1] .. b[1] + Size(b[2]) - 1

\* The blocks cover every page of the machine exactly once: no page is given out
\* twice or lost, whatever is split and merged while blocks wait to be merged.
EachPageOnce ==
  /\ \A p \in Page : \E b \in AllBlocks : p \in PagesOf(b)
  /\ \A b, c \in AllBlocks : b # c => PagesOf(b) \cap PagesOf(c) = {}

\* nr_free, by which alloc_pages decides that a list has a block, is its length.
NrFreeCounts ==
  \A pool \in Pool, o \in Order : nr_free[pool][o] = Len(pg_list[pool][o])

\* list_delete in the merge finds the buddy it is told to remove.
BuddyListed ==
  \A idx \in freeing : \A o \in private[idx] .. MergedOrder(idx) - 1 :
    \E i \in DOMAIN pg_list[PoolOf(idx)][o] : pg_list[PoolOf(idx)][o][i] = BuddyOf(idx, o)

\* A bit is set exactly when one of its two buddies is free at that order and
\* the other is not: the merge relies on it instead of looking for the buddy.
\* Never are both free, so that memory does not stay in pieces.  (The bits of
\* MAX_ORDER are reversed by alloc_pages only, and mean nothing.)  A pool's bitmaps
\* are sized for its own blocks but indexed from page 0 of the machine: no index is
\* beyond their lengths all the same, because the user pool is the larger one.  So
\* the counts tell whether a list has a block, and a merge finds the buddy it removes.
BitmapTells ==
  /\ NrFreeCounts /\ BuddyListed
  /\ \A pool \in Pool :
      /\ \A o \in 0 .. MAX_ORDER - 1 :
           LET free == { b[1] : b \in { c \in FreeBlocks(pool) : c[2] = o } }
           IN  /\ bmap[pool][o] = { Bit(p, o) : p \in free }
               /\ \A p \in free : BuddyOf(p, o) \notin free
      /\ \A o \in Order : \A b \in bmap[pool][o] : b < BitmapLen(pool, o)

\* The allocator implements the abstract one.
Owned == { [first |-> p, size |-> Size(private[p]), refs |-> count[p]] :
             p \in { q \in Page : count[q] > 0 } }
Allocator == INSTANCE PageAllocator WITH
               Sizes <- { Size(o) : o \in Order }, owned <- Owned
ImplementsAllocator == Allocator!Spec

=============================================================================
