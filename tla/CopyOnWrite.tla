----------------------------- MODULE CopyOnWrite ------------------------------
(***************************************************************************)
(* The user memory of processes: the copy on write of kernel/fork.c, the   *)
(* two page faults of kernel/memory.c and the replacement of the address   *)
(* space by kernel/exec.c, over the reference counts of the user pool.     *)
(*                                                                         *)
(* Faults and system calls begin with interrupts off, so each of them is   *)
(* one action up to the point where it reads the disk and other processes  *)
(* run.  An address space belongs to one process.  A page table entry is   *)
(* absent, or a frame with its write bit; page directories, and the frames *)
(* of page tables, which are never shared, are left out.  What a page holds*)
(* is where it came from: the program's file, zeros, the arguments of exec,*)
(* or the process that wrote it last.                                      *)
(***************************************************************************)
EXTENDS Integers, FiniteSets

CONSTANTS Proc,      \* address spaces; those of dead processes are not reused
          Page,      \* the pages of the linear areas do_mmap() has made
          FilePage,  \* those mapped to the program's file
          Stack,     \* the page do_exec() puts the arguments in
          Frame,     \* the frames of the user pool
          SharedBuffers, \* may a process pass a system call a buffer it shares?
          NULL

ASSUME CopyOnWriteAssumption ==
  /\ NULL \notin Frame \cup Page
  /\ FilePage \subseteq Page /\ Stack \in Page \ FilePage
  /\ IsFiniteSet(Proc) /\ IsFiniteSet(Page)
  /\ SharedBuffers \in BOOLEAN

VARIABLES state,      \* of the process
          pte,        \* its page table
          reading,    \* the page that page_not_present() is reading for it
          in_hand,    \* a frame it has taken and not mapped yet
          count,      \* page.count
          mem,        \* the contents of the frames
          assertions  \* "on", "off" in a build with NODEBUG, "failed"

vars == << state, pte, reading, in_hand, count, mem, assertions >>

Content == Proc \cup {"image", "zero", "args"}
Pte == [frame : Frame, rw : BOOLEAN]
ASSUME PteAssumption == NULL \notin Pte
ASSUME MemoryAssumption == NULL \notin [Page -> Content]

TypeOK ==
  /\ state \in [Proc -> {"none", "run", "fault", "exec", "dead"}]
  /\ \A m \in Proc, p \in Page : pte[m][p] \in Pte \cup {NULL}
  /\ reading \in [Proc -> Page \cup {NULL}]
  /\ in_hand \in [Proc -> Frame \cup {NULL}]
  /\ count \in [Frame -> Nat]
  /\ mem \in [Frame -> Content]
  /\ assertions \in {"on", "off", "failed"}

Mapped(m, p) == pte[m][p] # NULL
Writable(m, p) == Mapped(m, p) /\ pte[m][p].rw
Free == { f \in Frame : count[f] = 0 }

\* What page_not_present() will find for a page that is not mapped.
OnDemand(p) == IF p \in FilePage THEN "image" ELSE "zero"

NoPages == [p \in Page |-> NULL]

\* The first process after do_exec("/init").
Init ==
  \E m \in Proc, f \in Frame :
    /\ state = [n \in Proc |-> IF n = m THEN "run" ELSE "none"]
    /\ pte = [n \in Proc |-> IF n = m THEN [NoPages EXCEPT ![Stack] = [frame |-> f, rw |-> TRUE]]
                                      ELSE NoPages]
    /\ reading = [n \in Proc |-> NULL] /\ in_hand = [n \in Proc |-> NULL]
    /\ count = [g \in Frame |-> IF g = f THEN 1 ELSE 0]
    /\ mem = [g \in Frame |-> IF g = f THEN "args" ELSE "zero"]
    /\ assertions \in {"on", "off"}

-----------------------------------------------------------------------------
Goto(m, s) == state' = [state EXCEPT ![m] = s]

\* How often the page tables of `from' map f.
References(f, from) ==
  Cardinality({ mp \in from \X Page : Mapped(mp[1], mp[2]) /\ pte[mp[1]][mp[2]].frame = f })

\* A wrong variant of copy_pt: the parent's own entries stay as they are.
copy_pt_keeps_parent(m, n) ==
  /\ pte' = [pte EXCEPT ![n] = [p \in Page |-> IF Mapped(m, p) THEN [pte[m][p] EXCEPT !.rw = FALSE]
                                                               ELSE NULL]]
  /\ count' = [f \in Frame |-> count[f] + References(f, {m})]

\* A wrong variant of copy_pt: only pages that were writable are counted.
copy_pt_counts_writable(m, n) ==
  LET shared == [p \in Page |-> IF Mapped(m, p) THEN [pte[m][p] EXCEPT !.rw = FALSE] ELSE NULL]
  IN  /\ pte' = [pte EXCEPT ![m] = shared, ![n] = shared]
      /\ count' = [f \in Frame |->
           count[f] + Cardinality({ p \in Page : Writable(m, p) /\ pte[m][p].frame = f })]

\* copy_pt(): every page is made read-only for both, and has one more owner.
copy_pt(m, n) ==
  LET shared == [p \in Page |-> IF Mapped(m, p) THEN [pte[m][p] EXCEPT !.rw = FALSE] ELSE NULL]
  IN  /\ pte' = [pte EXCEPT ![m] = shared, ![n] = shared]
      /\ count' = [f \in Frame |-> count[f] + References(f, {m})]

\* do_fork(): the child gets a copy of everything else.
do_fork(m, n) ==
  /\ state[m] = "run" /\ state[n] = "none"
  /\ Goto(n, "run")
  /\ copy_pt(m, n)
  /\ UNCHANGED << reading, in_hand, mem, assertions >>

\* page_not_present() for the stack: a page of zeros.
page_not_present(m, p) ==
  /\ state[m] = "run" /\ ~ Mapped(m, p) /\ p \notin FilePage
  /\ \E f \in Free :
       /\ pte' = [pte EXCEPT ![m][p] = [frame |-> f, rw |-> TRUE]]
       /\ count' = [count EXCEPT ![f] = 1]
       /\ mem' = [mem EXCEPT ![f] = "zero"]
  /\ UNCHANGED << state, reading, in_hand, assertions >>

\* page_not_present() for a page of the file: it takes a frame and reads the disk.
file_read(m, p) ==
  /\ state[m] = "run" /\ ~ Mapped(m, p) /\ p \in FilePage
  /\ Goto(m, "fault") /\ reading' = [reading EXCEPT ![m] = p]
  /\ \E f \in Free :
       /\ in_hand' = [in_hand EXCEPT ![m] = f]
       /\ count' = [count EXCEPT ![f] = 1]
       /\ mem' = [mem EXCEPT ![f] = "zero"]
  /\ UNCHANGED << pte, assertions >>

\* The data is there: the frame is mapped.
install_page(m) ==
  /\ state[m] = "fault"
  /\ Goto(m, "run") /\ reading' = [reading EXCEPT ![m] = NULL]
  /\ in_hand' = [in_hand EXCEPT ![m] = NULL]
  /\ mem' = [mem EXCEPT ![in_hand[m]] = "image"]
  /\ pte' = [pte EXCEPT ![m][reading[m]] = [frame |-> in_hand[m], rw |-> TRUE]]
  /\ UNCHANGED << count, assertions >>

\* A wrong variant of page_protect_fault: the page is made writable while it is shared.
protect_fault_in_place(m, p) ==
  /\ state[m] = "run" /\ Mapped(m, p) /\ ~ Writable(m, p)
  /\ pte' = [pte EXCEPT ![m][p].rw = TRUE]
  /\ UNCHANGED << state, reading, in_hand, count, mem, assertions >>

\* page_protect_fault(): every linear area has VM_WRITE.  The last owner keeps the
\* frame, another gets a copy, and asserts that there was just one more owner.
page_protect_fault(m, p) ==
  LET old == pte[m][p].frame
      tmp == count[old]
  IN  /\ state[m] = "run" /\ Mapped(m, p) /\ ~ Writable(m, p)
      /\ IF tmp > 1
         THEN \E new \in Free :
                /\ pte' = [pte EXCEPT ![m][p] = [frame |-> new, rw |-> TRUE]]
                /\ count' = [count EXCEPT ![old] = @ - 1, ![new] = 1]
                /\ mem' = [mem EXCEPT ![new] = mem[old]]
                /\ assertions' =
                     IF assertions = "on" /\ tmp # count'[new] + 1 THEN "failed" ELSE assertions
         ELSE pte' = [pte EXCEPT ![m][p].rw = TRUE] /\ UNCHANGED << count, mem, assertions >>
      /\ UNCHANGED << state, reading, in_hand >>

\* The process writes to a page: the processor lets it if the entry does.
user_write(m, p) ==
  /\ state[m] = "run" /\ Writable(m, p)
  /\ mem' = [mem EXCEPT ![pte[m][p].frame] = m]
  /\ UNCHANGED << state, pte, reading, in_hand, count, assertions >>

\* A system call writes to the process's buffer.  The loader leaves CR0.WP clear: in
\* kernel mode the write bit does not count.
kernel_write(m, p) ==
  /\ state[m] = "run" /\ Mapped(m, p)
  /\ SharedBuffers \/ Writable(m, p)
  /\ mem' = [mem EXCEPT ![pte[m][p].frame] = m]
  /\ UNCHANGED << state, pte, reading, in_hand, count, assertions >>

\* do_exec(): the arguments are copied to a frame, then the program is read.
do_exec(m) ==
  /\ state[m] = "run" /\ Goto(m, "exec")
  /\ \E f \in Free :
       /\ in_hand' = [in_hand EXCEPT ![m] = f]
       /\ count' = [count EXCEPT ![f] = 1]
       /\ mem' = [mem EXCEPT ![f] = "args"]
  /\ UNCHANGED << pte, reading, assertions >>

\* exec_mmap(): each page that is mapped is freed once; the page table goes.
exec_mmap(m) == count' = [f \in Frame |-> count[f] - References(f, {m})]

\* The rest of do_exec(): the old memory goes, the arguments are mapped.
exec_loaded(m) ==
  /\ state[m] = "exec" /\ Goto(m, "run")
  /\ exec_mmap(m)
  /\ pte' = [pte EXCEPT ![m] = [NoPages EXCEPT ![Stack] = [frame |-> in_hand[m], rw |-> TRUE]]]
  /\ in_hand' = [in_hand EXCEPT ![m] = NULL]
  /\ UNCHANGED << reading, mem, assertions >>

\* sys_exit() frees nothing but the thread: the page table is never given up.
sys_exit(m) ==
  /\ state[m] = "run" /\ Goto(m, "dead")
  /\ UNCHANGED << pte, reading, in_hand, count, mem, assertions >>

Next ==
  /\ assertions # "failed"
  /\ \E m \in Proc :
       \/ do_exec(m) \/ exec_loaded(m) \/ install_page(m) \/ sys_exit(m)
       \/ \E n \in Proc : do_fork(m, n)
       \/ \E p \in Page :
            \/ page_not_present(m, p) \/ file_read(m, p) \/ page_protect_fault(m, p)
            \/ user_write(m, p) \/ kernel_write(m, p)

Spec == Init /\ [][Next]_vars

-----------------------------------------------------------------------------
\* page.count is the number of page table entries that map the frame, those of dead
\* processes included, and of processes that hold it and have not mapped it yet: no
\* frame is given out while it is mapped, and only sys_exit loses frames.
CountIsOwners ==
  \A f \in Frame :
    count[f] = References(f, Proc) + Cardinality({ m \in Proc : in_hand[m] = f })

\* A frame somebody can write to is mapped once and in nobody's hand.
WritableIsPrivate ==
  \A m \in Proc, p \in Page :
    Writable(m, p) =>
      /\ \A n \in Proc, q \in Page :
           Mapped(n, q) /\ pte[n][q].frame = pte[m][p].frame => << n, q >> = << m, p >>
      /\ \A n \in Proc : in_hand[n] # pte[m][p].frame

\* Processes have private memories: what one of them writes no other sees, sharing,
\* copying and loading on demand notwithstanding.
View(m) == [p \in Page |-> IF Mapped(m, p) THEN mem[pte[m][p].frame] ELSE OnDemand(p)]
Private ==
  INSTANCE PrivateMemories WITH
    Loaded <- [[p \in Page |-> OnDemand(p)] EXCEPT ![Stack] = "args"],
    memory <- [m \in Proc |-> IF state[m] \in {"none", "dead"} THEN NULL ELSE View(m)]
ImplementsPrivate == Private!Spec

=============================================================================
