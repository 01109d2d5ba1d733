--------------------------------- MODULE IDE ---------------------------------
(***************************************************************************)
(* The driver of one IDE channel, device/ide.c, with its two disks.        *)
(*                                                                         *)
(* Threads call ide_read and ide_write; the channel's mutex admits one of  *)
(* them, which programs the controller and waits on the semaphore disk_done*)
(* for intr_hd_handler to post it.  The interrupt is taken between any two *)
(* steps: a caller with interrupts on can be hit anywhere, and while a     *)
(* caller with interrupts off is blocked another thread or idle is hit.    *)
(* The mutex and the semaphore are used as what Mutex and Semaphore show   *)
(* them to implement.                                                      *)
(*                                                                         *)
(* The controller is external; it does what the driver relies on.  A       *)
(* command takes time.  A read interrupts whenever a sector can be fetched,*)
(* a write whenever one has been taken.  Between the sectors of a command  *)
(* there is no delay, as in an emulated disk: the driver moves all of them *)
(* by one insw or outsw and could not wait.  The interrupt line is edge-   *)
(* triggered (pic_init); reading the status register or writing the command*)
(* register lowers it.                                                     *)
(***************************************************************************)
EXTENDS Integers, Sequences

CONSTANTS Thread,
          Disk,       \* the disks of the channel
          NrSectors,  \* the sectors of each
          MaxOp,      \* 256: what an 8-bit sector count can ask for at once
          NULL

ASSUME IDEAssumption ==
  /\ NULL \notin Thread
  /\ NrSectors \in Nat \ {0} /\ MaxOp \in Nat \ {0}

Lba == 0 .. NrSectors - 1
\* The calls a thread may make.
Request ==
  { r \in [op : {"read", "write"}, disk : Disk, lba : Lba, n : 1 .. NrSectors] :
      r.lba + r.n <= NrSectors }

ASSUME RequestAssumption == NULL \notin [thread : Thread, req : Request]

\* What was in a sector at first, and what a write puts there.
Old(d, s) == << d, s >>
New == "new"

VARIABLES holder,          \* of the channel's mutex
          expecting_intr,
          disk_done,       \* the count of the semaphore
          pc, req,         \* where each thread is, and its call
          secs_done, left, \* sectors of earlier commands, and left of this one
          buf,             \* what it has read
          regs,            \* the disk, lba and sector count registers
          ctl,             \* the state of the controller
          intrq,           \* its interrupt line: "low", raised and "pending", or "taken"
          sectors          \* the contents of the disks

driver == << holder, expecting_intr, disk_done >>
caller == << pc, req, secs_done, left, buf >>
device == << regs, ctl, intrq, sectors >>
vars == << driver, caller, device >>

Labels == {"out", "select", "expect", "command", "wait", "blocked", "busy", "data", "next", "panic"}

TypeOK ==
  /\ holder \in Thread \cup {NULL}
  /\ expecting_intr \in BOOLEAN
  /\ disk_done \in {-1, 0, 1}
  /\ pc \in [Thread -> Labels]
  /\ \A t \in Thread : req[t] \in Request \cup {NULL}
  /\ secs_done \in [Thread -> 0 .. NrSectors]
  /\ left \in [Thread -> 0 .. MaxOp]
  /\ intrq \in {"low", "pending", "taken"}

Idle == [op |-> NULL, busy |-> FALSE, drq |-> FALSE, disk |-> NULL, lba |-> 0, left |-> 0]

\* The channel after ide_init() has identified its disks.
Init ==
  /\ holder = NULL /\ expecting_intr = FALSE /\ disk_done = 0
  /\ pc = [t \in Thread |-> "out"]
  /\ req = [t \in Thread |-> NULL]
  /\ secs_done = [t \in Thread |-> 0]
  /\ left = [t \in Thread |-> 0]
  /\ buf = [t \in Thread |-> << >>]
  /\ regs = [disk |-> NULL, lba |-> 0, cnt |-> 0]
  /\ ctl = Idle
  /\ intrq = "low"
  /\ sectors = [d \in Disk |-> [s \in Lba |-> Old(d, s)]]

-----------------------------------------------------------------------------
\* External: the controller.

\* An interrupt is requested; only a rising edge is noticed.
Raised == IF intrq = "low" THEN "pending" ELSE intrq

\* A sector count of 0 means the largest one.
Sectors(cnt) == IF cnt = 0 THEN MaxOp ELSE cnt

\* The command register is written.
Accept(op) ==
  /\ ctl' = [op |-> op, busy |-> TRUE, drq |-> FALSE,
             disk |-> regs.disk, lba |-> regs.lba, left |-> Sectors(regs.cnt)]
  /\ intrq' = "low"

\* The command gets ready for its first sector.
Ready ==
  /\ ctl.busy
  /\ ctl' = [ctl EXCEPT !.busy = FALSE, !.drq = TRUE]
  /\ intrq' = IF ctl.op = "read" THEN Raised ELSE intrq
  /\ UNCHANGED << driver, caller, regs, sectors >>

\* A sector has passed through the data register.
Passed ==
  /\ ctl' = IF ctl.left = 1 THEN Idle ELSE [ctl EXCEPT !.left = @ - 1, !.lba = @ + 1]
  /\ intrq' = IF ctl.op = "write" \/ ctl.left > 1 THEN Raised ELSE intrq

-----------------------------------------------------------------------------
At(t, l) == pc[t] = l
Goto(t, l) == pc' = [pc EXCEPT ![t] = l]

\* A call of ide_read() or ide_write() gets the mutex.
mutex_acquire(t, r) ==
  /\ At(t, "out") /\ holder = NULL
  /\ holder' = t /\ Goto(t, "select")
  /\ req' = [req EXCEPT ![t] = r]
  /\ UNCHANGED << expecting_intr, disk_done, secs_done, left, buf, device >>

\* secs_op: the sectors of the next command.
secs_op(t) ==
  IF secs_done[t] + MaxOp <= req[t].n THEN MaxOp ELSE req[t].n - secs_done[t]

\* A wrong variant of select_sector: every command starts at the first sector of
\* the request.
select_first_sector(t) ==
  /\ At(t, "select") /\ Goto(t, "expect")
  /\ regs' = [disk |-> req[t].disk, lba |-> req[t].lba, cnt |-> secs_op(t) % MaxOp]
  /\ left' = [left EXCEPT ![t] = secs_op(t)]
  /\ UNCHANGED << driver, req, secs_done, buf, ctl, intrq, sectors >>

\* select_disk() and select_sector(); the count loses its ninth bit.
select_sector(t) ==
  /\ At(t, "select") /\ Goto(t, "expect")
  /\ regs' = [disk |-> req[t].disk, lba |-> req[t].lba + secs_done[t], cnt |-> secs_op(t) % MaxOp]
  /\ left' = [left EXCEPT ![t] = secs_op(t)]
  /\ UNCHANGED << driver, req, secs_done, buf, ctl, intrq, sectors >>

\* A wrong variant of Expect: the flag is not set.
expect_nothing(t) ==
  /\ At(t, "expect") /\ Goto(t, "command")
  /\ UNCHANGED << driver, req, secs_done, left, buf, device >>

\* cmd_out(): the flag, then the command.  A write begins at once to wait for the
\* controller, a read only after the interrupt.
Expect(t) ==
  /\ At(t, "expect") /\ Goto(t, "command")
  /\ expecting_intr' = TRUE
  /\ UNCHANGED << holder, disk_done, req, secs_done, left, buf, device >>

cmd_out(t) ==
  /\ At(t, "command") /\ Goto(t, IF req[t].op = "read" THEN "wait" ELSE "busy")
  /\ Accept(req[t].op)
  /\ UNCHANGED << driver, req, secs_done, left, buf, regs, sectors >>

AfterWait(t) == IF req[t].op = "read" THEN "busy" ELSE "next"

\* sema_wait(disk_done)
sema_wait(t) ==
  /\ At(t, "wait") /\ Goto(t, IF disk_done > 0 THEN AfterWait(t) ELSE "blocked")
  /\ disk_done' = disk_done - 1
  /\ UNCHANGED << holder, expecting_intr, req, secs_done, left, buf, device >>

\* A wrong variant of busy_wait: its time may be up while the controller is busy.
busy_wait_expires(t) ==
  /\ At(t, "busy")
  /\ Goto(t, IF ~ ctl.busy /\ ctl.drq THEN "data" ELSE "panic")
  /\ intrq' = "low"
  /\ UNCHANGED << driver, req, secs_done, left, buf, regs, ctl, sectors >>

\* busy_wait() sleeps until the controller is not busy: its time limit is
\* unsigned and never below 0.  Without DRQ the caller panics.
busy_wait(t) ==
  /\ At(t, "busy") /\ ~ ctl.busy
  /\ Goto(t, IF ctl.drq THEN "data" ELSE "panic")
  /\ intrq' = "low"
  /\ UNCHANGED << driver, req, secs_done, left, buf, regs, ctl, sectors >>

\* read_from_sector(), one sector of it; NULL stands for what is read when there
\* is nothing to read.
read_from_sector(t) ==
  /\ At(t, "data") /\ req[t].op = "read"
  /\ Goto(t, IF left[t] = 1 THEN "next" ELSE "data")
  /\ left' = [left EXCEPT ![t] = @ - 1]
  /\ IF ctl.drq /\ ctl.op = "read"
     THEN buf' = [buf EXCEPT ![t] = Append(@, sectors[ctl.disk][ctl.lba])] /\ Passed
     ELSE buf' = [buf EXCEPT ![t] = Append(@, NULL)] /\ UNCHANGED << ctl, intrq >>
  /\ UNCHANGED << driver, req, secs_done, regs, sectors >>

\* write2sector(), one sector of it.
write2sector(t) ==
  /\ At(t, "data") /\ req[t].op = "write"
  /\ Goto(t, IF left[t] = 1 THEN "wait" ELSE "data")
  /\ left' = [left EXCEPT ![t] = @ - 1]
  /\ IF ctl.drq /\ ctl.op = "write"
     THEN sectors' = [sectors EXCEPT ![ctl.disk][ctl.lba] = New] /\ Passed
     ELSE UNCHANGED << sectors, ctl, intrq >>
  /\ UNCHANGED << driver, req, secs_done, buf, regs >>

\* The end of the loop: another command, or mutex_release() and return.
LoopEnd(t) ==
  /\ At(t, "next")
  /\ IF secs_done[t] + secs_op(t) < req[t].n
     THEN /\ secs_done' = [secs_done EXCEPT ![t] = @ + secs_op(t)]
          /\ Goto(t, "select")
          /\ UNCHANGED << holder, req, buf >>
     ELSE /\ holder' = NULL /\ Goto(t, "out")
          /\ req' = [req EXCEPT ![t] = NULL]
          /\ secs_done' = [secs_done EXCEPT ![t] = 0]
          /\ buf' = [buf EXCEPT ![t] = << >>]
  /\ UNCHANGED << expecting_intr, disk_done, left, device >>

\* A wrong variant of intr_hd_handler: every interrupt is taken for expected.
handler_always_posts ==
  /\ intrq = "pending"
  /\ disk_done' = disk_done + 1
  /\ pc' = [t \in Thread |-> IF At(t, "blocked") THEN AfterWait(t) ELSE pc[t]]
  /\ intrq' = "low"
  /\ UNCHANGED << holder, expecting_intr, req, secs_done, left, buf, regs, ctl, sectors >>

\* intr_hd_handler(): post, and acknowledge by reading the status register, but
\* only if an interrupt is expected.
intr_hd_handler ==
  /\ intrq = "pending"
  /\ IF expecting_intr
     THEN /\ expecting_intr' = FALSE
          /\ disk_done' = disk_done + 1
          /\ pc' = [t \in Thread |-> IF At(t, "blocked") THEN AfterWait(t) ELSE pc[t]]
          /\ intrq' = "low"
     ELSE /\ intrq' = "taken"
          /\ UNCHANGED << expecting_intr, disk_done, pc >>
  /\ UNCHANGED << holder, req, secs_done, left, buf, regs, ctl, sectors >>

GoesOn(t) ==
  \/ select_sector(t) \/ Expect(t) \/ cmd_out(t) \/ sema_wait(t) \/ busy_wait(t)
  \/ read_from_sector(t) \/ write2sector(t) \/ LoopEnd(t)

Next ==
  \/ \E t \in Thread : GoesOn(t) \/ \E r \in Request : mutex_acquire(t, r)
  \/ intr_hd_handler
  \/ Ready

\* The thread inside is scheduled (KThread!ReadyRuns), the controller finishes
\* its commands, and its interrupt is taken.  Nothing is assumed of who gets the
\* mutex.
Fairness == (\A t \in Thread : WF_vars(GoesOn(t))) /\ WF_vars(Ready) /\ WF_vars(intr_hd_handler)

Spec == Init /\ [][Next]_vars
FairSpec == Spec /\ Fairness

-----------------------------------------------------------------------------
\* No permit, no expectation and no command outlives its request: a post left
\* over from the interrupts of several sectors would let the next request go on
\* before its data is there.
NothingLeftOver ==
  holder = NULL => disk_done = 0 /\ ~ expecting_intr /\ ~ ctl.busy /\ ~ ctl.drq

\* Whoever waits will be posted: the interrupt is expected, and it is pending, or
\* the controller is still to raise it.  cmd_out sets the flag before it gives the
\* command, because the answer may come at once.
WaiterWillBePosted ==
  \A t \in Thread : At(t, "blocked") => expecting_intr /\ (intrq = "pending" \/ ctl.busy)

\* busy_wait never returns false: when the controller is no longer busy it has a
\* sector to give or to take.
NoPanic == \A t \in Thread : ~ At(t, "panic")

\* The driver implements the sequential disk: the sectors that go through the
\* controller are those the holder's request names, in order, also when it takes
\* several commands and the 8-bit count wraps; and every request that has got the
\* mutex comes to its end.
Moved(t) == secs_done[t] + (IF At(t, "select") THEN 0 ELSE secs_op(t) - left[t])
SeqDisk ==
  INSTANCE SequentialDisk WITH
    Content <- {[d \in Disk |-> [s \in Lba |-> Old(d, s)]]},
    active <- IF holder = NULL THEN NULL ELSE [thread |-> holder, req |-> req[holder]],
    moved <- IF holder = NULL THEN 0 ELSE Moved(holder),
    buf <- IF holder = NULL THEN << >> ELSE buf[holder]
ImplementsDisk == SeqDisk!Spec

=============================================================================
