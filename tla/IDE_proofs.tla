------------------------------ MODULE IDE_proofs ------------------------------
(***************************************************************************)
(* Theorems about the IDE driver, for any threads, disks and sectors and   *)
(* any limit of sectors per command: nothing of a request is left over for *)
(* the next, whoever waits will be posted, busy_wait never fails, and the  *)
(* driver serves one request at a time, its sectors in order.              *)
(*                                                                         *)
(* What makes them inductive is where the one permit of a command is: while*)
(* the command is under way the interrupt is expected, or it has been      *)
(* posted, perhaps by an interrupt that an earlier command had left        *)
(* pending; never both and never neither.                                  *)
(***************************************************************************)
EXTENDS IDE, TLAPS

Reads(t) == req[t].op = "read"
Calm == ~ ctl.busy /\ ~ ctl.drq
Unasked == disk_done = 0 /\ ~ expecting_intr
Asked == disk_done = IF expecting_intr THEN 0 ELSE 1

\* Before the first sector of the command, which is as the holder t has asked for it.
Begun(t) ==
  /\ ctl.op = req[t].op /\ ctl.disk = req[t].disk
  /\ ctl.lba = req[t].lba + secs_done[t] + secs_op(t) - left[t]
  /\ ctl.left = left[t]

\* The permit, at each place where the holder t may be.
Permits(t) ==
  /\ pc[t] \in {"select", "expect", "next"} => Unasked
  /\ pc[t] \in {"command", "wait"} => Asked
  /\ pc[t] \in {"busy", "data"} => IF Reads(t) THEN Unasked ELSE Asked
  /\ pc[t] = "blocked" => disk_done = -1 /\ expecting_intr

\* The controller,
Device(t) ==
  /\ pc[t] \in {"select", "expect", "command", "next"} => Calm
  /\ pc[t] \in {"wait", "blocked"} =>
       IF Reads(t) THEN Begun(t) /\ (ctl.drq <=> ~ ctl.busy) ELSE Calm
  /\ pc[t] = "busy" => Begun(t) /\ (ctl.drq <=> ~ ctl.busy)
  /\ pc[t] = "data" => Begun(t) /\ ctl.drq /\ ~ ctl.busy

\* its interrupt line,
Line(t) ==
  /\ ctl.busy => intrq = "low"
  /\ pc[t] \in {"wait", "blocked"} /\ expecting_intr => intrq = "pending" \/ ctl.busy
  /\ pc[t] \in {"busy", "data"} /\ expecting_intr => intrq # "taken"

\* and the sectors that are left.
Left(t) ==
  /\ pc[t] \in {"expect", "command"} =>
       /\ regs = [disk |-> req[t].disk, lba |-> req[t].lba + secs_done[t], cnt |-> secs_op(t) % MaxOp]
       /\ left[t] = secs_op(t)
  /\ pc[t] = "busy" => left[t] = secs_op(t)
  /\ pc[t] \in {"wait", "blocked"} => left[t] = IF Reads(t) THEN secs_op(t) ELSE 0
  /\ pc[t] = "data" => left[t] \in 1 .. secs_op(t)
  /\ pc[t] = "next" => left[t] = 0

Inside(t) ==
  /\ pc[t] \in Labels \ {"out", "panic"}
  /\ req[t] \in Request /\ secs_done[t] < req[t].n
  /\ Permits(t) /\ Device(t) /\ Line(t) /\ Left(t)

Fields ==
  /\ DOMAIN buf = Thread
  /\ ctl = [op |-> ctl.op, busy |-> ctl.busy, drq |-> ctl.drq,
            disk |-> ctl.disk, lba |-> ctl.lba, left |-> ctl.left]
  /\ ctl.busy \in BOOLEAN /\ ctl.drq \in BOOLEAN

\* Whoever is outside starts over.
Apart == \A t \in Thread : t # holder => pc[t] = "out" /\ secs_done[t] = 0 /\ buf[t] = << >>

IInv ==
  /\ TypeOK /\ DOMAIN req = Thread /\ Fields /\ Apart
  /\ holder = NULL => Calm /\ Unasked
  /\ holder # NULL => Inside(holder)

-----------------------------------------------------------------------------
\* A command asks for one sector at least, for no more than its count can say, and not
\* for more than the request has left.
LEMMA SecsOp ==
  ASSUME NEW t \in Thread, req[t] \in Request, secs_done[t] \in Nat, secs_done[t] < req[t].n
  PROVE  /\ secs_op(t) \in 1 .. MaxOp
         /\ secs_done[t] + secs_op(t) <= req[t].n
         /\ req[t].n \in 1 .. NrSectors /\ req[t].lba \in Nat
         /\ req[t].op \in {"read", "write"}
<1>1. /\ req[t].n \in 1 .. NrSectors /\ req[t].lba \in Nat
      /\ req[t].op \in {"read", "write"}
  BY IDEAssumption DEF Request, Lba
<1>2. MaxOp \in Nat \ {0} /\ NrSectors \in Nat
  BY IDEAssumption
<1>3. QED
  BY <1>1, <1>2 DEF secs_op

\* The controller reads a count as it was meant, although the largest is passed as 0.
LEMMA CountMeant ==
  ASSUME NEW n \in 1 .. MaxOp
  PROVE  Sectors(n % MaxOp) = n
<1>1. MaxOp \in Nat \ {0}
  BY IDEAssumption
<1>2. CASE n = MaxOp
  <2>1. n % MaxOp = 0
    BY <1>1, <1>2
  <2>2. QED
    BY <1>2, <2>1 DEF Sectors
<1>3. CASE n # MaxOp
  <2>1. n \in 1 .. MaxOp - 1
    BY <1>1, <1>3
  <2>2. n % MaxOp = n
    BY <1>1, <2>1
  <2>3. QED
    BY <2>1, <2>2 DEF Sectors
<1>4. QED
  BY <1>2, <1>3

LEMMA InitIInv == Init => IInv
<1> SUFFICES ASSUME Init PROVE IInv
  OBVIOUS
<1>1. TypeOK /\ DOMAIN req = Thread
  <2>1. holder \in Thread \cup {NULL} /\ expecting_intr \in BOOLEAN /\ disk_done \in {-1, 0, 1}
    BY DEF Init
  <2>2. pc \in [Thread -> Labels] /\ intrq \in {"low", "pending", "taken"}
    BY DEF Init, Labels
  <2>3. DOMAIN req = Thread /\ \A t \in Thread : req[t] \in Request \cup {NULL}
    BY DEF Init
  <2>4. secs_done \in [Thread -> 0 .. NrSectors] /\ left \in [Thread -> 0 .. MaxOp]
    BY IDEAssumption DEF Init
  <2>5. QED
    BY <2>1, <2>2, <2>3, <2>4 DEF TypeOK
<1>2. Fields
  BY DEF Init, Fields, Idle
<1>3. QED
  BY <1>1, <1>2 DEF Init, IInv, Apart, Calm, Unasked, Idle

-----------------------------------------------------------------------------
\* Who is not outside holds the mutex, and has a command of a meaningful size.
LEMMA HolderActs ==
  ASSUME IInv, NEW t \in Thread, pc[t] # "out"
  PROVE  /\ t = holder /\ holder # NULL /\ Inside(t)
         /\ TypeOK /\ Fields /\ DOMAIN req = Thread
         /\ secs_op(t) \in 1 .. MaxOp /\ secs_done[t] \in Nat /\ left[t] \in Nat
         /\ secs_done[t] + secs_op(t) <= req[t].n
         /\ req[t].n \in 1 .. NrSectors /\ req[t].lba \in Nat
         /\ req[t].op \in {"read", "write"}
         /\ MaxOp \in Nat /\ NrSectors \in Nat
<1>1. t = holder /\ holder # NULL /\ Inside(t) /\ TypeOK /\ Fields /\ DOMAIN req = Thread
  BY IDEAssumption DEF IInv, Apart
<1>2. secs_done[t] \in Nat /\ left[t] \in Nat /\ MaxOp \in Nat /\ NrSectors \in Nat
  BY <1>1, IDEAssumption DEF TypeOK
<1>3. req[t] \in Request /\ secs_done[t] < req[t].n
  BY <1>1 DEF Inside
<1>4. QED
  BY <1>1, <1>2, <1>3, SecsOp

\* What a step of the holder, within its call, must give.
LEMMA StaysInside ==
  ASSUME IInv, NEW t \in Thread, t = holder, holder' = holder, NEW l,
         pc' = [pc EXCEPT ![t] = l],
         TypeOK', Fields', req' = req, Inside(t)',
         \A u \in Thread \ {t} : secs_done'[u] = secs_done[u] /\ buf'[u] = buf[u]
  PROVE  IInv'
<1>1. Apart'
  BY DEF IInv, Apart, TypeOK
<1>2. holder # NULL
  BY IDEAssumption
<1>3. QED
  BY <1>1, <1>2 DEF IInv

LEMMA SelectKeeps ==
  ASSUME IInv, NEW t \in Thread, select_sector(t)
  PROVE  IInv'
<1>1. /\ pc[t] = "select" /\ pc' = [pc EXCEPT ![t] = "expect"]
      /\ regs' = [disk |-> req[t].disk, lba |-> req[t].lba + secs_done[t], cnt |-> secs_op(t) % MaxOp]
      /\ left' = [left EXCEPT ![t] = secs_op(t)]
      /\ UNCHANGED << holder, expecting_intr, disk_done, req, secs_done, buf, ctl, intrq, sectors >>
  BY DEF select_sector, At, Goto, driver
<1>2. /\ t = holder /\ Inside(t) /\ TypeOK /\ Fields
      /\ secs_op(t) \in 1 .. MaxOp /\ MaxOp \in Nat
  BY <1>1, HolderActs
<1>3. pc'[t] = "expect" /\ left'[t] = secs_op(t) /\ secs_op(t)' = secs_op(t)
  BY <1>1, <1>2 DEF TypeOK, secs_op
<1>4. TypeOK'
  BY <1>1, <1>2 DEF TypeOK, Labels
<1>5. Fields'
  BY <1>1, <1>2 DEF Fields
<1>6. Permits(t)' /\ Device(t)' /\ Line(t)' /\ Left(t)'
  BY <1>1, <1>2, <1>3 DEF Inside, Permits, Device, Line, Left, Unasked, Calm
<1>7. Inside(t)'
  BY <1>1, <1>2, <1>3, <1>6 DEF Inside, Labels
<1>8. QED
  BY <1>1, <1>2, <1>4, <1>5, <1>7, StaysInside

LEMMA ExpectKeeps ==
  ASSUME IInv, NEW t \in Thread, Expect(t)
  PROVE  IInv'
<1>1. /\ pc[t] = "expect" /\ pc' = [pc EXCEPT ![t] = "command"] /\ expecting_intr' = TRUE
      /\ UNCHANGED << holder, disk_done, req, secs_done, left, buf, regs, ctl, intrq, sectors >>
  BY DEF Expect, At, Goto, device
<1>2. t = holder /\ Inside(t) /\ TypeOK /\ Fields
  BY <1>1, HolderActs
<1>3. pc'[t] = "command" /\ secs_op(t)' = secs_op(t)
  BY <1>1, <1>2 DEF TypeOK, secs_op
<1>4. TypeOK'
  BY <1>1, <1>2 DEF TypeOK, Labels
<1>5. Fields'
  BY <1>1, <1>2 DEF Fields
<1>6. Permits(t)' /\ Device(t)' /\ Line(t)' /\ Left(t)'
  BY <1>1, <1>2, <1>3 DEF Inside, Permits, Device, Line, Left, Unasked, Asked, Calm
<1>7. Inside(t)'
  BY <1>1, <1>2, <1>3, <1>6 DEF Inside, Labels
<1>8. QED
  BY <1>1, <1>2, <1>4, <1>5, <1>7, StaysInside

LEMMA CmdOutKeeps ==
  ASSUME IInv, NEW t \in Thread, cmd_out(t)
  PROVE  IInv'
<1> DEFINE l == IF req[t].op = "read" THEN "wait" ELSE "busy"
<1>1. /\ pc[t] = "command" /\ pc' = [pc EXCEPT ![t] = l]
      /\ ctl' = [op |-> req[t].op, busy |-> TRUE, drq |-> FALSE,
                 disk |-> regs.disk, lba |-> regs.lba, left |-> Sectors(regs.cnt)]
      /\ intrq' = "low"
      /\ UNCHANGED << holder, expecting_intr, disk_done, req, secs_done, left, buf, regs, sectors >>
  BY DEF cmd_out, Accept, At, Goto, driver
<1>2. /\ t = holder /\ Inside(t) /\ TypeOK /\ Fields
      /\ secs_op(t) \in 1 .. MaxOp /\ req[t].op \in {"read", "write"}
      /\ secs_done[t] \in Nat /\ req[t].lba \in Nat /\ MaxOp \in Nat
  BY <1>1, HolderActs
<1>3. pc'[t] = l /\ secs_op(t)' = secs_op(t) /\ left'[t] = left[t]
  BY <1>1, <1>2 DEF TypeOK, secs_op
<1>4. TypeOK'
  BY <1>1, <1>2 DEF TypeOK, Labels
<1>5. Fields'
  BY <1>1, <1>2 DEF Fields
<1>6. /\ left[t] = secs_op(t) /\ regs.cnt = secs_op(t) % MaxOp
      /\ regs.disk = req[t].disk /\ regs.lba = req[t].lba + secs_done[t]
  BY <1>1, <1>2 DEF Inside, Left
<1>7. Sectors(regs.cnt) = left[t]
  BY <1>2, <1>6, CountMeant
<1>8. Begun(t)' /\ ctl'.busy = TRUE /\ ctl'.drq = FALSE
  BY <1>1, <1>2, <1>3, <1>6, <1>7 DEF Begun
<1>9. Permits(t)' /\ Device(t)' /\ Line(t)' /\ Left(t)'
  <2>1. Permits(t)'
    BY <1>1, <1>2, <1>3 DEF Inside, Permits, Asked, Reads
  <2>2. Device(t)'
    BY <1>1, <1>2, <1>3, <1>8 DEF Device, Reads
  <2>3. Line(t)'
    BY <1>1, <1>3, <1>8 DEF Line
  <2>4. Left(t)'
    BY <1>1, <1>2, <1>3, <1>6 DEF Left, Reads
  <2>5. QED
    BY <2>1, <2>2, <2>3, <2>4
<1>10. Inside(t)'
  BY <1>1, <1>2, <1>3, <1>9 DEF Inside, Labels
<1>11. QED
  BY <1>1, <1>2, <1>4, <1>5, <1>10, StaysInside

LEMMA SemaWaitKeeps ==
  ASSUME IInv, NEW t \in Thread, sema_wait(t)
  PROVE  IInv'
<1> DEFINE l == IF disk_done > 0 THEN AfterWait(t) ELSE "blocked"
<1>1. /\ pc[t] = "wait" /\ pc' = [pc EXCEPT ![t] = l] /\ disk_done' = disk_done - 1
      /\ UNCHANGED << holder, expecting_intr, req, secs_done, left, buf, regs, ctl, intrq, sectors >>
  BY DEF sema_wait, At, Goto, device
<1>2. t = holder /\ Inside(t) /\ TypeOK /\ Fields
  BY <1>1, HolderActs
<1>3. Asked /\ Device(t) /\ Line(t) /\ Left(t)
  BY <1>1, <1>2 DEF Inside, Permits
<1>4. /\ disk_done' = (IF expecting_intr THEN -1 ELSE 0)
      /\ l = IF expecting_intr THEN "blocked" ELSE AfterWait(t)
  BY <1>1, <1>2, <1>3 DEF Asked, TypeOK
<1> HIDE DEF l
<1>5. pc'[t] = l /\ secs_op(t)' = secs_op(t) /\ l \in {"blocked", "busy", "next"}
  BY <1>1, <1>2, <1>4 DEF TypeOK, secs_op, AfterWait
<1>6. TypeOK'
  BY <1>1, <1>2, <1>4, <1>5 DEF TypeOK, Labels
<1>7. Fields'
  BY <1>1, <1>2 DEF Fields
<1>8. Permits(t)'
  BY <1>1, <1>4, <1>5 DEF Permits, Asked, Unasked, Reads, AfterWait
<1>9. Begun(t)' <=> Begun(t)
  BY <1>1, <1>5 DEF Begun
<1>10. Device(t)'
  BY <1>1, <1>3, <1>4, <1>5, <1>9 DEF Device, Reads, AfterWait, Calm
<1>11. Line(t)' /\ Left(t)'
  BY <1>1, <1>3, <1>4, <1>5 DEF Line, Left, Reads, AfterWait
<1>12. Inside(t)'
  BY <1>1, <1>2, <1>5, <1>8, <1>10, <1>11 DEF Inside, Labels
<1>13. QED
  BY <1>1, <1>2, <1>6, <1>7, <1>12, StaysInside

LEMMA BusyWaitKeeps ==
  ASSUME IInv, NEW t \in Thread, busy_wait(t)
  PROVE  IInv'
<1>1. /\ pc[t] = "busy" /\ ~ ctl.busy /\ pc' = [pc EXCEPT ![t] = IF ctl.drq THEN "data" ELSE "panic"]
      /\ intrq' = "low"
      /\ UNCHANGED << holder, expecting_intr, disk_done, req, secs_done, left, buf, regs, ctl, sectors >>
  BY DEF busy_wait, At, Goto, driver
<1>2. /\ t = holder /\ Inside(t) /\ TypeOK /\ Fields
      /\ secs_op(t) \in 1 .. MaxOp /\ MaxOp \in Nat
  BY <1>1, HolderActs
<1>3. Permits(t) /\ Device(t) /\ Line(t) /\ Left(t)
  BY <1>2 DEF Inside
<1>4. ctl.drq /\ Begun(t)
  BY <1>1, <1>3 DEF Device
<1>5. pc'[t] = "data" /\ pc' = [pc EXCEPT ![t] = "data"] /\ secs_op(t)' = secs_op(t)
  BY <1>1, <1>2, <1>4 DEF TypeOK, secs_op
<1>6. TypeOK'
  BY <1>1, <1>2, <1>5 DEF TypeOK, Labels
<1>7. Fields'
  BY <1>1, <1>2 DEF Fields
<1>8. Permits(t)'
  BY <1>1, <1>3, <1>5 DEF Permits, Asked, Unasked, Reads
<1>9. Begun(t)'
  BY <1>1, <1>4, <1>5 DEF Begun
<1>10. Device(t)' /\ Line(t)' /\ Left(t)'
  BY <1>1, <1>2, <1>3, <1>4, <1>5, <1>9 DEF Device, Line, Left
<1>11. Inside(t)'
  BY <1>1, <1>2, <1>5, <1>8, <1>10 DEF Inside, Labels
<1>12. QED
  BY <1>1, <1>2, <1>5, <1>6, <1>7, <1>11, StaysInside

\* A sector passes through the data register, one way or the other.
LEMMA DataMoves ==
  ASSUME IInv, NEW t \in Thread, pc[t] = "data",
         pc' = [pc EXCEPT ![t] = IF left[t] = 1 THEN IF Reads(t) THEN "next" ELSE "wait" ELSE "data"],
         left' = [left EXCEPT ![t] = @ - 1], Passed,
         DOMAIN buf' = Thread, \A u \in Thread \ {t} : buf'[u] = buf[u],
         UNCHANGED << holder, expecting_intr, disk_done, req, secs_done, regs >>
  PROVE  IInv'
<1>1. /\ t = holder /\ Inside(t) /\ TypeOK /\ Fields
      /\ secs_op(t) \in 1 .. MaxOp /\ MaxOp \in Nat
      /\ secs_done[t] \in Nat /\ req[t].lba \in Nat /\ req[t].op \in {"read", "write"}
  BY HolderActs
<1>2. Permits(t) /\ Device(t) /\ Line(t) /\ Left(t)
  BY <1>1 DEF Inside
<1>3. /\ Begun(t) /\ ctl.drq /\ ~ ctl.busy
      /\ left[t] \in 1 .. secs_op(t) /\ ctl.left = left[t]
      /\ (IF Reads(t) THEN Unasked ELSE Asked)
      /\ expecting_intr => intrq # "taken"
  BY <1>2 DEF Device, Left, Permits, Line, Begun
<1>4. /\ pc'[t] = IF left[t] = 1 THEN IF Reads(t) THEN "next" ELSE "wait" ELSE "data"
      /\ left'[t] = left[t] - 1 /\ secs_op(t)' = secs_op(t) /\ left[t] \in Nat
      /\ Reads(t)' = Reads(t)
  BY <1>1, <1>3 DEF TypeOK, secs_op, Reads
<1>5. intrq' \in {"low", "pending", "taken"} /\ (~ Reads(t) /\ expecting_intr => intrq' = "pending")
  BY <1>1, <1>3 DEF Passed, Raised, TypeOK, Begun, Reads
<1>6. TypeOK'
  <2>1. left' \in [Thread -> 0 .. MaxOp]
    BY <1>1, <1>3 DEF TypeOK
  <2>2. pc' \in [Thread -> Labels]
    BY <1>1 DEF TypeOK, Labels
  <2>3. QED
    BY <1>1, <1>5, <2>1, <2>2 DEF TypeOK
<1>7. CASE left[t] = 1
  <2>1. ctl' = Idle
    BY <1>3, <1>7 DEF Passed
  <2>2. Fields'
    BY <2>1 DEF Fields, Idle
  <2>3. Permits(t)'
    BY <1>3, <1>4, <1>7 DEF Permits, Asked, Unasked
  <2>4. Device(t)'
    BY <1>4, <1>7, <2>1 DEF Device, Calm, Idle
  <2>5. Line(t)'
    BY <1>3, <1>4, <1>5, <1>7, <2>1 DEF Line, Idle, Unasked
  <2>6. Left(t)'
    BY <1>1, <1>4, <1>7 DEF Left
  <2>7. Inside(t)'
    BY <1>1, <1>4, <1>7, <2>3, <2>4, <2>5, <2>6 DEF Inside, Labels
  <2>8. QED
    BY <1>1, <1>6, <2>2, <2>7, StaysInside
<1>8. CASE left[t] # 1
  <2>1. ctl' = [ctl EXCEPT !.left = @ - 1, !.lba = @ + 1]
    BY <1>3, <1>8 DEF Passed
  <2>2. /\ ctl'.op = ctl.op /\ ctl'.disk = ctl.disk /\ ctl'.busy = ctl.busy /\ ctl'.drq = ctl.drq
        /\ ctl'.lba = ctl.lba + 1 /\ ctl'.left = ctl.left - 1
        /\ Fields'
    BY <1>1, <2>1 DEF Fields
  <2>3. Begun(t)'
    BY <1>1, <1>3, <1>4, <2>2 DEF Begun
  <2>4. Permits(t)'
    BY <1>3, <1>4, <1>8 DEF Permits, Asked, Unasked
  <2>5. Device(t)'
    BY <1>3, <1>4, <1>8, <2>2, <2>3 DEF Device
  <2>6. Line(t)'
    BY <1>3, <1>4, <1>5, <1>8, <2>2 DEF Line, Unasked
  <2>7. Left(t)'
    BY <1>1, <1>3, <1>4, <1>8 DEF Left
  <2>8. Inside(t)'
    BY <1>1, <1>4, <1>8, <2>4, <2>5, <2>6, <2>7 DEF Inside, Labels
  <2>9. QED
    BY <1>1, <1>6, <1>8, <2>2, <2>8, StaysInside
<1>9. QED
  BY <1>7, <1>8

LEMMA ReadSectorKeeps ==
  ASSUME IInv, NEW t \in Thread, read_from_sector(t)
  PROVE  IInv'
<1>1. pc[t] = "data" /\ Reads(t)
  BY DEF read_from_sector, At, Reads
<1>2. TypeOK /\ Fields /\ ctl.drq /\ ctl.op = "read"
  BY <1>1, HolderActs DEF Inside, Device, Begun, Reads
<1>3. Passed /\ buf' = [buf EXCEPT ![t] = Append(@, sectors[ctl.disk][ctl.lba])]
  BY <1>2 DEF read_from_sector
<1>4. /\ pc' = [pc EXCEPT ![t] = IF left[t] = 1 THEN "next" ELSE "data"]
      /\ left' = [left EXCEPT ![t] = @ - 1]
      /\ UNCHANGED << holder, expecting_intr, disk_done, req, secs_done, regs >>
  BY DEF read_from_sector, Goto, driver
<1>5. DOMAIN buf' = Thread /\ \A u \in Thread \ {t} : buf'[u] = buf[u]
  BY <1>2, <1>3 DEF Fields
<1>6. QED
  BY <1>1, <1>3, <1>4, <1>5, DataMoves

LEMMA WriteSectorKeeps ==
  ASSUME IInv, NEW t \in Thread, write2sector(t)
  PROVE  IInv'
<1>1. pc[t] = "data" /\ ~ Reads(t) /\ req[t].op = "write"
  BY DEF write2sector, At, Reads
<1>2. TypeOK /\ Fields /\ ctl.drq /\ ctl.op = "write"
  BY <1>1, HolderActs DEF Inside, Device, Begun
<1>3. Passed
  BY <1>2 DEF write2sector
<1>4. /\ pc' = [pc EXCEPT ![t] = IF left[t] = 1 THEN "wait" ELSE "data"]
      /\ left' = [left EXCEPT ![t] = @ - 1]
      /\ UNCHANGED << holder, expecting_intr, disk_done, req, secs_done, buf, regs >>
  BY DEF write2sector, Goto, driver
<1>5. DOMAIN buf' = Thread /\ \A u \in Thread \ {t} : buf'[u] = buf[u]
  BY <1>2, <1>4 DEF Fields
<1>6. QED
  BY <1>1, <1>3, <1>4, <1>5, DataMoves

LEMMA LoopEndKeeps ==
  ASSUME IInv, NEW t \in Thread, LoopEnd(t)
  PROVE  IInv'
<1>1. /\ pc[t] = "next"
      /\ UNCHANGED << expecting_intr, disk_done, left, regs, ctl, intrq, sectors >>
  BY DEF LoopEnd, At, device
<1>2. /\ t = holder /\ holder # NULL /\ Inside(t) /\ TypeOK /\ Fields /\ DOMAIN req = Thread
      /\ secs_op(t) \in 1 .. MaxOp /\ secs_done[t] \in Nat /\ MaxOp \in Nat /\ NrSectors \in Nat
      /\ req[t].n \in 1 .. NrSectors
  BY <1>1, HolderActs
<1>3. Unasked /\ Calm
  BY <1>1, <1>2 DEF Inside, Permits, Device
<1>4. CASE secs_done[t] + secs_op(t) < req[t].n
  <2>1. /\ secs_done' = [secs_done EXCEPT ![t] = @ + secs_op(t)]
        /\ pc' = [pc EXCEPT ![t] = "select"]
        /\ UNCHANGED << holder, req, buf >>
    BY <1>4 DEF LoopEnd, Goto
  <2>2. pc'[t] = "select" /\ secs_done'[t] = secs_done[t] + secs_op(t)
    BY <1>2, <2>1 DEF TypeOK
  <2>3. secs_done' \in [Thread -> 0 .. NrSectors]
    BY <1>2, <1>4, <2>1 DEF TypeOK
  <2>4. TypeOK'
    BY <1>1, <1>2, <2>1, <2>3 DEF TypeOK, Labels
  <2>5. Fields'
    BY <1>1, <1>2, <2>1 DEF Fields
  <2>6. Permits(t)' /\ Device(t)' /\ Line(t)' /\ Left(t)'
    BY <1>1, <1>3, <2>2 DEF Permits, Device, Line, Left, Unasked, Calm
  <2>7. Inside(t)'
    BY <1>2, <1>4, <2>1, <2>2, <2>6 DEF Inside, Labels
  <2>8. \A u \in Thread \ {t} : secs_done'[u] = secs_done[u] /\ buf'[u] = buf[u]
    BY <1>2, <2>1 DEF TypeOK
  <2>9. QED
    BY <1>2, <2>1, <2>4, <2>5, <2>7, <2>8, StaysInside
<1>5. CASE ~ (secs_done[t] + secs_op(t) < req[t].n)
  <2>1. /\ holder' = NULL /\ pc' = [pc EXCEPT ![t] = "out"]
        /\ req' = [req EXCEPT ![t] = NULL]
        /\ secs_done' = [secs_done EXCEPT ![t] = 0]
        /\ buf' = [buf EXCEPT ![t] = << >>]
    BY <1>5 DEF LoopEnd, Goto
  <2>2. DOMAIN req' = Thread /\ \A u \in Thread : req'[u] \in Request \cup {NULL}
    BY <1>2, <2>1 DEF TypeOK
  <2>3. TypeOK'
    <3>1. secs_done' \in [Thread -> 0 .. NrSectors] /\ pc' \in [Thread -> Labels]
      BY <1>2, <2>1 DEF TypeOK, Labels
    <3>2. QED
      BY <1>1, <1>2, <2>1, <2>2, <3>1 DEF TypeOK
  <2>4. Fields'
    BY <1>1, <1>2, <2>1 DEF Fields
  <2>5. Apart'
    <3> SUFFICES ASSUME NEW u \in Thread
                 PROVE  pc'[u] = "out" /\ secs_done'[u] = 0 /\ buf'[u] = << >>
      BY DEF Apart
    <3>1. CASE u = t
      BY <1>2, <2>1, <3>1 DEF TypeOK, Fields
    <3>2. CASE u # t
      <4>1. pc[u] = "out" /\ secs_done[u] = 0 /\ buf[u] = << >>
        BY <1>2, <3>2 DEF IInv, Apart
      <4>2. pc'[u] = pc[u] /\ secs_done'[u] = secs_done[u] /\ buf'[u] = buf[u]
        BY <1>2, <2>1, <3>2 DEF TypeOK, Fields
      <4>3. QED
        BY <4>1, <4>2
    <3>3. QED
      BY <3>1, <3>2
  <2>6. Calm' /\ Unasked'
    BY <1>1, <1>3 DEF Calm, Unasked
  <2>7. QED
    BY <2>1, <2>2, <2>3, <2>4, <2>5, <2>6 DEF IInv
<1>6. QED
  BY <1>4, <1>5

LEMMA AcquireKeeps ==
  ASSUME IInv, NEW t \in Thread, NEW r \in Request, mutex_acquire(t, r)
  PROVE  IInv'
<1>1. /\ pc[t] = "out" /\ holder = NULL /\ holder' = t /\ pc' = [pc EXCEPT ![t] = "select"]
      /\ req' = [req EXCEPT ![t] = r]
      /\ UNCHANGED << expecting_intr, disk_done, secs_done, left, buf, regs, ctl, intrq, sectors >>
  BY DEF mutex_acquire, At, Goto, device
<1>2. TypeOK /\ Fields /\ Apart /\ DOMAIN req = Thread /\ Calm /\ Unasked
  BY <1>1 DEF IInv
<1>3. pc'[t] = "select" /\ req'[t] = r
  BY <1>1, <1>2 DEF TypeOK
<1>4. DOMAIN req' = Thread /\ \A u \in Thread : req'[u] \in Request \cup {NULL}
  BY <1>1, <1>2 DEF TypeOK
<1>5. TypeOK'
  BY <1>1, <1>2, <1>4 DEF TypeOK, Labels
<1>6. Fields'
  BY <1>1, <1>2 DEF Fields
<1>7. Apart'
  <2> SUFFICES ASSUME NEW u \in Thread, u # t
               PROVE  pc'[u] = "out" /\ secs_done'[u] = 0 /\ buf'[u] = << >>
    BY <1>1 DEF Apart
  <2>1. u # holder /\ pc'[u] = pc[u]
    BY <1>1, <1>2, IDEAssumption DEF TypeOK
  <2>2. QED
    BY <1>1, <1>2, <2>1 DEF Apart
<1>8. holder' # NULL /\ secs_done[t] = 0
  BY <1>1, <1>2, IDEAssumption DEF Apart
<1>9. Inside(t)'
  <2>1. r.n \in 1 .. NrSectors /\ secs_done'[t] < r.n
    BY <1>1, <1>8, IDEAssumption DEF Request
  <2>2. Permits(t)' /\ Device(t)' /\ Line(t)' /\ Left(t)'
    BY <1>1, <1>2, <1>3 DEF Permits, Device, Line, Left, Unasked, Calm
  <2>3. QED
    BY <1>3, <2>1, <2>2 DEF Inside, Labels
<1>10. QED
  BY <1>1, <1>4, <1>5, <1>6, <1>7, <1>8, <1>9 DEF IInv

\* The interrupt is taken: it posts if it is expected, and the caller goes on.
LEMMA HandlerKeeps ==
  ASSUME IInv, intr_hd_handler
  PROVE  IInv'
<1>1. /\ intrq = "pending"
      /\ UNCHANGED << holder, req, secs_done, left, buf, regs, ctl, sectors >>
  BY DEF intr_hd_handler
<1>2. /\ TypeOK /\ Fields /\ Apart /\ DOMAIN req = Thread
      /\ holder = NULL => Calm /\ Unasked
      /\ holder # NULL => Inside(holder)
  BY DEF IInv
<1>3. ~ ctl.busy
  BY <1>1, <1>2 DEF Line, Inside, Calm
<1>4. Fields'
  BY <1>1, <1>2 DEF Fields
<1>5. CASE expecting_intr
  <2>1. /\ expecting_intr' = FALSE /\ disk_done' = disk_done + 1 /\ intrq' = "low"
        /\ pc' = [t \in Thread |-> IF pc[t] = "blocked" THEN AfterWait(t) ELSE pc[t]]
    BY <1>5 DEF intr_hd_handler, At
  <2>2. holder # NULL /\ holder \in Thread /\ Inside(holder)
    BY <1>2, <1>5 DEF Unasked, TypeOK
  <2>3. PICK t \in Thread : t = holder /\ Inside(t)
    BY <2>2
  <2>4. Permits(t) /\ Device(t) /\ Line(t) /\ Left(t) /\ req[t] \in Request
    BY <2>3 DEF Inside
  <2>5. pc'[t] = IF pc[t] = "blocked" THEN AfterWait(t) ELSE pc[t]
    BY <2>1
  <2>6. disk_done \in {-1, 0} /\ (pc[t] = "blocked" => disk_done = -1) /\ (pc[t] # "blocked" => disk_done = 0)
    BY <1>5, <2>3, <2>4 DEF Permits, Asked, Unasked, Inside, Labels
  <2>7. secs_op(t)' = secs_op(t) /\ (Begun(t)' <=> Begun(t)) /\ (Reads(t)' <=> Reads(t)) /\ (Calm' <=> Calm)
    BY <1>1 DEF secs_op, Begun, Reads, Calm
  <2>8. TypeOK'
    <3>1. pc' \in [Thread -> Labels]
      BY <1>2, <2>1 DEF TypeOK, Labels, AfterWait
    <3>2. disk_done' \in {-1, 0, 1} /\ expecting_intr' \in BOOLEAN /\ intrq' \in {"low", "pending", "taken"}
      <4>1. disk_done' = disk_done + 1
        BY <2>1
      <4>2. disk_done' \in {-1, 0, 1}
        BY <2>6, <4>1
      <4>3. expecting_intr' \in BOOLEAN /\ intrq' \in {"low", "pending", "taken"}
        BY <2>1
      <4>4. QED
        BY <4>2, <4>3
    <3>3. QED
      BY <1>1, <1>2, <3>1, <3>2 DEF TypeOK
  <2>9. Apart'
    BY <1>1, <1>2, <2>1 DEF Apart, TypeOK
  <2>10. Permits(t)'
    BY <1>5, <2>1, <2>4, <2>5, <2>6, <2>7 DEF Permits, Asked, Unasked, AfterWait, Reads
  <2>11. Device(t)'
    BY <1>1, <1>3, <2>4, <2>5, <2>7 DEF Device, AfterWait, Reads
  <2>12. Line(t)'
    BY <1>1, <1>3, <2>1 DEF Line
  <2>13. Left(t)'
    BY <1>1, <2>4, <2>5, <2>7 DEF Left, AfterWait, Reads
  <2>14. Inside(t)'
    BY <1>1, <2>3, <2>4, <2>5, <2>10, <2>11, <2>12, <2>13 DEF Inside, Labels, AfterWait
  <2>15. QED
    BY <1>1, <1>2, <1>4, <2>2, <2>3, <2>8, <2>9, <2>14 DEF IInv
<1>6. CASE ~ expecting_intr
  <2>1. intrq' = "taken" /\ UNCHANGED << expecting_intr, disk_done, pc >>
    BY <1>6 DEF intr_hd_handler
  <2>2. TypeOK' /\ Apart'
    BY <1>1, <1>2, <2>1 DEF TypeOK, Apart
  <2>3. holder' = NULL => Calm' /\ Unasked'
    BY <1>1, <1>2, <2>1 DEF Calm, Unasked
  <2>4. ASSUME holder' # NULL PROVE Inside(holder)'
    <3>1. Inside(holder)
      BY <1>1, <1>2, <2>4
    <3>2. Permits(holder)' /\ Device(holder)' /\ Left(holder)'
      BY <1>1, <2>1, <3>1
         DEF Inside, Permits, Device, Left, Asked, Unasked, Begun, Reads, Calm, secs_op
    <3>3. Line(holder)'
      BY <1>1, <1>3, <1>6, <2>1 DEF Line
    <3>4. QED
      BY <1>1, <2>1, <3>1, <3>2, <3>3 DEF Inside
  <2>5. QED
    BY <1>1, <1>2, <1>4, <2>2, <2>3, <2>4 DEF IInv
<1>7. QED
  BY <1>5, <1>6

\* The controller gets ready.
LEMMA ReadyKeeps ==
  ASSUME IInv, Ready
  PROVE  IInv'
<1>1. /\ ctl.busy /\ ctl' = [ctl EXCEPT !.busy = FALSE, !.drq = TRUE]
      /\ intrq' = IF ctl.op = "read" THEN Raised ELSE intrq
      /\ UNCHANGED << holder, expecting_intr, disk_done, pc, req, secs_done, left, buf, regs, sectors >>
  BY DEF Ready, driver, caller
<1>2. TypeOK /\ Fields /\ Apart /\ DOMAIN req = Thread
  BY DEF IInv
<1>3. holder # NULL /\ Inside(holder)
  BY <1>1 DEF IInv, Calm
<1>4. Permits(holder) /\ Device(holder) /\ Line(holder) /\ Left(holder)
  BY <1>3 DEF Inside
<1>5. /\ ctl'.op = ctl.op /\ ctl'.disk = ctl.disk /\ ctl'.busy = FALSE /\ ctl'.drq = TRUE
      /\ ctl'.lba = ctl.lba /\ ctl'.left = ctl.left /\ Fields'
  BY <1>1, <1>2 DEF Fields
<1>6. intrq = "low" /\ intrq' = IF ctl.op = "read" THEN "pending" ELSE "low"
  BY <1>1, <1>4 DEF Line, Raised
<1>7. pc[holder] \in {"wait", "blocked", "busy"} /\ Begun(holder) /\ (pc[holder] # "busy" => Reads(holder))
  BY <1>1, <1>3, <1>4 DEF Device, Inside, Labels, Calm
<1>8. Permits(holder)' /\ Left(holder)'
  BY <1>1, <1>4 DEF Permits, Left, Asked, Unasked, Reads, secs_op
<1>9. Device(holder)'
  <2>1. Begun(holder)'
    BY <1>1, <1>5, <1>7 DEF Begun, secs_op
  <2>2. QED
    BY <1>1, <1>5, <1>7, <2>1 DEF Device, Reads
<1>10. Line(holder)'
  BY <1>1, <1>5, <1>6, <1>7 DEF Line, Begun, Reads
<1>11. Inside(holder)'
  BY <1>1, <1>3, <1>8, <1>9, <1>10 DEF Inside
<1>12. TypeOK' /\ Apart'
  BY <1>1, <1>2, <1>6 DEF TypeOK, Apart
<1>13. QED
  BY <1>1, <1>2, <1>3, <1>5, <1>11, <1>12 DEF IInv

LEMMA NextIInv == IInv /\ [Next]_vars => IInv'
<1> SUFFICES ASSUME IInv, [Next]_vars PROVE IInv'
  OBVIOUS
<1>1. ASSUME NEW t \in Thread, GoesOn(t) PROVE IInv'
  BY <1>1, SelectKeeps, ExpectKeeps, CmdOutKeeps, SemaWaitKeeps, BusyWaitKeeps,
     ReadSectorKeeps, WriteSectorKeeps, LoopEndKeeps DEF GoesOn
<1>2. ASSUME NEW t \in Thread, NEW r \in Request, mutex_acquire(t, r) PROVE IInv'
  BY <1>2, AcquireKeeps
<1>3. CASE UNCHANGED vars
  BY <1>3 DEF vars, driver, caller, device, IInv, TypeOK, Fields, Apart, Calm, Unasked,
     Inside, Permits, Device, Line, Left, Asked, Begun, Reads, secs_op
<1>4. QED
  BY <1>1, <1>2, <1>3, HandlerKeeps, ReadyKeeps DEF Next

LEMMA Inductive == Spec => []IInv
BY InitIInv, NextIInv, PTL DEF Spec

-----------------------------------------------------------------------------
\* ide_read and ide_write leave the channel as they have found it: no permit, no
\* expected interrupt and no command is there when the mutex is free.
THEOREM LeavesNothing == Spec => []NothingLeftOver
<1>1. IInv => NothingLeftOver
  BY DEF IInv, NothingLeftOver, Calm, Unasked
<1>2. QED
  BY <1>1, Inductive, PTL

\* A caller blocked on disk_done is not forgotten: intr_hd_handler will find its
\* interrupt expected, and the interrupt is pending or the controller owes it.
THEOREM WaitEnds == Spec => []WaiterWillBePosted
<1>1. IInv => WaiterWillBePosted
  <2> SUFFICES ASSUME IInv, NEW t \in Thread, pc[t] = "blocked"
               PROVE  expecting_intr /\ (intrq = "pending" \/ ctl.busy)
    BY DEF WaiterWillBePosted, At
  <2>1. Inside(t)
    BY HolderActs
  <2>2. QED
    BY <2>1 DEF Inside, Permits, Line
<1>2. QED
  BY <1>1, Inductive, PTL

\* The PANICs of ide_read and ide_write are never reached.
THEOREM NeverPanics == Spec => []NoPanic
<1>1. IInv => NoPanic
  BY HolderActs DEF NoPanic, At, Inside
<1>2. QED
  BY <1>1, Inductive, PTL

-----------------------------------------------------------------------------
\* What the sequential disk is told of the driver.
Served == IF holder = NULL THEN NULL ELSE [thread |-> holder, req |-> req[holder]]
Progress == IF holder = NULL THEN 0 ELSE Moved(holder)
Fetched == IF holder = NULL THEN << >> ELSE buf[holder]

\* A step that leaves the three alone, and the sectors, stutters.
LEMMA Stutters ==
  ASSUME UNCHANGED << sectors, Served, Progress, Fetched >>
  PROVE  UNCHANGED SeqDisk!vars
BY DEF SeqDisk!vars, Served, Progress, Fetched

\* A step of the holder's to which no sector is moved.
LEMMA QuietStep ==
  ASSUME IInv, NEW t \in Thread, t = holder, UNCHANGED << holder, req, secs_done, buf, sectors >>,
         secs_op(t) - left[t] \in Int, secs_done[t] \in Int,
         (IF pc'[t] = "select" THEN 0 ELSE secs_op(t) - left'[t])
           = (IF pc[t] = "select" THEN 0 ELSE secs_op(t) - left[t])
  PROVE  UNCHANGED SeqDisk!vars
<1>1. holder # NULL
  BY IDEAssumption
<1>2. Moved(t)' = Moved(t)
  BY DEF Moved, At, secs_op
<1>3. UNCHANGED << sectors, Served, Progress, Fetched >>
  BY <1>1, <1>2 DEF Served, Progress, Fetched
<1>4. QED
  BY <1>3, Stutters

\* A sector through the data register is the next one of the request.
LEMMA DataSimulates ==
  ASSUME IInv, NEW t \in Thread, read_from_sector(t) \/ write2sector(t)
  PROVE  SeqDisk!Move
<1>1. /\ pc[t] = "data" /\ left' = [left EXCEPT ![t] = @ - 1]
      /\ pc' = [pc EXCEPT ![t] = IF left[t] = 1 THEN IF Reads(t) THEN "next" ELSE "wait" ELSE "data"]
      /\ UNCHANGED << holder, req, secs_done >>
  BY DEF read_from_sector, write2sector, At, Goto, driver, Reads
<1>2. /\ t = holder /\ holder # NULL /\ Inside(t) /\ TypeOK /\ Fields
      /\ secs_op(t) \in 1 .. MaxOp /\ secs_done[t] \in Nat /\ left[t] \in Nat
      /\ secs_done[t] + secs_op(t) <= req[t].n
      /\ req[t].n \in 1 .. NrSectors /\ req[t].lba \in Nat
      /\ req[t].op \in {"read", "write"} /\ MaxOp \in Nat /\ NrSectors \in Nat
  BY <1>1, HolderActs
<1>3. /\ ctl.op = req[t].op /\ ctl.disk = req[t].disk /\ ctl.drq
      /\ ctl.lba = req[t].lba + (secs_done[t] + (secs_op(t) - left[t]))
      /\ left[t] \in 1 .. secs_op(t) /\ req[t] \in Request
  BY <1>1, <1>2 DEF Inside, Device, Begun, Left
<1>4. /\ Moved(t) = secs_done[t] + (secs_op(t) - left[t])
      /\ Moved(t)' = Moved(t) + 1 /\ Moved(t) < req[t].n
  <2>1. pc'[t] # "select" /\ left'[t] = left[t] - 1 /\ secs_op(t)' = secs_op(t)
    BY <1>1, <1>2 DEF TypeOK, secs_op
  <2>2. QED
    BY <1>1, <1>2, <1>3, <2>1 DEF Moved, At
<1>5. \/ /\ req[t].op = "read" /\ UNCHANGED sectors
         /\ buf'[t] = Append(buf[t], sectors[req[t].disk][req[t].lba + Moved(t)])
      \/ /\ req[t].op = "write" /\ UNCHANGED buf
         /\ sectors' = [sectors EXCEPT ![req[t].disk][req[t].lba + Moved(t)] = New]
  <2>1. ctl.lba = req[t].lba + Moved(t)
    BY <1>3, <1>4
  <2>2. CASE read_from_sector(t)
    <3>1. req[t].op = "read" /\ UNCHANGED sectors
      BY <2>2 DEF read_from_sector
    <3>2. buf' = [buf EXCEPT ![t] = Append(@, sectors[ctl.disk][ctl.lba])]
      BY <1>3, <2>2, <3>1 DEF read_from_sector
    <3>3. QED
      BY <1>2, <1>3, <2>1, <3>1, <3>2 DEF Fields
  <2>3. CASE write2sector(t)
    <3>1. req[t].op = "write" /\ UNCHANGED buf
      BY <2>3 DEF write2sector
    <3>2. sectors' = [sectors EXCEPT ![ctl.disk][ctl.lba] = New]
      BY <1>3, <2>3, <3>1 DEF write2sector
    <3>3. QED
      BY <1>3, <2>1, <3>1, <3>2
  <2>4. QED
    BY <2>2, <2>3
<1>6. Served = [thread |-> t, req |-> req[t]] /\ Served # NULL /\ Served' = Served
  BY <1>1, <1>2, <1>3, RequestAssumption DEF Served
<1>7. /\ Progress = Moved(t) /\ Progress' = Progress + 1
      /\ Fetched = buf[t] /\ Fetched' = buf'[t]
  BY <1>1, <1>2, <1>4 DEF Progress, Fetched
<1>8. /\ Served # NULL /\ Progress < Served.req.n /\ Progress' = Progress + 1
      /\ \/ /\ Served.req.op = "read"
            /\ Fetched' = Append(Fetched, sectors[Served.req.disk][Served.req.lba + Progress])
            /\ UNCHANGED sectors
         \/ /\ Served.req.op = "write"
            /\ sectors' = [sectors EXCEPT ![Served.req.disk][Served.req.lba + Progress] = New]
            /\ UNCHANGED Fetched
      /\ UNCHANGED Served
  BY <1>4, <1>5, <1>6, <1>7
<1>9. QED
  BY <1>8 DEF SeqDisk!Move, Served, Progress, Fetched

LEMMA AcquireSimulates ==
  ASSUME IInv, NEW t \in Thread, NEW r \in Request, mutex_acquire(t, r)
  PROVE  SeqDisk!Start(t, r)
<1>1. /\ pc[t] = "out" /\ holder = NULL /\ holder' = t /\ pc' = [pc EXCEPT ![t] = "select"]
      /\ req' = [req EXCEPT ![t] = r] /\ UNCHANGED << secs_done, left, buf, sectors >>
  BY DEF mutex_acquire, At, Goto, device
<1>2. secs_done[t] = 0 /\ buf[t] = << >> /\ DOMAIN req = Thread /\ TypeOK
  BY <1>1, IDEAssumption DEF IInv, Apart
<1>3. holder' # NULL /\ pc'[t] = "select" /\ req'[t] = r
  BY <1>1, <1>2, IDEAssumption DEF TypeOK
<1>4. Served = NULL /\ Served' = [thread |-> t, req |-> r]
  BY <1>1, <1>3 DEF Served
<1>5. Progress = 0 /\ Progress' = 0 /\ Fetched = << >> /\ Fetched' = << >>
  BY <1>1, <1>2, <1>3 DEF Progress, Fetched, Moved, At
<1>6. QED
  BY <1>1, <1>4, <1>5 DEF SeqDisk!Start, Served, Progress, Fetched

LEMMA EndSimulates ==
  ASSUME IInv, NEW t \in Thread, LoopEnd(t)
  PROVE  SeqDisk!End \/ UNCHANGED SeqDisk!vars
<1>1. pc[t] = "next" /\ UNCHANGED << left, sectors >>
  BY DEF LoopEnd, At, device
<1>2. /\ t = holder /\ holder # NULL /\ Inside(t) /\ TypeOK /\ Fields
      /\ secs_op(t) \in 1 .. MaxOp /\ secs_done[t] \in Nat
      /\ secs_done[t] + secs_op(t) <= req[t].n
      /\ req[t].n \in 1 .. NrSectors /\ MaxOp \in Nat /\ NrSectors \in Nat
  BY <1>1, HolderActs
<1>3. left[t] = 0 /\ req[t] \in Request
  BY <1>1, <1>2 DEF Inside, Left
<1>4. Moved(t) = secs_done[t] + secs_op(t)
  BY <1>1, <1>2, <1>3 DEF Moved, At
<1>5. CASE secs_done[t] + secs_op(t) < req[t].n
  <2>1. /\ secs_done' = [secs_done EXCEPT ![t] = @ + secs_op(t)]
        /\ pc' = [pc EXCEPT ![t] = "select"]
        /\ UNCHANGED << holder, req, buf >>
    BY <1>5 DEF LoopEnd, Goto
  <2>2. pc'[t] = "select" /\ secs_done'[t] = secs_done[t] + secs_op(t)
    BY <1>2, <2>1 DEF TypeOK
  <2>3. Moved(t)' = Moved(t)
    BY <1>2, <1>4, <2>2 DEF Moved, At
  <2>4. UNCHANGED << sectors, Served, Progress, Fetched >>
    BY <1>1, <1>2, <2>1, <2>3 DEF Served, Progress, Fetched
  <2>5. QED
    BY <2>4, Stutters
<1>6. CASE ~ (secs_done[t] + secs_op(t) < req[t].n)
  <2>1. holder' = NULL
    BY <1>6 DEF LoopEnd
  <2>2. Served = [thread |-> t, req |-> req[t]] /\ Served # NULL /\ Served' = NULL
    BY <1>2, <1>3, <2>1, RequestAssumption DEF Served
  <2>3. Progress = req[t].n /\ Progress' = 0 /\ Fetched' = << >>
    BY <1>2, <1>4, <1>6, <2>1 DEF Progress, Fetched
  <2>4. Served # NULL /\ Progress = Served.req.n /\ Served' = NULL /\ Progress' = 0 /\ Fetched' = << >>
    BY <2>2, <2>3
  <2>5. QED
    BY <1>1, <2>4 DEF SeqDisk!End, Served, Progress, Fetched
<1>7. QED
  BY <1>5, <1>6

\* The holder's other steps move no sector.
LEMMA GoingOnStutters ==
  ASSUME IInv, NEW t \in Thread,
         select_sector(t) \/ Expect(t) \/ cmd_out(t) \/ sema_wait(t) \/ busy_wait(t)
  PROVE  UNCHANGED SeqDisk!vars
<1>1. pc[t] # "out" /\ UNCHANGED << holder, req, secs_done, buf, sectors >>
  BY DEF select_sector, Expect, cmd_out, sema_wait, busy_wait, At, driver, device
<1>2. t = holder /\ TypeOK /\ secs_op(t) \in 1 .. MaxOp /\ secs_done[t] \in Nat /\ left[t] \in Nat /\ MaxOp \in Nat
  BY <1>1, HolderActs
<1>3. CASE select_sector(t)
  <2>1. pc[t] = "select" /\ pc'[t] = "expect" /\ left'[t] = secs_op(t)
    BY <1>2, <1>3 DEF select_sector, At, Goto, TypeOK
  <2>2. QED
    BY <1>1, <1>2, <2>1, QuietStep
<1>4. CASE Expect(t) \/ cmd_out(t) \/ sema_wait(t) \/ busy_wait(t)
  <2>1. UNCHANGED left /\ pc[t] # "select" /\ pc'[t] # "select"
    BY <1>2, <1>4 DEF Expect, cmd_out, sema_wait, busy_wait, At, Goto, TypeOK, AfterWait
  <2>2. QED
    BY <1>1, <1>2, <2>1, QuietStep
<1>5. QED
  BY <1>3, <1>4

\* So do the controller's and the interrupt's.
LEMMA DeviceStutters ==
  ASSUME IInv, Ready \/ intr_hd_handler
  PROVE  UNCHANGED SeqDisk!vars
<1>1. UNCHANGED << holder, req, secs_done, left, buf, sectors >>
  BY DEF Ready, intr_hd_handler, driver, caller
<1>2. CASE holder = NULL
  BY <1>1, <1>2, Stutters DEF Served, Progress, Fetched
<1>3. CASE holder # NULL
  <2>1. PICK t \in Thread : t = holder
    BY <1>3 DEF IInv, TypeOK
  <2>2. pc[t] # "out"
    BY <1>3, <2>1 DEF IInv, Inside
  <2>3. secs_op(t) \in 1 .. MaxOp /\ secs_done[t] \in Nat /\ left[t] \in Nat /\ MaxOp \in Nat
    BY <2>2, HolderActs
  <2>4. pc'[t] = "select" <=> pc[t] = "select"
    BY <2>1 DEF Ready, intr_hd_handler, caller, At, AfterWait
  <2>5. QED
    BY <1>1, <2>1, <2>3, <2>4, QuietStep
<1>4. QED
  BY <1>2, <1>3

LEMMA StepSimulates == IInv /\ [Next]_vars => [SeqDisk!Next]_(SeqDisk!vars)
<1> SUFFICES ASSUME IInv, [Next]_vars PROVE SeqDisk!Next \/ UNCHANGED SeqDisk!vars
  OBVIOUS
<1>1. ASSUME NEW t \in Thread, GoesOn(t) PROVE SeqDisk!Next \/ UNCHANGED SeqDisk!vars
  BY <1>1, GoingOnStutters, DataSimulates, EndSimulates DEF GoesOn, SeqDisk!Next
<1>2. ASSUME NEW t \in Thread, NEW r \in Request, mutex_acquire(t, r) PROVE SeqDisk!Next
  BY <1>2, AcquireSimulates DEF SeqDisk!Next
<1>3. CASE UNCHANGED vars
  <2>1. UNCHANGED << sectors, Served, Progress, Fetched >>
    BY <1>3 DEF vars, driver, caller, device, Served, Progress, Fetched, Moved, At, secs_op
  <2>2. QED
    BY <2>1, Stutters
<1>4. QED
  BY <1>1, <1>2, <1>3, DeviceStutters DEF Next

\* ide_read and ide_write serve one request at a time and move its sectors in order,
\* through however many commands: every step is a step of the sequential disk or
\* leaves it as it is.
THEOREM Implements == Spec => SeqDisk!Init /\ [][SeqDisk!Next]_(SeqDisk!vars)
<1>1. Init => SeqDisk!Init
  BY DEF Init, SeqDisk!Init
<1>2. QED
  BY <1>1, Inductive, StepSimulates, PTL DEF Spec

=============================================================================
