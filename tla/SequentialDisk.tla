---------------------------- MODULE SequentialDisk ----------------------------
(***************************************************************************)
(* What the disk driver promises for the disks of a channel: one request   *)
(* at a time, which moves its sectors one after the other between the disk *)
(* it names and its caller's buffer, and ends when all have been moved.    *)
(***************************************************************************)
EXTENDS Integers, Sequences

CONSTANTS Thread, Request, NULL,
          New,     \* what a write puts into a sector
          Content  \* what a disk may hold

VARIABLES sectors,  \* sectors[disk][lba]
          active,   \* the request served, with its thread, or NULL
          moved,    \* how many of its sectors have been moved
          buf       \* what it has read

vars == << sectors, active, moved, buf >>

Init ==
  /\ sectors \in Content
  /\ active = NULL /\ moved = 0 /\ buf = << >>

Start(t, r) ==
  /\ active = NULL
  /\ active' = [thread |-> t, req |-> r]
  /\ UNCHANGED << sectors, moved, buf >>

Move ==
  /\ active # NULL /\ moved < active.req.n
  /\ moved' = moved + 1
  /\ LET d == active.req.disk
         s == active.req.lba + moved
     IN  \/ active.req.op = "read" /\ buf' = Append(buf, sectors[d][s]) /\ UNCHANGED sectors
         \/ active.req.op = "write" /\ sectors' = [sectors EXCEPT ![d][s] = New] /\ UNCHANGED buf
  /\ UNCHANGED active

End ==
  /\ active # NULL /\ moved = active.req.n
  /\ active' = NULL /\ moved' = 0 /\ buf' = << >>
  /\ UNCHANGED sectors

Next == Move \/ End \/ \E t \in Thread, r \in Request : Start(t, r)

Spec == Init /\ [][Next]_vars /\ WF_vars(Move) /\ WF_vars(End)

=============================================================================
