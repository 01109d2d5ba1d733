------------------------------ MODULE LineQueue ------------------------------
(***************************************************************************)
(* What the keyboard's queue promises: a bounded sequence of characters    *)
(* that the user types at one end and erases there again, and that readers *)
(* take from the other end one character or one line at a time.  What does *)
(* not fit is dropped.                                                     *)
(***************************************************************************)
EXTENDS Integers, SequencesExt

CONSTANTS Char, NL, Capacity,
          Count, NoLimit  \* how much a reader of a line may ask for, and all of it

VARIABLES queue,
          last    \* what the last call returned: the text and the number

vars == << queue, last >>

Init == queue = << >> /\ last = [text |-> << >>, ret |-> 0]

Type(c) ==
  /\ queue' = IF Len(queue) < Capacity THEN Append(queue, c) ELSE queue
  /\ UNCHANGED last

Erase ==
  /\ queue # << >> /\ queue' = Front(queue)
  /\ UNCHANGED last

TakeChar ==
  /\ queue # << >>
  /\ queue' = Tail(queue)
  /\ last' = [text |-> << Head(queue) >>, ret |-> 1]

\* The first line is gone whatever its reader had room for.  The number counts
\* the line's end, for which there may have been no room.
TakeLine(count) ==
  \E n \in 1 .. Len(queue) :
    /\ queue[n] = NL /\ \A i \in 1 .. n - 1 : queue[i] # NL
    /\ queue' = SubSeq(queue, n + 1, Len(queue))
    /\ last' = IF count = NoLimit \/ n <= count
               THEN [text |-> SubSeq(queue, 1, n), ret |-> n]
               ELSE [text |-> SubSeq(queue, 1, count), ret |-> count + 1]

Next ==
  \/ \E c \in Char : Type(c)
  \/ Erase
  \/ TakeChar
  \/ \E count \in Count \cup {NoLimit} : TakeLine(count)

Spec == Init /\ [][Next]_vars

=============================================================================
