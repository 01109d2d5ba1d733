---------------------------- MODULE BlockAllocator ----------------------------
(***************************************************************************)
(* What an allocator of memory promises: a block as long as was asked for, *)
(* no part of which is in use, until it is given back.                     *)
(***************************************************************************)
EXTENDS Naturals

CONSTANTS Address, Lens

VARIABLE owned  \* the blocks in use: [start, len]

Extent(b) == b.start .. b.start + b.len - 1

Init == owned = {}

Alloc(len) ==
  \E start \in Address :
    LET b == [start |-> start, len |-> len]
    IN /\ Extent(b) \subseteq Address
       /\ \A c \in owned : Extent(b) \cap Extent(c) = {}
       /\ owned' = owned \cup {b}

Free == \E b \in owned : owned' = owned \ {b}

Next == Free \/ \E len \in Lens : Alloc(len)

Spec == Init /\ [][Next]_owned

=============================================================================
