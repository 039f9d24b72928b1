------------------------------- MODULE Allocator -------------------------------
(***************************************************************************)
(* What a memory pool promises: a chunk it hands out is one that the       *)
(* program does not hold.                                                  *)
(***************************************************************************)
EXTENDS Integers

CONSTANT Chunks

VARIABLES held,         \* the chunks the program holds
          allocated     \* how many have been handed out and not come back

vars == << held, allocated >>

Init == held = {} /\ allocated = 0

Alloc == \E c \in Chunks \ held : held' = held \union {c} /\ allocated' = allocated + 1

Free == \E c \in held : held' = held \ {c} /\ allocated' = allocated - 1

Clear == held' = {} /\ allocated' = 0

Next == Alloc \/ Free \/ Clear

Spec == Init /\ [][Next]_vars
================================================================================
