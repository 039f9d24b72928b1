------------------------------ MODULE MemoryPool ------------------------------
(***************************************************************************)
(* MemoryPoolImp: chunks of one size, cut from blocks of COUNT, with the   *)
(* free ones in a list whose links are kept in the chunks themselves.      *)
(*                                                                         *)
(* A chunk is named by its block and its index.  Blocks are the addresses  *)
(* that new Block can return: those of the pool are not returned again     *)
(* before Clear.  Of a chunk's memory its first word is kept, which is the *)
(* link of a free chunk and the program's in one that is held.             *)
(***************************************************************************)
EXTENDS Integers, FiniteSets

CONSTANTS Blocks, COUNT,
          Null,         \* the null pointer
          Data          \* memory that is not the pool's: no address of a chunk

ASSUME CountAssumption == COUNT \in Nat \ {0}

Chunks == Blocks \X (0 .. COUNT - 1)

ASSUME PointersAssumption == Null \notin Chunks /\ Data \notin Chunks \union {Null}

VARIABLES blocks,       \* m_blocks, as a set
          root,         \* m_root
          mem,          \* m_next of every chunk
          allocated,    \* m_allocated
          held          \* the chunks the program holds

vars == << blocks, root, mem, allocated, held >>

Init ==
  /\ blocks = {} /\ root = Null
  /\ mem = [c \in Chunks |-> Data]
  /\ allocated = 0 /\ held = {}

\* Mutation: the last chunk of a block keeps what was in memory.
NewBlockUnended(b) ==
  [c \in Chunks |-> IF c[1] = b /\ c[2] < COUNT - 1 THEN << b, c[2] + 1 >> ELSE mem[c]]

\* Memory with the list that Block's constructor makes of block b.
NewBlock(b) ==
  [c \in Chunks |-> IF c[1] # b THEN mem[c]
                    ELSE IF c[2] < COUNT - 1 THEN << b, c[2] + 1 >> ELSE Null]

\* Mutation: m_root does not move on.
TakeRootAgain(r, m) ==
  /\ root' = r
  /\ mem' = m
  /\ held' = held \union {r}
  /\ allocated' = allocated + 1

\* The first free chunk r of memory m goes to the program.
TakeRoot(r, m) ==
  /\ root' = m[r]
  /\ mem' = m
  /\ held' = held \union {r}
  /\ allocated' = allocated + 1

Alloc ==
  \/ /\ root # Null
     /\ TakeRoot(root, mem)
     /\ UNCHANGED blocks
  \/ \E b \in Blocks \ blocks :
       /\ root = Null
       /\ TakeRoot(<< b, 0 >>, NewBlock(b))
       /\ blocks' = blocks \union {b}

\* An object is built in the chunk, over the link.
New(c) ==
  /\ c \in held
  /\ mem' = [mem EXCEPT ![c] = Data]
  /\ UNCHANGED << blocks, root, allocated, held >>

\* Mutation: the link is not written.
FreeUnlinked(c) ==
  /\ c \in held
  /\ root' = c
  /\ held' = held \ {c}
  /\ allocated' = allocated - 1
  /\ UNCHANGED << blocks, mem >>

\* Free(nullptr) does nothing; the program frees what it holds.
Free(c) ==
  /\ c \in held
  /\ mem' = [mem EXCEPT ![c] = root]
  /\ root' = c
  /\ held' = held \ {c}
  /\ allocated' = allocated - 1
  /\ UNCHANGED blocks

\* Mutation: the list is kept.
ClearBlocks ==
  /\ blocks' = {}
  /\ mem' = [c \in Chunks |-> Data]
  /\ held' = {} /\ allocated' = 0
  /\ UNCHANGED root

\* The program uses nothing it held after Clear.
Clear ==
  /\ blocks' = {} /\ root' = Null
  /\ mem' = [c \in Chunks |-> Data]
  /\ held' = {} /\ allocated' = 0

Next ==
  \/ Alloc
  \/ \E c \in Chunks : New(c) \/ Free(c)
  \/ Clear

Spec == Init /\ [][Next]_vars

(***************************************************************************)
(* Properties                                                              *)
(***************************************************************************)

TypeOK ==
  /\ blocks \subseteq Blocks
  /\ root \in Chunks \union {Null}
  /\ mem \in [Chunks -> Chunks \union {Null, Data}]
  /\ allocated \in Int
  /\ held \subseteq Chunks

Mine     == blocks \X (0 .. COUNT - 1)
FreeOnes == Mine \ held

\* The links of the free chunks and m_root make up lists without joins: they
\* point to free chunks, no two of them to the same one, whatever the program
\* writes in the chunks it holds.  This is what makes Alloc safe.
LinksAreSound ==
  /\ held \subseteq Mine
  /\ root \in FreeOnes \union {Null}
  /\ \A c \in FreeOnes : mem[c] \in FreeOnes \union {Null}
  /\ \A c \in FreeOnes : mem[c] # Null =>
       /\ mem[c] # root
       /\ \A d \in FreeOnes : mem[d] = mem[c] => d = c

\* The chunk n links after m_root.
Nth[n \in 0 .. Cardinality(Chunks)] ==
  IF n = 0 THEN root
  ELSE IF Nth[n - 1] \in Chunks THEN mem[Nth[n - 1]] ELSE Null

\* Every free chunk is in the list that starts at m_root, so that no memory is
\* lost and a new block is taken only when there is no other chunk; and
\* m_allocated counts the others.
NoChunkLost ==
  /\ {Nth[n] : n \in DOMAIN Nth} \ {Null} = FreeOnes
  /\ allocated = Cardinality(held)

Promised == INSTANCE Allocator

\* The pool is an allocator: Alloc never returns a chunk that is held.
NeverHandedOutTwice == Promised!Spec
================================================================================
