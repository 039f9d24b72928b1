--------------------------- MODULE MemoryPoolProofs ---------------------------
(***************************************************************************)
(* Proofs about MemoryPool, for every size of blocks and however many of   *)
(* them there are.                                                         *)
(***************************************************************************)
EXTENDS MemoryPool, TLAPS

Inv == TypeOK /\ LinksAreSound

\* The first free chunk goes to the program, the free list going on where it
\* linked.
LEMMA AllocFree ==
  ASSUME Inv, root # Null, TakeRoot(root, mem), UNCHANGED blocks
  PROVE  Inv' /\ root \in Chunks \ held
<1>1. /\ root \in FreeOnes /\ root \in Chunks /\ root \notin held
      /\ Mine \subseteq Chunks
  BY DEF Inv, TypeOK, LinksAreSound, FreeOnes, Mine, Chunks
<1>2. /\ root' = mem[root] /\ mem' = mem /\ held' = held \union {root}
      /\ allocated' = allocated + 1 /\ Mine' = Mine
  BY DEF TakeRoot, Mine
<1>3. FreeOnes' = FreeOnes \ {root}
  BY <1>2 DEF FreeOnes
<1>4. mem[root] \in FreeOnes \union {Null} /\ mem[root] # root
  BY <1>1 DEF Inv, LinksAreSound
<1>5. TypeOK'
  BY <1>1, <1>2, <1>4 DEF Inv, TypeOK, FreeOnes
<1>6. held' \subseteq Mine' /\ root' \in FreeOnes' \union {Null}
  BY <1>1, <1>2, <1>3, <1>4 DEF Inv, LinksAreSound, FreeOnes
<1>7. ASSUME NEW c \in FreeOnes'
      PROVE  /\ mem'[c] \in FreeOnes' \union {Null}
             /\ mem'[c] # Null =>
                  /\ mem'[c] # root'
                  /\ \A d \in FreeOnes' : mem'[d] = mem'[c] => d = c
  <2>1. c \in FreeOnes /\ c # root
    BY <1>3, <1>7
  <2>2. mem[c] \in FreeOnes \union {Null} /\ (mem[c] # Null => mem[c] # root)
    BY <2>1 DEF Inv, LinksAreSound
  <2>3. mem[c] # Null => \A d \in FreeOnes : mem[d] = mem[c] => d = c
    BY <2>1 DEF Inv, LinksAreSound
  <2>4. mem[c] # Null => mem[c] # mem[root]
    BY <1>1, <2>1, <2>3
  <2> QED
    BY <1>2, <1>3, <2>1, <2>2, <2>3, <2>4, PointersAssumption
<1> QED
  BY <1>1, <1>5, <1>6, <1>7 DEF Inv, LinksAreSound

\* A new block is taken when the list is empty, and is the list but for its
\* first chunk, which goes to the program.
LEMMA AllocNew ==
  ASSUME Inv, NEW b \in Blocks \ blocks, root = Null,
         TakeRoot(<< b, 0 >>, NewBlock(b)), blocks' = blocks \union {b}
  PROVE  Inv' /\ << b, 0 >> \in Chunks \ held
<1> USE CountAssumption, PointersAssumption
<1> DEFINE r == << b, 0 >>
           Rest == {b} \X (1 .. COUNT - 1)
<1>1. /\ root' = NewBlock(b)[r] /\ mem' = NewBlock(b) /\ held' = held \union {r}
      /\ allocated' = allocated + 1 /\ Mine' = Mine \union {r} \union Rest
      /\ r \notin Rest /\ r \notin Mine /\ r \in Chunks
      /\ \A c \in Rest : c \notin Mine /\ c \in Chunks
  BY DEF TakeRoot, Mine, Chunks
<1>2. r \notin held /\ FreeOnes' = FreeOnes \union Rest
  BY <1>1 DEF Inv, LinksAreSound, FreeOnes
<1>3. \A c \in FreeOnes : mem'[c] = mem[c] /\ c \notin Rest
  BY <1>1 DEF NewBlock, FreeOnes, Mine, Chunks, Inv, TypeOK
<1>4. ASSUME NEW i \in 0 .. COUNT - 1
      PROVE  /\ i < COUNT - 1 => mem'[<< b, i >>] = << b, i + 1 >> /\ << b, i + 1 >> \in Rest
             /\ i = COUNT - 1 => mem'[<< b, i >>] = Null
  <2>1. << b, i >> \in Chunks
    BY DEF Chunks
  <2> QED
    BY <1>1, <2>1 DEF NewBlock
<1>5. \A c \in Rest \union {r} : mem'[c] \in Rest \union {Null}
  <2>1. ASSUME NEW i \in 0 .. COUNT - 1 PROVE mem'[<< b, i >>] \in Rest \union {Null}
    <3>1. i < COUNT - 1 \/ i = COUNT - 1
      OBVIOUS
    <3> HIDE DEF Rest
    <3> QED
      BY <1>4, <3>1
  <2>2. \A c \in Rest \union {r} : \E i \in 0 .. COUNT - 1 : c = << b, i >>
    OBVIOUS
  <2> QED
    BY <2>1, <2>2
<1>6. TypeOK'
  BY <1>1, <1>5 DEF Inv, TypeOK, NewBlock, Chunks
<1>7. held' \subseteq Mine' /\ root' \in FreeOnes' \union {Null}
  BY <1>1, <1>2, <1>5 DEF Inv, LinksAreSound
<1>8. ASSUME NEW c \in FreeOnes'
      PROVE  /\ mem'[c] \in FreeOnes' \union {Null}
             /\ mem'[c] # Null =>
                  /\ mem'[c] # root'
                  /\ \A d \in FreeOnes' : mem'[d] = mem'[c] => d = c
  <2>1. CASE c \in FreeOnes
    <3>1. /\ mem'[c] \in FreeOnes \union {Null}
          /\ mem'[c] # Null => \A d \in FreeOnes : mem'[d] = mem'[c] => d = c
      BY <1>3, <2>1 DEF Inv, LinksAreSound
    <3>2. \A d \in FreeOnes : d \notin Rest
      BY <1>3
    <3> QED
      BY <1>1, <1>2, <1>5, <3>1, <3>2
  <2>2. CASE c \in Rest
    <3>1. mem'[c] \in Rest \union {Null}
      BY <1>5, <2>2
    <3>2. \A d \in FreeOnes : mem'[d] \notin Rest
      <4>1. \A d \in FreeOnes : mem'[d] \in FreeOnes \union {Null}
        BY <1>3 DEF Inv, LinksAreSound
      <4> QED
        BY <1>1, <1>3, <4>1
    <3>3. PICK i \in 1 .. COUNT - 1 : c = << b, i >>
      BY <2>2
    <3>4. mem'[c] # Null => mem'[c] # root'
      <4>1. ASSUME mem'[c] # Null PROVE mem'[c] = << b, i + 1 >>
        <5>1. i \in 0 .. COUNT - 1 /\ (i < COUNT - 1 \/ i = COUNT - 1)
          OBVIOUS
        <5> QED
          BY <1>4, <3>3, <4>1, <5>1
      <4>2. root' \in {<< b, 1 >>, Null}
        <5>1. 0 \in 0 .. COUNT - 1 /\ (0 < COUNT - 1 \/ 0 = COUNT - 1) /\ 0 + 1 = 1
          OBVIOUS
        <5> QED
          BY <1>1, <1>4, <5>1
      <4> QED
        BY <3>3, <4>1, <4>2
    <3>5. ASSUME mem'[c] # Null, NEW d \in Rest, mem'[d] = mem'[c]
          PROVE  d = c
      <4>1. PICK j \in 1 .. COUNT - 1 : d = << b, j >>
        OBVIOUS
      <4>2. mem'[c] = << b, i + 1 >> /\ mem'[d] = << b, j + 1 >>
        <5>1. \A k \in 1 .. COUNT - 1 :
                k \in 0 .. COUNT - 1 /\ (k < COUNT - 1 \/ k = COUNT - 1)
          OBVIOUS
        <5> QED
          BY <1>4, <3>3, <3>5, <4>1, <5>1
      <4> QED
        BY <3>3, <3>5, <4>1, <4>2
    <3> QED
      BY <1>2, <3>1, <3>2, <3>4, <3>5
  <2> QED
    BY <1>2, <1>8, <2>1, <2>2
<1> QED
  BY <1>1, <1>2, <1>6, <1>7, <1>8 DEF Inv, LinksAreSound

\* What the program writes in a chunk it holds is on no list.
LEMMA NewStep ==
  ASSUME Inv, NEW c \in Chunks, New(c)
  PROVE  Inv'
<1>1. /\ c \in held /\ mem' = [mem EXCEPT ![c] = Data]
      /\ UNCHANGED << blocks, root, allocated, held >>
  BY DEF New
<1>2. Mine' = Mine /\ FreeOnes' = FreeOnes /\ c \notin FreeOnes
  BY <1>1 DEF Mine, FreeOnes
<1>3. FreeOnes \subseteq Chunks
  BY DEF FreeOnes, Mine, Inv, TypeOK, Chunks
<1>4. \A d \in FreeOnes : mem'[d] = mem[d]
  BY <1>1, <1>2, <1>3 DEF Inv, TypeOK
<1>5. TypeOK'
  BY <1>1 DEF Inv, TypeOK
<1> QED
  BY <1>1, <1>2, <1>4, <1>5 DEF Inv, LinksAreSound

\* A chunk that comes back is put before the first free one.
LEMMA FreeStep ==
  ASSUME Inv, NEW c \in Chunks, Free(c)
  PROVE  Inv'
<1>1. /\ c \in held /\ mem' = [mem EXCEPT ![c] = root] /\ root' = c
      /\ held' = held \ {c} /\ allocated' = allocated - 1 /\ blocks' = blocks
  BY DEF Free
<1>2. Mine' = Mine /\ c \in Mine /\ FreeOnes' = FreeOnes \union {c} /\ c \notin FreeOnes
  BY <1>1 DEF Mine, FreeOnes, Inv, LinksAreSound
<1>3. FreeOnes \subseteq Chunks
  BY DEF FreeOnes, Mine, Inv, TypeOK, Chunks
<1>4. mem'[c] = root /\ \A d \in FreeOnes : mem'[d] = mem[d]
  BY <1>1, <1>2, <1>3 DEF Inv, TypeOK
<1>5. TypeOK'
  BY <1>1 DEF Inv, TypeOK
<1>6. /\ root \in FreeOnes \union {Null}
      /\ \A d \in FreeOnes : mem[d] \in FreeOnes \union {Null}
      /\ \A d \in FreeOnes : mem[d] # Null =>
           /\ mem[d] # root
           /\ \A e \in FreeOnes : mem[e] = mem[d] => e = d
  BY DEF Inv, LinksAreSound
<1>7. c # Null
  BY PointersAssumption
<1>8. ASSUME NEW d \in FreeOnes'
      PROVE  /\ mem'[d] \in FreeOnes' \union {Null}
             /\ mem'[d] # Null =>
                  /\ mem'[d] # root'
                  /\ \A e \in FreeOnes' : mem'[e] = mem'[d] => e = d
  <2>1. CASE d = c
    BY <1>1, <1>2, <1>4, <1>6, <1>7, <2>1
  <2>2. CASE d \in FreeOnes
    BY <1>1, <1>2, <1>4, <1>6, <1>7, <2>2
  <2> QED
    BY <1>2, <1>8, <2>1, <2>2
<1> QED
  BY <1>1, <1>2, <1>5, <1>8 DEF Inv, LinksAreSound

\* After Clear there is nothing.
LEMMA ClearStep ==
  ASSUME Inv, Clear
  PROVE  Inv'
<1>1. Mine' = {} /\ FreeOnes' = {}
  BY DEF Clear, Mine, FreeOnes
<1>2. TypeOK'
  BY DEF Clear, TypeOK, Inv
<1> QED
  BY <1>1, <1>2 DEF Clear, Inv, LinksAreSound

\* Alloc hands out a chunk that is not held, from the list or a new block.
LEMMA AllocStep ==
  ASSUME Inv, Alloc
  PROVE  /\ Inv'
         /\ \E c \in Chunks \ held : held' = held \union {c} /\ allocated' = allocated + 1
<1>1. CASE root # Null /\ TakeRoot(root, mem) /\ UNCHANGED blocks
  BY <1>1, AllocFree DEF TakeRoot
<1>2. ASSUME NEW b \in Blocks \ blocks, root = Null,
             TakeRoot(<< b, 0 >>, NewBlock(b)), blocks' = blocks \union {b}
      PROVE  /\ Inv'
             /\ \E c \in Chunks \ held : held' = held \union {c} /\ allocated' = allocated + 1
  <2>1. Inv' /\ << b, 0 >> \in Chunks \ held
    BY <1>2, AllocNew
  <2>2. held' = held \union {<< b, 0 >>} /\ allocated' = allocated + 1
    BY <1>2 DEF TakeRoot
  <2> QED
    BY <2>1, <2>2
<1> QED
  BY <1>1, <1>2 DEF Alloc

\* The invariant holds in every state.
LEMMA Invariance == Spec => []Inv
<1>1. Init => Inv
  BY DEF Init, Inv, TypeOK, LinksAreSound, Mine, FreeOnes
<1>2. Inv /\ [Next]_vars => Inv'
  <2> SUFFICES ASSUME Inv, [Next]_vars PROVE Inv'
    OBVIOUS
  <2>1. CASE UNCHANGED vars
    BY <2>1 DEF vars, Inv, TypeOK, LinksAreSound, Mine, FreeOnes
  <2> QED
    BY <2>1, AllocStep, NewStep, FreeStep, ClearStep DEF Next
<1> QED
  BY <1>1, <1>2, PTL DEF Spec

(***************************************************************************)
(* Theorems                                                                *)
(***************************************************************************)

\* However large the blocks are, m_root and the links are pointers to chunks or
\* null: none is ever read from what the program, or new, left in memory.
THEOREM TypeCorrect == Spec => []TypeOK
BY Invariance, PTL DEF Inv

\* The free list never joins, closes on m_root or runs into a held chunk,
\* although its links are kept in memory the program writes (Alloc, Free).
THEOREM LinksStaySound == Spec => []LinksAreSound
BY Invariance, PTL DEF Inv

\* MemoryPoolImp is an allocator: a chunk that Alloc returns is not held.
THEOREM ImplementsAllocator == Spec => NeverHandedOutTwice
<1>1. Init => Promised!Init
  BY DEF Init, Promised!Init
<1>2. Inv /\ [Next]_vars => [Promised!Next]_(Promised!vars)
  <2> SUFFICES ASSUME Inv, [Next]_vars PROVE [Promised!Next]_(Promised!vars)
    OBVIOUS
  <2>1. CASE Alloc
    BY <2>1, AllocStep DEF Promised!Next, Promised!Alloc
  <2>2. ASSUME NEW c \in Chunks, New(c) PROVE UNCHANGED Promised!vars
    BY <2>2 DEF New, Promised!vars
  <2>3. ASSUME NEW c \in Chunks, Free(c) PROVE Promised!Next
    BY <2>3 DEF Free, Promised!Next, Promised!Free
  <2>4. CASE Clear
    BY <2>4 DEF Clear, Promised!Next, Promised!Clear
  <2>5. CASE UNCHANGED vars
    BY <2>5 DEF vars, Promised!vars
  <2> QED
    BY <2>1, <2>2, <2>3, <2>4, <2>5 DEF Next
<1> QED
  BY <1>1, <1>2, Invariance, PTL DEF Spec, NeverHandedOutTwice, Promised!Spec
================================================================================
