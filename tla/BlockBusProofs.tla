--------------------------- MODULE BlockBusProofs ---------------------------
(***************************************************************************)
(* Proofs about BlockBus for every set of users, every size of word and    *)
(* chunk and every limit on chunks: the bitmap records exactly the blocks  *)
(* in use, and no block is handed out twice.                               *)
(***************************************************************************)
EXTENDS BlockBusInvariant

(* The compare-and-swap that completes an allocation. *)
LEMMA StepTakeLast ==
    ASSUME IInv, NEW u \in Users, TakeLast(u)
    PROVE  IInv'
<1> DEFINE T == {Word(u)} \X foundBits(u)
<1>1. TypeOK /\ NoSharedBlock /\ BitmapExact /\ ExactGrant /\ \A v \in Users : LockInv(v)
  BY DEF IInv
<1>2. numWords' = numWords /\ Blocks' = Blocks
  BY DEF TakeLast, numWords, Blocks
<1>3. Word(u) \in 0..numWords-1 /\ foundBits(u) \subseteq Bits /\ T \subseteq Blocks
  BY ZenonT(30), <1>1, WordRange, FoundBits, TakenBlocks
<1>4. TypeOK'
  <2>1. bitmap' \in [0..numWords-1 -> SUBSET Bits]
    BY ZenonT(60), <1>1, <1>3 DEF TypeOK, TakeLast
  <2>2. stripe' \in [Users -> SUBSET Blocks] /\ allocated' \in [Users -> SUBSET Blocks]
    BY ZenonT(60), <1>1, <1>3 DEF TypeOK, TakeLast
  <2>3. lastSearchPos' \in Nat
    <3>1. numWords \in Nat \ {0}
      BY <1>1, NumWords DEF TypeOK, numWords
    <3>2. Word(u) + 1 \in Nat
      BY <1>3, <3>1
    <3>3. QED  BY <3>1, <3>2 DEF TakeLast
  <2>4. /\ want' \in [Users -> Nat] /\ remaining' \in [Users -> Nat]
        /\ start' \in [Users -> Nat] /\ i' \in [Users -> Nat]
        /\ old' \in [Users -> SUBSET Bits]
    <3>1. 0 \in Nat
      OBVIOUS
    <3>2. QED
      BY ZenonT(60), <1>1, <3>1 DEF TypeOK, TakeLast
  <2>5. readers' \subseteq Users /\ pc' \in [Users -> States]
    BY ZenonT(60), <1>1 DEF TypeOK, TakeLast, States
  <2>6. QED  BY ZenonT(60), <1>1, <1>2, <2>1, <2>2, <2>3, <2>4, <2>5 DEF TypeOK, TakeLast
<1>5. NoSharedBlock' /\ BitmapExact'
  <2>1. Holds(u)' = Holds(u) \cup T
    BY <1>1 DEF Holds, TakeLast, TypeOK
  <2>2. \A v \in Users \ {u} : Holds(v)' = Holds(v)
    BY <1>1 DEF Holds, TakeLast, TypeOK
  <2>3. ASSUME NEW v \in Users PROVE allocated'[v] \cap stripe'[v] = {}
    BY <1>1 DEF TakeLast, TypeOK, NoSharedBlock
  <2>4. QED  BY ZenonT(30), <2>1, <2>2, <2>3, TakeKeepsBlocks DEF TakeLast
<1>6. ExactGrant'
  BY <1>1 DEF ExactGrant, TakeLast, TypeOK
<1>7. ASSUME NEW v \in Users PROVE LockInv(v)'
  BY ZenonT(30), <1>1 DEF LockInv, TakeLast, TypeOK
<1>8. QED  BY <1>4, <1>5, <1>6, <1>7 DEF IInv

(* The compare-and-swap of an allocation that needs more words. *)
LEMMA StepTakeSome ==
    ASSUME IInv, NEW u \in Users, TakeSome(u)
    PROVE  IInv'
<1> DEFINE T == {Word(u)} \X foundBits(u)
<1>1. TypeOK /\ NoSharedBlock /\ BitmapExact /\ ExactGrant /\ \A v \in Users : LockInv(v)
  BY DEF IInv
<1>2. numWords' = numWords /\ Blocks' = Blocks
  BY DEF TakeSome, numWords, Blocks
<1>3. Word(u) \in 0..numWords-1 /\ foundBits(u) \subseteq Bits /\ T \subseteq Blocks
        /\ Cardinality(foundBits(u)) \in Nat
  BY ZenonT(30), <1>1, WordRange, FoundBits, TakenBlocks
<1>4. TypeOK'
  <2>1. bitmap' \in [0..numWords-1 -> SUBSET Bits]
    BY ZenonT(60), <1>1, <1>3 DEF TypeOK, TakeSome
  <2>2. allocated' \in [Users -> SUBSET Blocks]
    BY ZenonT(30), <1>1, <1>3 DEF TypeOK, TakeSome
  <2>3. remaining' \in [Users -> Nat]
    <3>1. /\ remaining' = [remaining EXCEPT ![u] = @ - Cardinality(foundBits(u))]
          /\ Cardinality(foundBits(u)) < remaining[u]
      BY DEF TakeSome
    <3>2. remaining \in [Users -> Nat]
      BY <1>1, Zenon DEF TypeOK
    <3>3. remaining[u] - Cardinality(foundBits(u)) \in Nat
      BY <1>3, <3>1, <3>2
    <3>4. QED  BY <3>1, <3>2, <3>3, Zenon
  <2>4. i' \in [Users -> Nat]
    <3>1. i' = [i EXCEPT ![u] = @ + 1]
      BY DEF TakeSome
    <3>2. i \in [Users -> Nat]
      BY <1>1, Zenon DEF TypeOK
    <3>3. i[u] + 1 \in Nat
      BY <3>2
    <3>4. QED  BY <3>1, <3>2, <3>3, Zenon
  <2>5. old' \in [Users -> SUBSET Bits] /\ pc' \in [Users -> States]
    BY ZenonT(30), <1>1 DEF TypeOK, TakeSome, States
  <2>6. QED  BY ZenonT(30), <1>1, <1>2, <2>1, <2>2, <2>3, <2>4, <2>5 DEF TypeOK, TakeSome
<1>5. T \cap Holds(u) = {}
  BY TakenBlocksAreFree DEF TakeSome
<1>6. NoSharedBlock' /\ BitmapExact'
  <2>1. Holds(u)' = Holds(u) \cup T
    BY <1>1 DEF Holds, TakeSome, TypeOK
  <2>2. \A v \in Users \ {u} : Holds(v)' = Holds(v)
    BY <1>1 DEF Holds, TakeSome, TypeOK
  <2>3. ASSUME NEW v \in Users PROVE allocated'[v] \cap stripe'[v] = {}
    BY <1>1, <1>5 DEF TakeSome, TypeOK, NoSharedBlock, Holds
  <2>4. QED  BY ZenonT(30), <2>1, <2>2, <2>3, TakeKeepsBlocks DEF TakeSome
<1>7. ExactGrant'
  <2>1. SUFFICES ASSUME NEW v \in Users,
                        pc'[v] \in {"rlock", "load", "cas", "count", "mux", "append"}
                 PROVE  Cardinality(allocated'[v]) + remaining'[v] = want'[v]
    BY DEF ExactGrant
  <2>2. CASE v # u
    BY SMTT(60), <1>1, <2>1, <2>2 DEF ExactGrant, TakeSome, TypeOK
  <2>3. CASE v = u
    <3>1. /\ allocated'[u] = allocated[u] \cup T
          /\ remaining'[u] = remaining[u] - Cardinality(foundBits(u))
          /\ want'[u] = want[u]
          /\ Cardinality(allocated[u]) + remaining[u] = want[u]
      BY <1>1 DEF TakeSome, TypeOK, ExactGrant
    <3>2. IsFiniteSet(allocated[u]) /\ Cardinality(allocated[u]) \in Nat
      BY ZenonT(60), <1>1, BlocksFinite DEF TypeOK
    <3>3. IsFiniteSet(T) /\ Cardinality(T) = Cardinality(foundBits(u))
      BY <1>1, TakenBlocks
    <3>4. allocated[u] \cap T = {}
      BY <1>5 DEF Holds
    <3>5. Cardinality(allocated[u] \cup T)
            = Cardinality(allocated[u]) + Cardinality(T) - Cardinality(allocated[u] \cap T)
      BY ZenonT(30), <3>2, <3>3, FS_Union
    <3>6. Cardinality(allocated[u] \cap T) = 0
      BY <3>4, FS_EmptySet
    <3>7. remaining[u] \in Nat
      BY <1>1 DEF TypeOK
    <3>8. QED  BY SMTT(60), <1>3, <2>3, <3>1, <3>2, <3>3, <3>5, <3>6, <3>7
  <2>4. QED  BY <2>2, <2>3
<1>8. ASSUME NEW v \in Users PROVE LockInv(v)'
  BY ZenonT(30), <1>1 DEF LockInv, TakeSome, TypeOK
<1>9. QED  BY <1>4, <1>6, <1>7, <1>8 DEF IInv

(* A new chunk adds free blocks and moves none. *)
LEMMA StepAppendChunk ==
    ASSUME IInv, NEW u \in Users, AppendChunk(u)
    PROVE  IInv'
<1>1. TypeOK /\ NoSharedBlock /\ BitmapExact /\ ExactGrant /\ \A v \in Users : LockInv(v)
  BY DEF IInv
<1>2. /\ numWords \in Nat \ {0} /\ WordsPerChunk \in Nat \ {0}
      /\ numWords' = numWords + WordsPerChunk
  BY <1>1, NumWords, BusAssumption DEF TypeOK, AppendChunk, numWords
<1>3. Blocks \subseteq Blocks'
  BY <1>2 DEF Blocks, Bits
<1>4. \A v \in Users : Holds(v)' = Holds(v) /\ Holds(v) \subseteq Blocks
  BY <1>1 DEF Holds, AppendChunk, TypeOK
<1>5. TypeOK'
  <2>1. chunkCount' \in 1..MaxChunks
    BY <1>1, BusAssumption DEF TypeOK, AppendChunk, LockInv
  <2>2. bitmap' \in [0..numWords'-1 -> SUBSET Bits]
    <3>1. bitmap' = [w \in 0..numWords'-1 |-> IF w < numWords THEN bitmap[w] ELSE {}]
      BY <1>2 DEF AppendChunk
    <3>2. \A w \in 0..numWords'-1 : w < numWords => bitmap[w] \subseteq Bits
      BY SMTT(60), <1>1, <1>2 DEF TypeOK
    <3>3. QED  BY <3>1, <3>2
  <2>3. allocated' \in [Users -> SUBSET Blocks'] /\ stripe' \in [Users -> SUBSET Blocks']
    <3>1. UNCHANGED <<allocated, stripe>>
      BY DEF AppendChunk
    <3>2. allocated \in [Users -> SUBSET Blocks] /\ stripe \in [Users -> SUBSET Blocks]
      BY <1>1, Zenon DEF TypeOK
    <3>3. QED  BY <1>3, <3>1, <3>2
  <2>4. count' \in [Users -> 0..MaxChunks]
    BY <1>1, BusAssumption DEF TypeOK, AppendChunk
  <2>5. pc' \in [Users -> States] /\ mux' \in Users \cup {NoUser}
    BY SMTT(60), <1>1 DEF TypeOK, AppendChunk, States
  <2>6. QED
    BY ZenonT(60), <1>1, <2>1, <2>2, <2>3, <2>4, <2>5 DEF TypeOK, AppendChunk, searchVars, Bits
<1>6. NoSharedBlock'
  BY <1>1, <1>4 DEF NoSharedBlock, AppendChunk
<1>7. BitmapExact'
  <2>1. SUFFICES ASSUME NEW b \in Blocks'
                 PROVE  b[2] \in bitmap'[b[1]] <=> \E v \in Users : b \in Holds(v)'
    BY DEF BitmapExact
  <2>2. b[1] \in 0..(numWords + WordsPerChunk - 1) /\ b[2] \in Bits /\ b = <<b[1], b[2]>>
    BY <1>2 DEF Blocks, Bits
  <2>3. CASE b \in Blocks
    <3>1. bitmap'[b[1]] = bitmap[b[1]]
      BY <1>2, <2>2, <2>3 DEF AppendChunk, Blocks
    <3>2. QED  BY <1>1, <1>4, <2>3, <3>1 DEF BitmapExact
  <2>4. CASE b \notin Blocks
    <3>1. ~(b[1] < numWords)
      BY <1>2, <2>2, <2>4 DEF Blocks
    <3>2. bitmap'[b[1]] = {}
      BY <2>2, <3>1 DEF AppendChunk
    <3>3. QED  BY <1>4, <2>4, <3>2
  <2>5. QED  BY SMTT(60), <2>3, <2>4
<1>8. ExactGrant'
  BY <1>1 DEF ExactGrant, AppendChunk, TypeOK
<1>9. ASSUME NEW v \in Users PROVE LockInv(v)'
  BY ZenonT(30), <1>1 DEF LockInv, AppendChunk, TypeOK
<1>10. QED  BY SMTT(60), <1>5, <1>6, <1>7, <1>8, <1>9 DEF IInv

(* The error path of AllocBlocks frees one of its blocks. *)
LEMMA StepRollbackBlock ==
    ASSUME IInv, NEW u \in Users, RollbackBlock(u)
    PROVE  IInv'
<1>1. TypeOK /\ NoSharedBlock /\ BitmapExact /\ ExactGrant /\ \A v \in Users : LockInv(v)
  BY SMTT(60) DEF IInv
<1>2. PICK b \in allocated[u] : /\ bitmap' = Cleared(b)
                                /\ allocated' = [allocated EXCEPT ![u] = @ \ {b}]
  BY ZenonT(30) DEF RollbackBlock
<1>3. numWords' = numWords /\ Blocks' = Blocks
  BY DEF RollbackBlock, numWords, Blocks
<1>4. TypeOK'
  <2>1. bitmap' \in [0..numWords-1 -> SUBSET Bits]
    BY ZenonT(30), <1>1, <1>2 DEF TypeOK, Cleared
  <2>2. allocated' \in [Users -> SUBSET Blocks]
    BY ZenonT(60), <1>1, <1>2 DEF TypeOK
  <2>3. QED  BY ZenonT(60), <1>1, <1>3, <2>1, <2>2 DEF TypeOK, RollbackBlock, searchVars
<1>5. NoSharedBlock' /\ BitmapExact'
  <2>1. b \in Holds(u) /\ b \notin stripe[u]
    BY <1>1 DEF Holds, NoSharedBlock
  <2>2. Holds(u)' = Holds(u) \ {b}
    BY ZenonT(60), <1>1, <1>2, <2>1 DEF Holds, RollbackBlock, TypeOK
  <2>3. \A v \in Users \ {u} : Holds(v)' = Holds(v)
    BY SMTT(60), <1>1, <1>2 DEF Holds, RollbackBlock, TypeOK
  <2>4. ASSUME NEW v \in Users PROVE allocated'[v] \cap stripe'[v] = {}
    BY <1>1, <1>2 DEF RollbackBlock, TypeOK, NoSharedBlock
  <2>5. QED  BY <1>2, <2>1, <2>2, <2>3, <2>4, FreeKeepsBlocks DEF RollbackBlock
<1>6. ExactGrant'
  BY ZenonT(30), <1>1, <1>2 DEF ExactGrant, RollbackBlock, TypeOK
<1>7. ASSUME NEW v \in Users PROVE LockInv(v)'
  BY ZenonT(30), <1>1, <1>2 DEF LockInv, RollbackBlock, TypeOK
<1>8. QED  BY <1>4, <1>5, <1>6, <1>7 DEF IInv

(* FreeStripe frees one block of its stripe. *)
LEMMA StepFreeBlock ==
    ASSUME IInv, NEW u \in Users, FreeBlock(u)
    PROVE  IInv'
<1>1. TypeOK /\ NoSharedBlock /\ BitmapExact /\ ExactGrant /\ \A v \in Users : LockInv(v)
  BY DEF IInv
<1>2. PICK b \in stripe[u] :
          /\ bitmap' = Cleared(b)
          /\ stripe' = [stripe EXCEPT ![u] = @ \ {b}]
          /\ pc' = [pc EXCEPT ![u] = IF stripe[u] = {b} THEN "idle" ELSE "free"]
  BY ZenonT(30) DEF FreeBlock
<1>3. numWords' = numWords /\ Blocks' = Blocks
  BY DEF FreeBlock, numWords, Blocks
<1>4. TypeOK'
  <2>1. bitmap' \in [0..numWords-1 -> SUBSET Bits]
    BY ZenonT(30), <1>1, <1>2 DEF TypeOK, Cleared
  <2>2. stripe' \in [Users -> SUBSET Blocks] /\ pc' \in [Users -> States]
    BY ZenonT(60), <1>1, <1>2 DEF TypeOK, States
  <2>3. QED  BY ZenonT(60), <1>1, <1>3, <2>1, <2>2 DEF TypeOK, FreeBlock, searchVars
<1>5. NoSharedBlock' /\ BitmapExact'
  <2>1. b \in Holds(u) /\ b \notin allocated[u]
    BY SMTT(60), <1>1 DEF Holds, NoSharedBlock
  <2>2. Holds(u)' = Holds(u) \ {b}
    BY SMTT(60), <1>1, <1>2, <2>1 DEF Holds, FreeBlock, TypeOK
  <2>3. \A v \in Users \ {u} : Holds(v)' = Holds(v)
    BY SMTT(60), <1>1, <1>2 DEF Holds, FreeBlock, TypeOK
  <2>4. ASSUME NEW v \in Users PROVE allocated'[v] \cap stripe'[v] = {}
    BY SMTT(60), <1>1, <1>2 DEF FreeBlock, TypeOK, NoSharedBlock
  <2>5. QED  BY SMTT(60), <1>2, <2>1, <2>2, <2>3, <2>4, FreeKeepsBlocks DEF FreeBlock
<1>6. ExactGrant'
  BY SMTT(60), <1>1, <1>2 DEF ExactGrant, FreeBlock, TypeOK
<1>7. ASSUME NEW v \in Users PROVE LockInv(v)'
  BY ZenonT(30), <1>1, <1>2 DEF LockInv, FreeBlock, TypeOK
<1>8. QED  BY <1>4, <1>5, <1>6, <1>7 DEF IInv

(* Every step of the specification keeps the inductive invariant.          *)
LEMMA StepIInv == IInv /\ [Next]_vars => IInv'
<1>1. SUFFICES ASSUME IInv, [Next]_vars PROVE IInv'
  OBVIOUS
<1>2. CASE UNCHANGED vars
  <2>1. TypeOK'
    BY ZenonT(60), <1>1, <1>2 DEF IInv, TypeOK, vars, searchVars, numWords, Blocks
  <2>2. NoSharedBlock' /\ BitmapExact'
    BY ZenonT(60), <1>1, <1>2, FrameBlocks DEF IInv, vars, blockVars
  <2>3. ExactGrant' /\ \A v \in Users : LockInv(v)'
    BY <1>1, <1>2 DEF IInv, ExactGrant, LockInv, vars
  <2>4. QED  BY ZenonT(60), <2>1, <2>2, <2>3 DEF IInv
<1>3. CASE Next
  <2>1. PICK u \in Users : \/ \E n \in Counts : AllocCall(u, n)
                           \/ FreeStripe(u) \/ Step(u)
    BY <1>3 DEF Next
  <2>2. CASE \E n \in Counts : AllocCall(u, n)
    BY <1>1, <2>2, StepAllocCall
  <2>3. CASE FreeStripe(u)
    BY <1>1, <2>3, StepFreeStripe
  <2>4. CASE Step(u)
    BY <1>1, <2>4, StepStartSearch, StepLoadWord, StepSkipFullWord, StepTakeLast,
       StepTakeSome, StepLoseRace, StepEndSearch, StepReadCount, StepSkipAppend,
       StepLockAppend, StepAppendChunk, StepAppendFails, StepRollbackBlock,
       StepReturnError, StepFreeBlock, Zenon DEF Step
  <2>5. QED  BY <2>1, <2>2, <2>3, <2>4
<1>4. QED  BY <1>1, <1>2, <1>3
-----------------------------------------------------------------------------
(* IInv holds in every reachable state of the allocator.                   *)
LEMMA Invariance == Spec => []IInv
  BY InitIInv, StepIInv, PTL DEF Spec

(* The bus is type-correct: searches stay inside the bitmap, and it never  *)
(* has more than MaxChunks chunks, however many users run out of blocks at *)
(* the same time (the second read of ChunkCount in tryAppendChunk).        *)
THEOREM BusTypeCorrect == Spec => []TypeOK
<1>1. IInv => TypeOK
  BY DEF IInv
<1>2. QED  BY <1>1, Invariance, PTL

(* No block ever belongs to two allocations or stripes (the compare-and-   *)
(* swap of AllocBlocks).                                                   *)
THEOREM BusNoSharedBlock == Spec => []NoSharedBlock
<1>1. IInv => NoSharedBlock
  BY DEF IInv
<1>2. QED  BY <1>1, Invariance, PTL

(* The bitmap always records exactly the blocks in use: AllocBlocks, its   *)
(* rollback, tryAppendChunk, FreeBlock and FreeStripe leak nothing.        *)
THEOREM BusBitmapExact == Spec => []BitmapExact
<1>1. IInv => BitmapExact
  BY DEF IInv
<1>2. QED  BY <1>1, Invariance, PTL

(* An allocation in progress has taken exactly what it was asked for less  *)
(* what remains (the counting in AllocBlocks).                             *)
THEOREM BusExactGrant == Spec => []ExactGrant
<1>1. IInv => ExactGrant
  BY DEF IInv
<1>2. QED  BY <1>1, Invariance, PTL
=============================================================================
