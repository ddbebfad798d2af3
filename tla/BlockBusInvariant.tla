-------------------------- MODULE BlockBusInvariant --------------------------
(***************************************************************************)
(* The inductive invariant of BlockBus, and the proof that the steps which *)
(* change no block's owner preserve it.                                    *)
(***************************************************************************)
EXTENDS BlockBus, FiniteSetTheorems, TLAPS

(* What user u knows about the locks, and what it holds between calls.     *)
LockInv(u) ==
    /\ u \in readers <=> pc[u] \in {"load", "cas"}
    /\ pc[u] \in {"idle", "free"} => allocated[u] = {}
    /\ pc[u] \in {"mux", "append"} => count[u] < MaxChunks
    /\ pc[u] = "append" => mux = u /\ count[u] = chunkCount

(* The inductive invariant. *)
IInv ==
    /\ TypeOK /\ NoSharedBlock /\ BitmapExact /\ ExactGrant
    /\ \A u \in Users : LockInv(u)

blockVars == <<bitmap, chunkCount, allocated, stripe>>
-----------------------------------------------------------------------------
(* The bitmap is never empty: a chunk has at least one word.               *)
LEMMA NumWords ==
    ASSUME NEW n \in Nat \ {0}
    PROVE  /\ n * WordsPerChunk \in Nat \ {0}
           /\ (n + 1) * WordsPerChunk = n * WordsPerChunk + WordsPerChunk
<1>1. WordsPerChunk \in Nat \ {0}
  BY BusAssumption
<1>2. QED  BY <1>1

(* The search of AllocBlocks stays inside the bitmap.                      *)
LEMMA WordRange ==
    ASSUME TypeOK, NEW u \in Users
    PROVE  Word(u) \in 0..numWords-1
<1>1. numWords \in Nat \ {0}
  BY NumWords DEF TypeOK, numWords
<1>2. start[u] + i[u] \in Nat
  <2>1. start[u] \in Nat /\ i[u] \in Nat
    BY Zenon DEF TypeOK
  <2>2. QED  BY <2>1
<1>3. QED  BY <1>1, <1>2 DEF Word

(* foundBits(u) is a finite set of bits that were clear when u loaded the  *)
(* word.                                                                   *)
LEMMA FoundBits ==
    ASSUME TypeOK, NEW u \in Users
    PROVE  /\ foundBits(u) \subseteq Bits
           /\ foundBits(u) \cap old[u] = {}
           /\ IsFiniteSet(foundBits(u))
           /\ Cardinality(foundBits(u)) \in Nat
<1>1. foundBits(u) \subseteq Bits /\ foundBits(u) \cap old[u] = {}
  BY DEF foundBits
<1>2. IsFiniteSet(Bits)
  BY FS_Interval, BusAssumption DEF Bits
<1>3. IsFiniteSet(foundBits(u))
  BY <1>1, <1>2, FS_Subset
<1>4. QED  BY <1>1, <1>3, FS_CardinalityType

(* Nobody holds a block that the compare-and-swap of AllocBlocks takes.    *)
LEMMA TakenBlocksAreFree ==
    ASSUME IInv, NEW u \in Users, bitmap[Word(u)] = old[u], NEW v \in Users
    PROVE  Holds(v) \cap ({Word(u)} \X foundBits(u)) = {}
<1>1. TypeOK /\ BitmapExact
  BY DEF IInv
<1>2. Word(u) \in 0..numWords-1
  BY <1>1, WordRange
<1>3. foundBits(u) \subseteq Bits /\ foundBits(u) \cap old[u] = {}
  BY <1>1, FoundBits
<1>4. SUFFICES ASSUME NEW b \in foundBits(u), <<Word(u), b>> \in Holds(v)
               PROVE  FALSE
  OBVIOUS
<1>5. <<Word(u), b>> \in Blocks
  BY <1>2, <1>3 DEF Blocks
<1>6. b \in bitmap[Word(u)]
  BY <1>1, <1>4, <1>5 DEF BitmapExact
<1>7. QED  BY <1>3, <1>6

(* The blocks that the compare-and-swap takes: inside the bitmap, as many  *)
(* as the bits found.                                                      *)
LEMMA TakenBlocks ==
    ASSUME TypeOK, NEW u \in Users
    PROVE  /\ {Word(u)} \X foundBits(u) \subseteq Blocks
           /\ IsFiniteSet({Word(u)} \X foundBits(u))
           /\ Cardinality({Word(u)} \X foundBits(u)) = Cardinality(foundBits(u))
<1>1. Word(u) \in 0..numWords-1
  BY WordRange
<1>2. foundBits(u) \subseteq Bits /\ IsFiniteSet(foundBits(u))
        /\ Cardinality(foundBits(u)) \in Nat
  BY FoundBits
<1>3. {Word(u)} \X foundBits(u) \subseteq Blocks
  BY <1>1, <1>2 DEF Blocks
<1>4. IsFiniteSet({Word(u)}) /\ Cardinality({Word(u)}) = 1
  BY ZenonT(30), FS_Singleton
<1>5. /\ IsFiniteSet({Word(u)} \X foundBits(u))
      /\ Cardinality({Word(u)} \X foundBits(u)) = 1 * Cardinality(foundBits(u))
  BY <1>2, <1>4, FS_Product
<1>6. QED  BY <1>2, <1>3, <1>5

(* Sets of blocks are finite.                                              *)
LEMMA BlocksFinite ==
    ASSUME TypeOK, NEW S, S \subseteq Blocks
    PROVE  IsFiniteSet(S) /\ Cardinality(S) \in Nat
<1>1. numWords \in Nat
  BY NumWords DEF TypeOK, numWords
<1>2. IsFiniteSet(0..numWords-1) /\ IsFiniteSet(Bits)
  BY <1>1, FS_Interval, BusAssumption DEF Bits
<1>3. IsFiniteSet(Blocks)
  BY ZenonT(30), <1>2, FS_Product DEF Blocks
<1>4. IsFiniteSet(S)
  BY <1>3, FS_Subset
<1>5. QED  BY <1>4, FS_CardinalityType

-----------------------------------------------------------------------------
(* A step that leaves the bitmap, the chunks and everyone's blocks alone   *)
(* keeps the two invariants about blocks.                                  *)
LEMMA FrameBlocks ==
    ASSUME NoSharedBlock, BitmapExact, UNCHANGED blockVars
    PROVE  NoSharedBlock' /\ BitmapExact'
<1>1. \A u \in Users : Holds(u)' = Holds(u)
  BY DEF Holds, blockVars
<1>2. NoSharedBlock'
  BY <1>1 DEF NoSharedBlock, blockVars
<1>3. Blocks' = Blocks
  BY DEF Blocks, numWords, blockVars
<1>4. BitmapExact'
  BY <1>1, <1>3 DEF BitmapExact, blockVars
<1>5. QED  BY <1>2, <1>4

(* The successful compare-and-swap of AllocBlocks: u holds its old blocks  *)
(* and the taken ones.                                                     *)
LEMMA TakeKeepsBlocks ==
    ASSUME IInv, NEW u \in Users, bitmap[Word(u)] = old[u],
           bitmap' = [bitmap EXCEPT ![Word(u)] = @ \cup foundBits(u)],
           chunkCount' = chunkCount,
           Holds(u)' = Holds(u) \cup ({Word(u)} \X foundBits(u)),
           \A v \in Users \ {u} : Holds(v)' = Holds(v),
           \A v \in Users : allocated'[v] \cap stripe'[v] = {}
    PROVE  NoSharedBlock' /\ BitmapExact'
<1> DEFINE w == Word(u)
           T == {Word(u)} \X foundBits(u)
<1>1. TypeOK /\ NoSharedBlock /\ BitmapExact
  BY DEF IInv
<1>2. w \in 0..numWords-1
  BY <1>1, WordRange
<1>3. \A v \in Users : Holds(v) \cap T = {}
  BY TakenBlocksAreFree
<1>4. NoSharedBlock'
  <2>1. SUFFICES ASSUME NEW v \in Users, NEW x \in Users \ {v}
                 PROVE  Holds(v)' \cap Holds(x)' = {}
    BY DEF NoSharedBlock
  <2>2. Holds(v) \cap Holds(x) = {}
    BY <1>1 DEF NoSharedBlock
  <2>3. CASE v = u
    BY <1>3, <2>2, <2>3
  <2>4. CASE x = u
    BY <1>3, <2>2, <2>4
  <2>5. CASE v # u /\ x # u
    BY <2>2, <2>5
  <2>6. QED  BY <2>3, <2>4, <2>5
<1>5. BitmapExact'
  <2>1. Blocks' = Blocks
    BY DEF Blocks, numWords
  <2>2. SUFFICES ASSUME NEW b \in Blocks
                 PROVE  b[2] \in bitmap'[b[1]] <=> \E v \in Users : b \in Holds(v)'
    BY <2>1 DEF BitmapExact
  <2>3. b[2] \in bitmap[b[1]] <=> \E v \in Users : b \in Holds(v)
    BY <1>1 DEF BitmapExact
  <2>4. b[1] \in 0..numWords-1 /\ b = <<b[1], b[2]>>
    BY DEF Blocks
  <2>5. b[2] \in bitmap'[b[1]] <=> b[2] \in bitmap[b[1]] \/ b \in T
    BY ZenonT(60), <1>1, <1>2, <2>4 DEF TypeOK
  <2>6. (\E v \in Users : b \in Holds(v)') <=> (\E v \in Users : b \in Holds(v)) \/ b \in T
    OBVIOUS
  <2>7. QED  BY <2>3, <2>5, <2>6
<1>6. QED  BY <1>4, <1>5

(* FreeBlock of a block that u holds: afterwards nobody holds it.          *)
LEMMA FreeKeepsBlocks ==
    ASSUME IInv, NEW u \in Users, NEW b \in Holds(u),
           bitmap' = Cleared(b),
           chunkCount' = chunkCount,
           Holds(u)' = Holds(u) \ {b},
           \A v \in Users \ {u} : Holds(v)' = Holds(v),
           \A v \in Users : allocated'[v] \cap stripe'[v] = {}
    PROVE  NoSharedBlock' /\ BitmapExact'
<1>1. TypeOK /\ NoSharedBlock /\ BitmapExact
  BY DEF IInv
<1>2. Blocks' = Blocks
  BY DEF Blocks, numWords
<1>3. b \in Blocks /\ b[1] \in 0..numWords-1 /\ b = <<b[1], b[2]>>
  BY SMTT(60), <1>1 DEF TypeOK, Holds, Blocks
<1>4. NoSharedBlock'
  <2>1. SUFFICES ASSUME NEW v \in Users, NEW x \in Users \ {v}
                 PROVE  Holds(v)' \cap Holds(x)' = {}
    BY DEF NoSharedBlock
  <2>2. Holds(v) \cap Holds(x) = {}
    BY <1>1 DEF NoSharedBlock
  <2>3. Holds(v)' \subseteq Holds(v) /\ Holds(x)' \subseteq Holds(x)
    OBVIOUS
  <2>4. QED  BY <2>2, <2>3
<1>5. BitmapExact'
  <2>1. SUFFICES ASSUME NEW c \in Blocks
                 PROVE  c[2] \in bitmap'[c[1]] <=> \E v \in Users : c \in Holds(v)'
    BY <1>2 DEF BitmapExact
  <2>2. c[2] \in bitmap[c[1]] <=> \E v \in Users : c \in Holds(v)
    BY <1>1 DEF BitmapExact
  <2>3. c[1] \in 0..numWords-1 /\ c = <<c[1], c[2]>>
    BY DEF Blocks
  <2>4. c[2] \in bitmap'[c[1]] <=> c[2] \in bitmap[c[1]] /\ c # b
    BY ZenonT(30), <1>1, <1>3, <2>3 DEF TypeOK, Cleared
  <2>5. \A v \in Users \ {u} : b \notin Holds(v)
    BY <1>1 DEF NoSharedBlock
  <2>6. (\E v \in Users : c \in Holds(v)') <=> (\E v \in Users : c \in Holds(v)) /\ c # b
    BY <2>5
  <2>7. QED  BY <2>2, <2>4, <2>6
<1>6. QED  BY <1>4, <1>5

-----------------------------------------------------------------------------
(* Each step keeps the inductive invariant.                                *)

(* The initial state satisfies the inductive invariant.                    *)
LEMMA InitIInv == Init => IInv
<1>1. SUFFICES ASSUME Init PROVE IInv
  OBVIOUS
<1>2. TypeOK
  BY <1>1, BusAssumption DEF Init, TypeOK, numWords, Blocks, States
<1>3. NoSharedBlock /\ BitmapExact
  BY <1>1, BusAssumption DEF Init, NoSharedBlock, BitmapExact, Holds, Blocks, numWords
<1>4. ExactGrant
  BY <1>1 DEF Init, ExactGrant
<1>5. \A u \in Users : LockInv(u)
  BY <1>1 DEF Init, LockInv
<1>6. QED  BY <1>2, <1>3, <1>4, <1>5 DEF IInv

(* A new call of AllocBlocks starts with no blocks and all to find. *)
LEMMA StepAllocCall ==
    ASSUME IInv, NEW u \in Users, NEW n \in Counts, AllocCall(u, n)
    PROVE  IInv'
<1>1. TypeOK /\ NoSharedBlock /\ BitmapExact /\ ExactGrant /\ \A v \in Users : LockInv(v)
  BY DEF IInv
<1>2. UNCHANGED blockVars
  BY DEF AllocCall, blockVars, searchVars
<1>3. numWords' = numWords /\ Blocks' = Blocks
  BY <1>2 DEF blockVars, numWords, Blocks
<1>4. TypeOK'
  <2>1. calls' \in [Users -> 0..MaxCalls]
    <3>1. calls[u] \in 0..MaxCalls /\ calls[u] < MaxCalls /\ MaxCalls \in Nat
      BY <1>1, BusAssumption DEF TypeOK, AllocCall
    <3>2. calls[u] + 1 \in 0..MaxCalls
      BY <3>1
    <3>3. QED  BY <1>1, <3>2 DEF TypeOK, AllocCall
  <2>2. want' \in [Users -> Nat] /\ remaining' \in [Users -> Nat]
    BY ZenonT(60), <1>1, BusAssumption DEF TypeOK, AllocCall
  <2>3. pc' \in [Users -> States]
    BY <1>1 DEF TypeOK, AllocCall, States
  <2>4. QED  BY ZenonT(30), <1>1, <1>3, <2>1, <2>2, <2>3 DEF TypeOK, AllocCall, searchVars
<1>5. ExactGrant'
  <2>1. SUFFICES ASSUME NEW v \in Users,
                        pc'[v] \in {"rlock", "load", "cas", "count", "mux", "append"}
                 PROVE  Cardinality(allocated'[v]) + remaining'[v] = want'[v]
    BY DEF ExactGrant
  <2>2. CASE v = u
    <3>1. allocated'[u] = {} /\ remaining'[u] = n /\ want'[u] = n
      BY <1>1 DEF AllocCall, LockInv, TypeOK
    <3>2. n \in Nat
      BY BusAssumption
    <3>3. QED  BY <2>2, <3>1, <3>2, FS_EmptySet
  <2>3. CASE v # u
    BY <1>1, <2>1, <2>3 DEF ExactGrant, AllocCall, TypeOK
  <2>4. QED  BY <2>2, <2>3
<1>6. ASSUME NEW v \in Users PROVE LockInv(v)'
  BY ZenonT(30), <1>1 DEF LockInv, AllocCall, TypeOK, searchVars
<1>7. QED  BY <1>1, <1>2, <1>4, <1>5, <1>6, FrameBlocks DEF IInv

(* Starting a search takes the read lock and nothing else. *)
LEMMA StepStartSearch ==
    ASSUME IInv, NEW u \in Users, StartSearch(u)
    PROVE  IInv'
<1>1. TypeOK /\ NoSharedBlock /\ BitmapExact /\ ExactGrant /\ \A v \in Users : LockInv(v)
  BY DEF IInv
<1>2. UNCHANGED blockVars
  BY DEF StartSearch, blockVars, searchVars
<1>3. numWords' = numWords /\ Blocks' = Blocks
  BY <1>2 DEF blockVars, numWords, Blocks
<1>8. numWords \in Nat \ {0}
  BY <1>1, NumWords DEF TypeOK, numWords
<1>9. lastSearchPos % numWords \in Nat
  BY <1>1, <1>8 DEF TypeOK
<1>4. TypeOK'
  BY ZenonT(30), <1>1, <1>3, <1>9, BusAssumption DEF TypeOK, StartSearch, States, searchVars
<1>5. ExactGrant'
  BY <1>1 DEF ExactGrant, StartSearch, TypeOK, searchVars
<1>6. ASSUME NEW v \in Users PROVE LockInv(v)'
  BY ZenonT(30), <1>1 DEF LockInv, StartSearch, TypeOK, searchVars
<1>7. QED  BY <1>1, <1>2, <1>4, <1>5, <1>6, FrameBlocks DEF IInv

(* Loading a word of the bitmap changes no block. *)
LEMMA StepLoadWord ==
    ASSUME IInv, NEW u \in Users, LoadWord(u)
    PROVE  IInv'
<1>1. TypeOK /\ NoSharedBlock /\ BitmapExact /\ ExactGrant /\ \A v \in Users : LockInv(v)
  BY DEF IInv
<1>2. UNCHANGED blockVars
  BY DEF LoadWord, blockVars, searchVars
<1>3. numWords' = numWords /\ Blocks' = Blocks
  BY <1>2 DEF blockVars, numWords, Blocks
<1>9. Word(u) \in 0..numWords-1
  BY <1>1, WordRange
<1>4. TypeOK'
  BY ZenonT(60), <1>1, <1>3, <1>9, BusAssumption DEF TypeOK, LoadWord, States, searchVars
<1>5. ExactGrant'
  BY <1>1 DEF ExactGrant, LoadWord, TypeOK, searchVars
<1>6. ASSUME NEW v \in Users PROVE LockInv(v)'
  BY ZenonT(30), <1>1 DEF LockInv, LoadWord, TypeOK, searchVars
<1>7. QED  BY <1>1, <1>2, <1>4, <1>5, <1>6, FrameBlocks DEF IInv

(* Passing a full word changes no block. *)
LEMMA StepSkipFullWord ==
    ASSUME IInv, NEW u \in Users, SkipFullWord(u)
    PROVE  IInv'
<1>1. TypeOK /\ NoSharedBlock /\ BitmapExact /\ ExactGrant /\ \A v \in Users : LockInv(v)
  BY DEF IInv
<1>2. UNCHANGED blockVars
  BY DEF SkipFullWord, blockVars, searchVars
<1>3. numWords' = numWords /\ Blocks' = Blocks
  BY <1>2 DEF blockVars, numWords, Blocks
<1>4. TypeOK'
  <2>1. i' \in [Users -> Nat]
    <3>1. i' = [i EXCEPT ![u] = @ + 1]
      BY DEF SkipFullWord
    <3>2. i \in [Users -> Nat]
      BY <1>1, Zenon DEF TypeOK
    <3>3. i[u] + 1 \in Nat
      BY <3>2
    <3>4. QED  BY <3>1, <3>2, <3>3, Zenon
  <2>2. QED  BY ZenonT(60), <1>1, <1>3, <2>1 DEF TypeOK, SkipFullWord
<1>5. ExactGrant'
  BY <1>1 DEF ExactGrant, SkipFullWord, TypeOK, searchVars
<1>6. ASSUME NEW v \in Users PROVE LockInv(v)'
  BY ZenonT(30), <1>1 DEF LockInv, SkipFullWord, TypeOK, searchVars
<1>7. QED  BY <1>1, <1>2, <1>4, <1>5, <1>6, FrameBlocks DEF IInv

(* A failed compare-and-swap changes no block. *)
LEMMA StepLoseRace ==
    ASSUME IInv, NEW u \in Users, LoseRace(u)
    PROVE  IInv'
<1>1. TypeOK /\ NoSharedBlock /\ BitmapExact /\ ExactGrant /\ \A v \in Users : LockInv(v)
  BY DEF IInv
<1>2. UNCHANGED blockVars
  BY DEF LoseRace, blockVars, searchVars
<1>3. numWords' = numWords /\ Blocks' = Blocks
  BY <1>2 DEF blockVars, numWords, Blocks
<1>4. TypeOK'
  BY ZenonT(30), <1>1, <1>3, BusAssumption DEF TypeOK, LoseRace, States, searchVars
<1>5. ExactGrant'
  BY <1>1 DEF ExactGrant, LoseRace, TypeOK, searchVars
<1>6. ASSUME NEW v \in Users PROVE LockInv(v)'
  BY ZenonT(30), <1>1 DEF LockInv, LoseRace, TypeOK, searchVars
<1>7. QED  BY <1>1, <1>2, <1>4, <1>5, <1>6, FrameBlocks DEF IInv

(* The end of a search releases the read lock; the blocks found so far are kept. *)
LEMMA StepEndSearch ==
    ASSUME IInv, NEW u \in Users, EndSearch(u)
    PROVE  IInv'
<1>1. TypeOK /\ NoSharedBlock /\ BitmapExact /\ ExactGrant /\ \A v \in Users : LockInv(v)
  BY DEF IInv
<1>2. UNCHANGED blockVars
  BY DEF EndSearch, blockVars, searchVars
<1>3. numWords' = numWords /\ Blocks' = Blocks
  BY <1>2 DEF blockVars, numWords, Blocks
<1>4. TypeOK'
  BY ZenonT(30), <1>1, <1>3, BusAssumption DEF TypeOK, EndSearch, States, searchVars
<1>5. ExactGrant'
  BY <1>1 DEF ExactGrant, EndSearch, TypeOK, searchVars
<1>6. ASSUME NEW v \in Users PROVE LockInv(v)'
  BY ZenonT(30), <1>1 DEF LockInv, EndSearch, TypeOK, searchVars
<1>7. QED  BY <1>1, <1>2, <1>4, <1>5, <1>6, FrameBlocks DEF IInv

(* tryAppendChunk goes on only if it read a count below MaxChunks. *)
LEMMA StepReadCount ==
    ASSUME IInv, NEW u \in Users, ReadCount(u)
    PROVE  IInv'
<1>1. TypeOK /\ NoSharedBlock /\ BitmapExact /\ ExactGrant /\ \A v \in Users : LockInv(v)
  BY DEF IInv
<1>2. UNCHANGED blockVars
  BY DEF ReadCount, blockVars, searchVars
<1>3. numWords' = numWords /\ Blocks' = Blocks
  BY <1>2 DEF blockVars, numWords, Blocks
<1>4. TypeOK'
  <2>1. count' \in [Users -> 0..MaxChunks]
    BY <1>1, BusAssumption DEF TypeOK, ReadCount
  <2>2. pc' \in [Users -> States] /\ i' \in [Users -> Nat]
    <3>1. 0 \in Nat
      OBVIOUS
    <3>2. QED  BY ZenonT(60), <1>1, <3>1 DEF TypeOK, ReadCount, States
  <2>3. QED  BY ZenonT(60), <1>1, <1>3, <2>1, <2>2 DEF TypeOK, ReadCount
<1>5. ExactGrant'
  BY <1>1 DEF ExactGrant, ReadCount, TypeOK, searchVars
<1>6. ASSUME NEW v \in Users PROVE LockInv(v)'
  <2>1. LockInv(v)
    BY SMTT(60), <1>1
  <2>2. CASE v # u
    BY <1>1, <2>1, <2>2 DEF LockInv, ReadCount, TypeOK
  <2>3. CASE v = u
    <3>1. count'[u] = chunkCount /\ chunkCount \in Nat /\ MaxChunks \in Nat
      BY SMTT(60), <1>1, BusAssumption DEF ReadCount, TypeOK
    <3>2. CASE chunkCount >= MaxChunks
      BY SMTT(60), <1>1, <2>1, <2>3, <3>1, <3>2 DEF LockInv, ReadCount, TypeOK
    <3>3. CASE chunkCount < MaxChunks
      BY SMTT(60), <1>1, <2>1, <2>3, <3>1, <3>3 DEF LockInv, ReadCount, TypeOK
    <3>4. QED  BY SMTT(60), <3>1, <3>2, <3>3
  <2>4. QED  BY <2>2, <2>3
<1>7. QED  BY <1>1, <1>2, <1>4, <1>5, <1>6, FrameBlocks DEF IInv

(* A user that finds the count changed appends nothing. *)
LEMMA StepSkipAppend ==
    ASSUME IInv, NEW u \in Users, SkipAppend(u)
    PROVE  IInv'
<1>1. TypeOK /\ NoSharedBlock /\ BitmapExact /\ ExactGrant /\ \A v \in Users : LockInv(v)
  BY DEF IInv
<1>2. UNCHANGED blockVars
  BY SMTT(60) DEF SkipAppend, blockVars, searchVars
<1>3. numWords' = numWords /\ Blocks' = Blocks
  BY <1>2 DEF blockVars, numWords, Blocks
<1>4. TypeOK'
  <2>1. 0 \in 0..MaxChunks
    BY BusAssumption
  <2>2. QED  BY ZenonT(60), <1>1, <1>3, <2>1 DEF TypeOK, SkipAppend, States, searchVars
<1>5. ExactGrant'
  BY <1>1 DEF ExactGrant, SkipAppend, TypeOK, searchVars
<1>6. ASSUME NEW v \in Users PROVE LockInv(v)'
  BY ZenonT(30), <1>1 DEF LockInv, SkipAppend, TypeOK, searchVars
<1>7. QED  BY <1>1, <1>2, <1>4, <1>5, <1>6, FrameBlocks DEF IInv

(* A user that holds tryAppendChunkMux has a current count. *)
LEMMA StepLockAppend ==
    ASSUME IInv, NEW u \in Users, LockAppend(u)
    PROVE  IInv'
<1>1. TypeOK /\ NoSharedBlock /\ BitmapExact /\ ExactGrant /\ \A v \in Users : LockInv(v)
  BY DEF IInv
<1>2. UNCHANGED blockVars
  BY SMTT(60) DEF LockAppend, blockVars, searchVars
<1>3. numWords' = numWords /\ Blocks' = Blocks
  BY <1>2 DEF blockVars, numWords, Blocks
<1>4. TypeOK'
  BY SMTT(60), <1>1, <1>3, BusAssumption DEF TypeOK, LockAppend, States, searchVars
<1>5. ExactGrant'
  BY <1>1 DEF ExactGrant, LockAppend, TypeOK, searchVars
<1>6. ASSUME NEW v \in Users PROVE LockInv(v)'
  BY ZenonT(30), <1>1, BusAssumption DEF LockInv, LockAppend, TypeOK, searchVars
<1>7. QED  BY <1>1, <1>2, <1>4, <1>5, <1>6, FrameBlocks DEF IInv

(* A failed NewChunk changes no block. *)
LEMMA StepAppendFails ==
    ASSUME IInv, NEW u \in Users, AppendFails(u)
    PROVE  IInv'
<1>1. TypeOK /\ NoSharedBlock /\ BitmapExact /\ ExactGrant /\ \A v \in Users : LockInv(v)
  BY DEF IInv
<1>2. UNCHANGED blockVars
  BY DEF AppendFails, blockVars, searchVars
<1>3. numWords' = numWords /\ Blocks' = Blocks
  BY <1>2 DEF blockVars, numWords, Blocks
<1>4. TypeOK'
  BY ZenonT(60), <1>1, <1>3, BusAssumption DEF TypeOK, AppendFails, States, searchVars
<1>5. ExactGrant'
  BY <1>1 DEF ExactGrant, AppendFails, TypeOK, searchVars
<1>6. ASSUME NEW v \in Users PROVE LockInv(v)'
  BY ZenonT(30), <1>1 DEF LockInv, AppendFails, TypeOK, searchVars
<1>7. QED  BY <1>1, <1>2, <1>4, <1>5, <1>6, FrameBlocks DEF IInv

(* A failed call of AllocBlocks returns with no blocks. *)
LEMMA StepReturnError ==
    ASSUME IInv, NEW u \in Users, ReturnError(u)
    PROVE  IInv'
<1>1. TypeOK /\ NoSharedBlock /\ BitmapExact /\ ExactGrant /\ \A v \in Users : LockInv(v)
  BY DEF IInv
<1>2. UNCHANGED blockVars
  BY DEF ReturnError, blockVars, searchVars
<1>3. numWords' = numWords /\ Blocks' = Blocks
  BY <1>2 DEF blockVars, numWords, Blocks
<1>4. TypeOK'
  <2>1. want' \in [Users -> Nat] /\ remaining' \in [Users -> Nat]
    BY ZenonT(60), <1>1 DEF TypeOK, ReturnError
  <2>2. count' \in [Users -> 0..MaxChunks]
    BY SMTT(60), <1>1, BusAssumption DEF TypeOK, ReturnError
  <2>3. pc' \in [Users -> States]
    BY SMTT(60), <1>1 DEF TypeOK, ReturnError, States
  <2>4. QED  BY ZenonT(30), <1>1, <1>3, <2>1, <2>2, <2>3 DEF TypeOK, ReturnError, searchVars
<1>5. ExactGrant'
  BY <1>1 DEF ExactGrant, ReturnError, TypeOK, searchVars
<1>6. ASSUME NEW v \in Users PROVE LockInv(v)'
  BY ZenonT(30), <1>1 DEF LockInv, ReturnError, TypeOK, searchVars
<1>7. QED  BY <1>1, <1>2, <1>4, <1>5, <1>6, FrameBlocks DEF IInv

(* FreeStripe starts with the blocks of the stripe. *)
LEMMA StepFreeStripe ==
    ASSUME IInv, NEW u \in Users, FreeStripe(u)
    PROVE  IInv'
<1>1. TypeOK /\ NoSharedBlock /\ BitmapExact /\ ExactGrant /\ \A v \in Users : LockInv(v)
  BY DEF IInv
<1>2. UNCHANGED blockVars
  BY ZenonT(30) DEF FreeStripe, blockVars, searchVars
<1>3. numWords' = numWords /\ Blocks' = Blocks
  BY <1>2 DEF blockVars, numWords, Blocks
<1>4. TypeOK'
  BY ZenonT(60), <1>1, <1>3, BusAssumption DEF TypeOK, FreeStripe, States, searchVars
<1>5. ExactGrant'
  BY <1>1 DEF ExactGrant, FreeStripe, TypeOK, searchVars
<1>6. ASSUME NEW v \in Users PROVE LockInv(v)'
  BY ZenonT(30), <1>1 DEF LockInv, FreeStripe, TypeOK, searchVars
<1>7. QED  BY <1>1, <1>2, <1>4, <1>5, <1>6, FrameBlocks DEF IInv

=============================================================================
