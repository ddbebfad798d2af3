------------------------------ MODULE BlockBus ------------------------------
(***************************************************************************)
(* The hub's block allocator (shm.Bus): a bitmap over the blocks of all    *)
(* chunks, in words that AllocBlocks and FreeBlock change by compare-and-  *)
(* swap while they hold the bus's read lock, and tryAppendChunk, which     *)
(* adds a chunk under the write lock when a search finds too few blocks.   *)
(*                                                                         *)
(* A user is a goroutine of the hub together with the stripe it works on.  *)
(* A block is a pair <<word, bit>>.  FreeBlock is one step: it retries its *)
(* compare-and-swap until it clears exactly its own bit.  The write lock   *)
(* is held for one step, AppendChunk, that needs every reader to be gone.  *)
(* A local variable is reset once the code no longer reads it.             *)
(***************************************************************************)
EXTENDS Integers, FiniteSets

CONSTANTS Users,         \* goroutines that allocate and free blocks
          NoUser,        \* nobody holds tryAppendChunkMux
          WordBits,      \* bits in a word of the bitmap (32)
          WordsPerChunk, \* words for one chunk (1024 / 32)
          MaxChunks,     \* the most chunks a bus has (64)
          Counts,        \* block counts that users ask for
          MaxCalls       \* bound: calls of AllocBlocks by one user

ASSUME BusAssumption ==
    /\ NoUser \notin Users
    /\ WordBits \in Nat \ {0} /\ WordsPerChunk \in Nat \ {0} /\ MaxChunks \in Nat \ {0}
    /\ Counts \subseteq Nat \ {0}
    /\ MaxCalls \in Nat

VARIABLES
    bitmap,        \* word -> the bits that are set
    chunkCount,    \* chunks of the bus, read without a lock
    lastSearchPos, \* where the next search starts
    readers,       \* the users that hold the read lock over a search
    mux,           \* the holder of tryAppendChunkMux
    pc,            \* where each user is
    want,          \* the count of its call
    remaining,     \* blocks it has still to find
    allocated,     \* blocks this call has taken
    start, i,      \* first word of its search, words passed
    old,           \* the word it loaded
    count,         \* the chunk count it read in tryAppendChunk
    stripe,        \* the blocks of its stripe: results of calls that returned
    calls          \* calls so far

searchVars == <<start, i, old>>
vars == <<bitmap, chunkCount, lastSearchPos, readers, mux, pc, want, remaining, allocated,
          searchVars, count, stripe, calls>>

Bits == 0..WordBits-1
numWords == chunkCount * WordsPerChunk
States == {"idle", "rlock", "load", "cas", "count", "mux", "append", "rollback", "free"}

Init ==
    /\ bitmap = [w \in 0..WordsPerChunk-1 |-> {}]
    /\ chunkCount = 1
    /\ lastSearchPos = 0
    /\ readers = {} /\ mux = NoUser
    /\ pc = [u \in Users |-> "idle"]
    /\ want = [u \in Users |-> 0]
    /\ remaining = [u \in Users |-> 0]
    /\ allocated = [u \in Users |-> {}]
    /\ start = [u \in Users |-> 0]
    /\ i = [u \in Users |-> 0]
    /\ old = [u \in Users |-> {}]
    /\ count = [u \in Users |-> 0]
    /\ stripe = [u \in Users |-> {}]
    /\ calls = [u \in Users |-> 0]
-----------------------------------------------------------------------------
(* AllocBlocks *)

AllocCall(u, n) ==
    /\ pc[u] = "idle"
    /\ calls[u] < MaxCalls
    /\ calls' = [calls EXCEPT ![u] = @ + 1]
    /\ want' = [want EXCEPT ![u] = n]
    /\ remaining' = [remaining EXCEPT ![u] = n]
    /\ pc' = [pc EXCEPT ![u] = "rlock"]
    /\ UNCHANGED <<bitmap, chunkCount, lastSearchPos, readers, mux, allocated, searchVars,
                   count, stripe>>

StartSearch(u) ==
    /\ pc[u] = "rlock"
    /\ readers' = readers \cup {u}
    /\ start' = [start EXCEPT ![u] = lastSearchPos % numWords]
    /\ i' = [i EXCEPT ![u] = 0]
    /\ pc' = [pc EXCEPT ![u] = "load"]
    /\ UNCHANGED <<bitmap, chunkCount, lastSearchPos, mux, want, remaining, allocated, old,
                   count, stripe, calls>>

Word(u) == (start[u] + i[u]) % numWords

LoadWord(u) ==
    /\ pc[u] = "load"
    /\ i[u] < numWords
    /\ bitmap[Word(u)] # Bits
    /\ old' = [old EXCEPT ![u] = bitmap[Word(u)]]
    /\ pc' = [pc EXCEPT ![u] = "cas"]
    /\ UNCHANGED <<bitmap, chunkCount, lastSearchPos, readers, mux, want, remaining,
                   allocated, start, i, count, stripe, calls>>

(* Mutated form of SkipFullWord: the search stays on the word. *)
StayOnFullWord(u) ==
    /\ pc[u] = "load"
    /\ i[u] < numWords
    /\ bitmap[Word(u)] = Bits
    /\ UNCHANGED vars

SkipFullWord(u) ==
    /\ pc[u] = "load"
    /\ i[u] < numWords
    /\ bitmap[Word(u)] = Bits
    /\ i' = [i EXCEPT ![u] = @ + 1]
    /\ UNCHANGED <<bitmap, chunkCount, lastSearchPos, readers, mux, pc, want, remaining,
                   allocated, start, old, count, stripe, calls>>

(* The lowest clear bits of the loaded word, as many as are still needed. *)
foundBits(u) ==
    {b \in Bits \ old[u] : Cardinality({c \in Bits \ old[u] : c < b}) < remaining[u]}

(* The compare-and-swap took the last blocks the call needs: it returns. *)
TakeLast(u) ==
    /\ pc[u] = "cas"
    /\ bitmap[Word(u)] = old[u]
    /\ Cardinality(foundBits(u)) = remaining[u]
    /\ bitmap' = [bitmap EXCEPT ![Word(u)] = @ \cup foundBits(u)]
    /\ stripe' = [stripe EXCEPT ![u] = @ \cup allocated[u] \cup ({Word(u)} \X foundBits(u))]
    /\ allocated' = [allocated EXCEPT ![u] = {}]
    /\ remaining' = [remaining EXCEPT ![u] = 0]
    /\ want' = [want EXCEPT ![u] = 0]
    /\ start' = [start EXCEPT ![u] = 0]
    /\ i' = [i EXCEPT ![u] = 0]
    /\ old' = [old EXCEPT ![u] = {}]
    /\ lastSearchPos' = (Word(u) + 1) % numWords
    /\ readers' = readers \ {u}
    /\ pc' = [pc EXCEPT ![u] = "idle"]
    /\ UNCHANGED <<chunkCount, mux, count, calls>>

(* Mutated form of TakeSome: the word is stored, not compared and swapped. *)
TakeSomeBlindly(u) ==
    /\ pc[u] = "cas"
    /\ Cardinality(foundBits(u)) < remaining[u]
    /\ bitmap' = [bitmap EXCEPT ![Word(u)] = old[u] \cup foundBits(u)]
    /\ allocated' = [allocated EXCEPT ![u] = @ \cup ({Word(u)} \X foundBits(u))]
    /\ remaining' = [remaining EXCEPT ![u] = @ - Cardinality(foundBits(u))]
    /\ i' = [i EXCEPT ![u] = @ + 1]
    /\ old' = [old EXCEPT ![u] = {}]
    /\ pc' = [pc EXCEPT ![u] = "load"]
    /\ UNCHANGED <<chunkCount, lastSearchPos, readers, mux, want, start, count, stripe, calls>>

(* Mutated form of TakeSome: a word counts as one block. *)
TakeSomeCountsOne(u) ==
    /\ pc[u] = "cas"
    /\ bitmap[Word(u)] = old[u]
    /\ Cardinality(foundBits(u)) < remaining[u]
    /\ bitmap' = [bitmap EXCEPT ![Word(u)] = @ \cup foundBits(u)]
    /\ allocated' = [allocated EXCEPT ![u] = @ \cup ({Word(u)} \X foundBits(u))]
    /\ remaining' = [remaining EXCEPT ![u] = @ - 1]
    /\ i' = [i EXCEPT ![u] = @ + 1]
    /\ old' = [old EXCEPT ![u] = {}]
    /\ pc' = [pc EXCEPT ![u] = "load"]
    /\ UNCHANGED <<chunkCount, lastSearchPos, readers, mux, want, start, count, stripe, calls>>

TakeSome(u) ==
    /\ pc[u] = "cas"
    /\ bitmap[Word(u)] = old[u]
    /\ Cardinality(foundBits(u)) < remaining[u]
    /\ bitmap' = [bitmap EXCEPT ![Word(u)] = @ \cup foundBits(u)]
    /\ allocated' = [allocated EXCEPT ![u] = @ \cup ({Word(u)} \X foundBits(u))]
    /\ remaining' = [remaining EXCEPT ![u] = @ - Cardinality(foundBits(u))]
    /\ i' = [i EXCEPT ![u] = @ + 1]
    /\ old' = [old EXCEPT ![u] = {}]
    /\ pc' = [pc EXCEPT ![u] = "load"]
    /\ UNCHANGED <<chunkCount, lastSearchPos, readers, mux, want, start, count, stripe, calls>>

(* The word has changed since it was loaded: load it again. *)
LoseRace(u) ==
    /\ pc[u] = "cas"
    /\ bitmap[Word(u)] # old[u]
    /\ old' = [old EXCEPT ![u] = {}]
    /\ pc' = [pc EXCEPT ![u] = "load"]
    /\ UNCHANGED <<bitmap, chunkCount, lastSearchPos, readers, mux, want, remaining,
                   allocated, start, i, count, stripe, calls>>

EndSearch(u) ==
    /\ pc[u] = "load"
    /\ i[u] = numWords
    /\ readers' = readers \ {u}
    /\ start' = [start EXCEPT ![u] = 0]
    /\ pc' = [pc EXCEPT ![u] = "count"]
    /\ UNCHANGED <<bitmap, chunkCount, lastSearchPos, mux, want, remaining, allocated, i, old,
                   count, stripe, calls>>
-----------------------------------------------------------------------------
(* tryAppendChunk *)

ReadCount(u) ==
    /\ pc[u] = "count"
    /\ count' = [count EXCEPT ![u] = chunkCount]
    /\ i' = [i EXCEPT ![u] = 0]
    /\ pc' = [pc EXCEPT ![u] = IF chunkCount >= MaxChunks THEN "rollback" ELSE "mux"]
    /\ UNCHANGED <<bitmap, chunkCount, lastSearchPos, readers, mux, want, remaining,
                   allocated, start, old, stripe, calls>>

(* Another user appended a chunk meanwhile: search again. *)
SkipAppend(u) ==
    /\ pc[u] = "mux"
    /\ mux = NoUser
    /\ count[u] # chunkCount
    /\ count' = [count EXCEPT ![u] = 0]
    /\ pc' = [pc EXCEPT ![u] = "rlock"]
    /\ UNCHANGED <<bitmap, chunkCount, lastSearchPos, readers, mux, want, remaining,
                   allocated, searchVars, stripe, calls>>

(* Mutated form of LockAppend: the count is not compared again. *)
LockAppendUnchecked(u) ==
    /\ pc[u] = "mux"
    /\ mux = NoUser
    /\ mux' = u
    /\ pc' = [pc EXCEPT ![u] = "append"]
    /\ UNCHANGED <<bitmap, chunkCount, lastSearchPos, readers, want, remaining, allocated,
                   searchVars, count, stripe, calls>>

LockAppend(u) ==
    /\ pc[u] = "mux"
    /\ mux = NoUser
    /\ count[u] = chunkCount
    /\ mux' = u
    /\ pc' = [pc EXCEPT ![u] = "append"]
    /\ UNCHANGED <<bitmap, chunkCount, lastSearchPos, readers, want, remaining, allocated,
                   searchVars, count, stripe, calls>>

AppendChunk(u) ==
    /\ pc[u] = "append"
    /\ readers = {}
    /\ chunkCount' = chunkCount + 1
    /\ bitmap' = [w \in 0..(numWords + WordsPerChunk - 1) |->
                     IF w < numWords THEN bitmap[w] ELSE {}]
    /\ mux' = NoUser
    /\ count' = [count EXCEPT ![u] = 0]
    /\ pc' = [pc EXCEPT ![u] = "rlock"]
    /\ UNCHANGED <<lastSearchPos, readers, want, remaining, allocated, searchVars, stripe,
                   calls>>

(* NewChunk failed: no memory for another chunk. *)
AppendFails(u) ==
    /\ pc[u] = "append"
    /\ mux' = NoUser
    /\ pc' = [pc EXCEPT ![u] = "rollback"]
    /\ UNCHANGED <<bitmap, chunkCount, lastSearchPos, readers, want, remaining, allocated,
                   searchVars, count, stripe, calls>>
-----------------------------------------------------------------------------
(* FreeBlock, from the error path of AllocBlocks and from FreeStripe *)

Cleared(b) == [bitmap EXCEPT ![b[1]] = @ \ {b[2]}]

RollbackBlock(u) ==
    /\ pc[u] = "rollback"
    /\ \E b \in allocated[u] :
          /\ bitmap' = Cleared(b)
          /\ allocated' = [allocated EXCEPT ![u] = @ \ {b}]
    /\ UNCHANGED <<chunkCount, lastSearchPos, readers, mux, pc, want, remaining, searchVars,
                   count, stripe, calls>>

(* Mutated form of ReturnError: the blocks taken so far are not freed. *)
ReturnErrorEarly(u) ==
    /\ pc[u] = "rollback"
    /\ allocated' = [allocated EXCEPT ![u] = {}]
    /\ remaining' = [remaining EXCEPT ![u] = 0]
    /\ want' = [want EXCEPT ![u] = 0]
    /\ count' = [count EXCEPT ![u] = 0]
    /\ pc' = [pc EXCEPT ![u] = "idle"]
    /\ UNCHANGED <<bitmap, chunkCount, lastSearchPos, readers, mux, searchVars, stripe, calls>>

ReturnError(u) ==
    /\ pc[u] = "rollback"
    /\ allocated[u] = {}
    /\ remaining' = [remaining EXCEPT ![u] = 0]
    /\ want' = [want EXCEPT ![u] = 0]
    /\ count' = [count EXCEPT ![u] = 0]
    /\ pc' = [pc EXCEPT ![u] = "idle"]
    /\ UNCHANGED <<bitmap, chunkCount, lastSearchPos, readers, mux, allocated, searchVars,
                   stripe, calls>>

FreeStripe(u) ==
    /\ pc[u] = "idle"
    /\ stripe[u] # {}
    /\ pc' = [pc EXCEPT ![u] = "free"]
    /\ UNCHANGED <<bitmap, chunkCount, lastSearchPos, readers, mux, want, remaining,
                   allocated, searchVars, count, stripe, calls>>

FreeBlock(u) ==
    /\ pc[u] = "free"
    /\ \E b \in stripe[u] :
          /\ bitmap' = Cleared(b)
          /\ stripe' = [stripe EXCEPT ![u] = @ \ {b}]
          /\ pc' = [pc EXCEPT ![u] = IF stripe[u] = {b} THEN "idle" ELSE "free"]
    /\ UNCHANGED <<chunkCount, lastSearchPos, readers, mux, want, remaining, allocated,
                   searchVars, count, calls>>
-----------------------------------------------------------------------------
Step(u) ==
    \/ StartSearch(u) \/ LoadWord(u) \/ SkipFullWord(u) \/ TakeLast(u) \/ TakeSome(u)
    \/ LoseRace(u) \/ EndSearch(u) \/ ReadCount(u) \/ SkipAppend(u) \/ LockAppend(u)
    \/ AppendChunk(u) \/ AppendFails(u) \/ RollbackBlock(u) \/ ReturnError(u) \/ FreeBlock(u)

Next == \E u \in Users : \/ \E n \in Counts : AllocCall(u, n)
                         \/ FreeStripe(u)
                         \/ Step(u)

Spec == Init /\ [][Next]_vars

(* A goroutine inside AllocBlocks or FreeStripe keeps running; the mutexes *)
(* are fair to it because the number of calls is bounded.                  *)
FairSpec == Spec /\ \A u \in Users : WF_vars(Step(u))
-----------------------------------------------------------------------------
Blocks == (0..numWords-1) \X Bits

(* The bitmap, the locks and the calls hold what they may, and the bus     *)
(* never has more than MaxChunks chunks.                                   *)
TypeOK ==
    /\ chunkCount \in 1..MaxChunks
    /\ bitmap \in [0..numWords-1 -> SUBSET Bits]
    /\ lastSearchPos \in Nat
    /\ readers \subseteq Users
    /\ mux \in Users \cup {NoUser}
    /\ pc \in [Users -> States]
    /\ want \in [Users -> Nat] /\ remaining \in [Users -> Nat]
    /\ allocated \in [Users -> SUBSET Blocks]
    /\ start \in [Users -> Nat] /\ i \in [Users -> Nat]
    /\ old \in [Users -> SUBSET Bits]
    /\ count \in [Users -> 0..MaxChunks]
    /\ stripe \in [Users -> SUBSET Blocks]
    /\ calls \in [Users -> 0..MaxCalls]

Holds(u) == allocated[u] \cup stripe[u]

(* No block belongs to two stripes, nor to a stripe and an allocation that *)
(* is still collecting blocks: AllocBlocks hands out a block only once     *)
(* until FreeBlock returns it.                                             *)
NoSharedBlock ==
    \A u \in Users : /\ allocated[u] \cap stripe[u] = {}
                     /\ \A v \in Users \ {u} : Holds(u) \cap Holds(v) = {}

(* The bitmap is exact: a bit is set if and only if some user holds its    *)
(* block, so no path (success, lost race, failed append with rollback,     *)
(* chunk growth, free) leaks a block or frees one in use.                  *)
BitmapExact ==
    \A b \in Blocks : b[2] \in bitmap[b[1]] <=> \E u \in Users : b \in Holds(u)

(* A call that is still collecting has taken exactly want - remaining      *)
(* blocks, so that it returns as many blocks as were asked for.            *)
ExactGrant ==
    \A u \in Users : pc[u] \in {"rlock", "load", "cas", "count", "mux", "append"}
        => Cardinality(allocated[u]) + remaining[u] = want[u]

(* Every call of AllocBlocks and of FreeStripe returns.                    *)
CallsReturn == \A u \in Users : pc[u] # "idle" ~> pc[u] = "idle"
=============================================================================
