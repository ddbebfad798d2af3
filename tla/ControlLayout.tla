--------------------------- MODULE ControlLayout ---------------------------
(***************************************************************************)
(* Where the words of the control region lie, and how values are packed    *)
(* into them, with the numbers of layout.go and layout.rs.  Hub and nodes  *)
(* of both languages reach the queues and the registry with this           *)
(* arithmetic only, so a queue of modules MpscQueue and Handoff and a slot *)
(* of NodeLifecycle are memory of their own only if no two words overlap.  *)
(*                                                                         *)
(* A word is [off, width], in bytes from the start of the control stripe.  *)
(* Offsets are uint32 or wider in the code; a slot ID is a uint32.         *)
(***************************************************************************)
EXTENDS Integers, TLAPS

W16 == 65536
W32 == 4294967296

BlockSize == 4096
BlocksPerChunk == 1024
MaxNodes == 64
QueueSize == 510
MaxTotalSlots == 4096
ControlBlocks == 256        \* ControlStripeSize in blocks
StripeLimitBlocks == 512    \* StripeDataSizeLimit in blocks

OFF_RESP_QUEUE == 4096
RESP_QUEUE_SIZE == 4096
OFF_STRIPE_REGISTRY == 524288

Q_OFF_HEAD == 0
Q_OFF_TAIL == 4
Q_OFF_ENTRIES == 16
Q_READY_BIT == 2147483648

STRIPE_ENTRY_SIZE == 16
STRIPE_OFF_STATUS == 0
STRIPE_OFF_HEADER == 4
STRIPE_OFF_OWNER == 8

HEADER_SEQ_START_OFF == 8

(* Node 0 is the hub: its request queue is the response queue. *)
GetNodeReqQueueOffset(nodeID) == OFF_RESP_QUEUE + nodeID * RESP_QUEUE_SIZE

(* slotID - 1 wraps around in a uint32. *)
GetStripeEntryOffset(slotID) ==
    OFF_STRIPE_REGISTRY + ((slotID - 1) % W32) * STRIPE_ENTRY_SIZE

(* Rust subtracts in a usize. *)
get_stripe_entry_offset(slotID) == OFF_STRIPE_REGISTRY + (slotID - 1) * STRIPE_ENTRY_SIZE

(* Stripe.GetPointer of the control stripe: a block and an offset in it,   *)
(* or nil, through which readU32 gives 0, writeU32 does nothing and casU32 *)
(* fails.                                                                  *)
Nil == <<-1, -1>>

GetPointer(offset) ==
    IF offset \div BlockSize >= ControlBlocks THEN Nil
    ELSE <<offset \div BlockSize, offset % BlockSize>>

(* The words of the control region. *)
HeadWord(n) == [off |-> GetNodeReqQueueOffset(n) + Q_OFF_HEAD, width |-> 4]
TailWord(n) == [off |-> GetNodeReqQueueOffset(n) + Q_OFF_TAIL, width |-> 4]
EntryWord(n, pos) ==
    [off |-> GetNodeReqQueueOffset(n) + Q_OFF_ENTRIES + (pos % QueueSize) * 8, width |-> 8]
StatusWord(s) == [off |-> GetStripeEntryOffset(s) + STRIPE_OFF_STATUS, width |-> 4]
HeaderWord(s) == [off |-> GetStripeEntryOffset(s) + STRIPE_OFF_HEADER, width |-> 4]
OwnerWord(s) == [off |-> GetStripeEntryOffset(s) + STRIPE_OFF_OWNER, width |-> 4]

Nodes == {n \in Nat : n < MaxNodes}
Slots == {s \in Nat : 1 <= s /\ s <= MaxTotalSlots}

QueueWords(n) == {HeadWord(n), TailWord(n)} \cup {EntryWord(n, pos) : pos \in Nat}
SlotWords(s) == {StatusWord(s), HeaderWord(s), OwnerWord(s)}

Apart(v, w) == v.off + v.width <= w.off \/ w.off + w.width <= v.off

(* Packing. *)
Int16 == {x \in Int : -32768 <= x /\ x <= 32767}
Uint32 == {x \in Nat : x < W32}
Uint16(x) == x % W16
AsInt16(u) == IF u >= 32768 THEN u - W16 ELSE u

(* SetStripe and GetStripeHeader. *)
SetStripeHeader(cid, off) == Uint16(cid) * W16 + Uint16(off)
GetStripeHeader(val) == <<AsInt16(val \div W16), AsInt16(val % W16)>>

(* An entry of a queue: what Push stores and what Pop takes apart. *)
PushEntry(slotID, cmd) == (cmd + Q_READY_BIT) * W32 + slotID
EntryReady(packed) == packed \div W32 >= Q_READY_BIT
PopEntry(packed) == <<packed % W32, (packed \div W32) % Q_READY_BIT>>

(* Global block numbers of the bus; chunk number i has the ID ^i. *)
GetBlockAddress(chunkID, blockIdx) == (-chunkID - 1) * BlocksPerChunk + blockIdx
ParseBlockAddress(gid) == <<-(gid \div BlocksPerChunk) - 1, gid % BlocksPerChunk>>

(* The check in UpdateStripeHeader: n entries of the sequence fit. *)
HeaderHolds(n) == HEADER_SEQ_START_OFF + 2 * n <= BlockSize
-----------------------------------------------------------------------------
(* A word of a queue lies in the block of the queue. *)
LEMMA QueueWordPlace ==
    ASSUME NEW n \in Nodes, NEW w \in QueueWords(n)
    PROVE  /\ w.off \in Nat /\ w.width \in {4, 8} /\ w.off % w.width = 0
           /\ BlockSize * (n + 1) <= w.off
           /\ w.off + w.width <= BlockSize * (n + 2)
<1> USE DEF GetNodeReqQueueOffset, BlockSize, OFF_RESP_QUEUE, RESP_QUEUE_SIZE, Nodes, MaxNodes
<1>1. CASE w = HeadWord(n)
  BY SMTT(30), <1>1 DEF HeadWord, Q_OFF_HEAD
<1>2. CASE w = TailWord(n)
  BY SMTT(30), <1>2 DEF TailWord, Q_OFF_TAIL
<1>3. ASSUME NEW pos \in Nat, w = EntryWord(n, pos)
      PROVE  /\ w.off \in Nat /\ w.width \in {4, 8} /\ w.off % w.width = 0
             /\ BlockSize * (n + 1) <= w.off
             /\ w.off + w.width <= BlockSize * (n + 2)
  <2> DEFINE i == pos % QueueSize
  <2>2. i \in Nat /\ i <= 509
    BY SMTT(30) DEF QueueSize
  <2>3. w = [off |-> 4096 + n * 4096 + 16 + i * 8, width |-> 8]
    BY SMTT(30), <1>3 DEF EntryWord, Q_OFF_ENTRIES
  <2> HIDE DEF i
  <2> QED BY SMTT(30), <2>2, <2>3
<1> QED BY SMTT(30), <1>1, <1>2, <1>3 DEF QueueWords

(* A word of a slot lies in the 16 bytes of the slot. *)
LEMMA SlotWordPlace ==
    ASSUME NEW s \in Slots, NEW w \in SlotWords(s)
    PROVE  /\ w.off \in Nat /\ w.width = 4 /\ w.off % 4 = 0
           /\ OFF_STRIPE_REGISTRY + 16 * (s - 1) <= w.off
           /\ w.off + w.width <= OFF_STRIPE_REGISTRY + 16 * s
<1>1. (s - 1) % W32 = s - 1
  BY SMTT(30) DEF Slots, MaxTotalSlots, W32
<1>2. GetStripeEntryOffset(s) = OFF_STRIPE_REGISTRY + (s - 1) * 16
  BY SMTT(30), <1>1 DEF GetStripeEntryOffset, STRIPE_ENTRY_SIZE
<1> USE <1>2 DEF Slots, MaxTotalSlots, OFF_STRIPE_REGISTRY
<1>3. CASE w = StatusWord(s)
  BY SMTT(30), <1>3 DEF StatusWord, STRIPE_OFF_STATUS
<1>4. CASE w = HeaderWord(s)
  BY SMTT(30), <1>4 DEF HeaderWord, STRIPE_OFF_HEADER
<1>5. CASE w = OwnerWord(s)
  BY SMTT(30), <1>5 DEF OwnerWord, STRIPE_OFF_OWNER
<1> QED BY SMTT(30), <1>3, <1>4, <1>5 DEF SlotWords

(* Queues and slots share no byte with each other: a node that writes its  *)
(* request queue, or a connection its slot, leaves all the others alone.   *)
THEOREM OwnersApart ==
    /\ \A n, k \in Nodes : n # k =>
          \A v \in QueueWords(n), w \in QueueWords(k) : Apart(v, w)
    /\ \A n \in Nodes, s \in Slots :
          \A v \in QueueWords(n), w \in SlotWords(s) : Apart(v, w)
    /\ \A s, t \in Slots : s # t =>
          \A v \in SlotWords(s), w \in SlotWords(t) : Apart(v, w)
<1>1. ASSUME NEW n \in Nodes, NEW k \in Nodes, n # k,
             NEW v \in QueueWords(n), NEW w \in QueueWords(k)
      PROVE  Apart(v, w)
  <2>1. n \in Nat /\ n <= 63 /\ k \in Nat /\ k <= 63
    BY SMTT(30) DEF Nodes, MaxNodes
  <2>2. /\ v.off \in Nat /\ v.width \in {4, 8}
        /\ 4096 * (n + 1) <= v.off /\ v.off + v.width <= 4096 * (n + 2)
    BY SMTT(30), QueueWordPlace DEF BlockSize
  <2>3. /\ w.off \in Nat /\ w.width \in {4, 8}
        /\ 4096 * (k + 1) <= w.off /\ w.off + w.width <= 4096 * (k + 2)
    BY SMTT(30), QueueWordPlace DEF BlockSize
  <2> QED BY SMTT(30), <1>1, <2>1, <2>2, <2>3 DEF Apart
<1>2. ASSUME NEW n \in Nodes, NEW s \in Slots,
             NEW v \in QueueWords(n), NEW w \in SlotWords(s)
      PROVE  Apart(v, w)
  <2>1. n \in Nat /\ n <= 63 /\ s \in Nat /\ 1 <= s
    BY SMTT(30) DEF Nodes, MaxNodes, Slots, MaxTotalSlots
  <2>2. v.off \in Nat /\ v.width \in {4, 8} /\ v.off + v.width <= 4096 * (n + 2)
    BY SMTT(30), QueueWordPlace DEF BlockSize
  <2>3. w.off \in Nat /\ 524288 + 16 * (s - 1) <= w.off
    BY SMTT(30), SlotWordPlace DEF OFF_STRIPE_REGISTRY
  <2>4. v.off + v.width <= w.off
    BY SMTT(30), <2>1, <2>2, <2>3
  <2> QED BY SMTT(30), <2>4 DEF Apart
<1>3. ASSUME NEW s \in Slots, NEW t \in Slots, s # t,
             NEW v \in SlotWords(s), NEW w \in SlotWords(t)
      PROVE  Apart(v, w)
  <2>1. s \in Nat /\ t \in Nat
    BY SMTT(30) DEF Slots, MaxTotalSlots
  <2>2. /\ v.off \in Nat /\ v.width = 4
        /\ 524288 + 16 * (s - 1) <= v.off /\ v.off + v.width <= 524288 + 16 * s
    BY SMTT(30), SlotWordPlace DEF OFF_STRIPE_REGISTRY
  <2>3. /\ w.off \in Nat /\ w.width = 4
        /\ 524288 + 16 * (t - 1) <= w.off /\ w.off + w.width <= 524288 + 16 * t
    BY SMTT(30), SlotWordPlace DEF OFF_STRIPE_REGISTRY
  <2> QED BY SMTT(30), <1>3, <2>1, <2>2, <2>3 DEF Apart
<1> QED BY SMTT(30), <1>1, <1>2, <1>3

(* In one queue the counters and the entries do not overlap, and positions *)
(* of a queue share an entry only if they are a multiple of QueueSize      *)
(* apart: the producers of fewer than QueueSize positions never meet.      *)
THEOREM QueueWordsApart ==
    \A n \in Nodes, p, q \in Nat :
      /\ Apart(HeadWord(n), TailWord(n))
      /\ Apart(HeadWord(n), EntryWord(n, p)) /\ Apart(TailWord(n), EntryWord(n, p))
      /\ p % QueueSize # q % QueueSize => Apart(EntryWord(n, p), EntryWord(n, q))
<1> SUFFICES ASSUME NEW n \in Nodes, NEW p \in Nat, NEW q \in Nat
             PROVE  /\ Apart(HeadWord(n), TailWord(n))
                    /\ Apart(HeadWord(n), EntryWord(n, p))
                    /\ Apart(TailWord(n), EntryWord(n, p))
                    /\ p % QueueSize # q % QueueSize =>
                          Apart(EntryWord(n, p), EntryWord(n, q))
  BY SMTT(30)
<1> DEFINE base == GetNodeReqQueueOffset(n)
           i == p % QueueSize
           j == q % QueueSize
<1>1. base \in Nat
  BY SMTT(30) DEF GetNodeReqQueueOffset, OFF_RESP_QUEUE, RESP_QUEUE_SIZE, Nodes, MaxNodes
<1>2. i \in Nat /\ i <= 509 /\ j \in Nat /\ j <= 509
  BY SMTT(30) DEF QueueSize
<1>3. /\ HeadWord(n) = [off |-> base + 0, width |-> 4]
      /\ TailWord(n) = [off |-> base + 4, width |-> 4]
      /\ EntryWord(n, p) = [off |-> base + 16 + i * 8, width |-> 8]
      /\ EntryWord(n, q) = [off |-> base + 16 + j * 8, width |-> 8]
  BY SMTT(30) DEF HeadWord, TailWord, EntryWord, Q_OFF_HEAD, Q_OFF_TAIL, Q_OFF_ENTRIES
<1> HIDE DEF base, i, j
<1>4. i # j => Apart(EntryWord(n, p), EntryWord(n, q))
  BY SMTT(30), <1>1, <1>2, <1>3 DEF Apart
<1>5. /\ Apart(HeadWord(n), TailWord(n))
      /\ Apart(HeadWord(n), EntryWord(n, p)) /\ Apart(TailWord(n), EntryWord(n, p))
  BY SMTT(30), <1>1, <1>2, <1>3 DEF Apart
<1> QED BY SMTT(30), <1>4, <1>5 DEF i, j

(* What GetPointer assumes (stripe.go:32, "the requested data does not     *)
(* cross block boundaries") is so for every word of the control region,    *)
(* and none of them lies behind the control stripe.                        *)
THEOREM WordsInOneBlock ==
    /\ \A n \in Nodes : \A w \in QueueWords(n) :
          GetPointer(w.off) # Nil /\ (w.off % BlockSize) + w.width <= BlockSize
    /\ \A s \in Slots : \A w \in SlotWords(s) :
          GetPointer(w.off) # Nil /\ (w.off % BlockSize) + w.width <= BlockSize
<1>1. ASSUME NEW x \in Nat, x \div 4096 < 256
      PROVE  GetPointer(x) # Nil
  BY SMTT(30), <1>1 DEF GetPointer, Nil, BlockSize, ControlBlocks
<1>2. ASSUME NEW n \in Nodes, NEW w \in QueueWords(n)
      PROVE  GetPointer(w.off) # Nil /\ (w.off % BlockSize) + w.width <= BlockSize
  <2>1. n \in Nat /\ n <= 63
    BY SMTT(30) DEF Nodes, MaxNodes
  <2>2. /\ w.off \in Nat /\ w.width \in {4, 8}
        /\ 4096 * (n + 1) <= w.off /\ w.off + w.width <= 4096 * (n + 2)
    BY SMTT(30), QueueWordPlace DEF BlockSize
  <2>3. w.off \div 4096 = n + 1 /\ w.off % 4096 = w.off - 4096 * (n + 1)
    BY SMTT(30), <2>1, <2>2
  <2> QED BY SMTT(30), <1>1, <2>1, <2>2, <2>3 DEF BlockSize
<1>3. ASSUME NEW s \in Slots, NEW w \in SlotWords(s)
      PROVE  GetPointer(w.off) # Nil /\ (w.off % BlockSize) + w.width <= BlockSize
  <2>1. s \in Nat /\ s <= 4096
    BY SMTT(30) DEF Slots, MaxTotalSlots
  <2>2. /\ w.off \in Nat /\ w.width = 4 /\ w.off % 4 = 0
        /\ w.off + w.width <= 524288 + 16 * s
    BY SMTT(30), SlotWordPlace DEF OFF_STRIPE_REGISTRY
  <2>3. w.off \div 4096 < 256
    BY SMTT(30), <2>1, <2>2
  <2>4. (w.off % 4096) + 4 <= 4096
    BY SMTT(30), <2>2
  <2> QED BY SMTT(30), <1>1, <2>2, <2>3, <2>4 DEF BlockSize
<1> QED BY SMTT(30), <1>2, <1>3

(* Slot 0 is no memory of the control stripe: Init and CleanupResources,   *)
(* whose loops begin at 0, and AllocSlot's failure value 0 touch nothing.  *)
THEOREM SlotZeroNowhere ==
    \A s \in Nat : s = 0 => /\ GetPointer(StatusWord(s).off) = Nil
                           /\ GetPointer(HeaderWord(s).off) = Nil
                           /\ GetPointer(OwnerWord(s).off) = Nil
<1> SUFFICES ASSUME NEW s \in Nat, s = 0
             PROVE  /\ GetPointer(StatusWord(s).off) = Nil
                    /\ GetPointer(HeaderWord(s).off) = Nil
                    /\ GetPointer(OwnerWord(s).off) = Nil
  OBVIOUS
<1> DEFINE d == s - 1
           q == d \div W32
           r == d % W32
<1>1. d \in Int /\ d + 1 = 0
  BY SMTT(30)
<1> HIDE DEF d
<1>2. q \in Int /\ r \in Int /\ 0 <= r /\ r < 4294967296
  BY SMTT(30), <1>1 DEF W32
<1>3. d = 4294967296 * q + r
  BY SMTT(30), <1>1 DEF W32
<1> HIDE DEF q, r
<1>4. r = 4294967295
  BY SMTT(30), <1>1, <1>2, <1>3
<1>5. GetStripeEntryOffset(s) = 524288 + r * 16
  BY SMTT(30) DEF GetStripeEntryOffset, OFF_STRIPE_REGISTRY, STRIPE_ENTRY_SIZE, d, r
<1>6. \A x \in Nat : x >= 1048576 => GetPointer(x) = Nil
  BY SMTT(30) DEF GetPointer, BlockSize, ControlBlocks
<1> QED
  BY SMTT(30), <1>4, <1>5, <1>6 DEF StatusWord, HeaderWord, OwnerWord, STRIPE_OFF_STATUS,
                                    STRIPE_OFF_HEADER, STRIPE_OFF_OWNER

(* Go and Rust find the same registry entry for every slot. *)
THEOREM SameRegistry ==
    \A s \in Slots : GetStripeEntryOffset(s) = get_stripe_entry_offset(s)
<1>1. \A s \in Slots : (s - 1) % W32 = s - 1
  BY SMTT(30) DEF Slots, MaxTotalSlots, W32
<1> QED BY SMTT(30), <1>1 DEF GetStripeEntryOffset, get_stripe_entry_offset

(* Chunk ID and block index of a stripe's header block survive the packing *)
(* of SetStripe and GetStripeHeader, negative chunk IDs included.          *)
THEOREM HeaderRoundTrip ==
    \A cid, off \in Int16 : GetStripeHeader(SetStripeHeader(cid, off)) = <<cid, off>>
<1> SUFFICES ASSUME NEW cid \in Int16, NEW off \in Int16
             PROVE  GetStripeHeader(SetStripeHeader(cid, off)) = <<cid, off>>
  BY SMTT(30)
<1> DEFINE a == Uint16(cid)
           b == Uint16(off)
<1>1. /\ a \in Nat /\ a < 65536 /\ AsInt16(a) = cid
      /\ b \in Nat /\ b < 65536 /\ AsInt16(b) = off
  BY SMTT(30) DEF Int16, Uint16, AsInt16, W16
<1> HIDE DEF a, b
<1>2. (a * 65536 + b) \div 65536 = a /\ (a * 65536 + b) % 65536 = b
  BY SMTT(30), <1>1
<1>3. SetStripeHeader(cid, off) = a * 65536 + b
  BY SMTT(30) DEF SetStripeHeader, a, b, W16
<1> QED BY SMTT(30), <1>1, <1>2, <1>3 DEF GetStripeHeader, W16

(* Pop finds in an entry the slot and the command that Push put there, and *)
(* sees it as ready; a cleared entry is not ready.                         *)
THEOREM EntryRoundTrip ==
    /\ \A slotID \in Uint32, cmd \in Nat : cmd < Q_READY_BIT =>
          /\ EntryReady(PushEntry(slotID, cmd))
          /\ PopEntry(PushEntry(slotID, cmd)) = <<slotID, cmd>>
    /\ ~EntryReady(0)
<1>1. ASSUME NEW slotID \in Uint32, NEW cmd \in Nat, cmd < Q_READY_BIT
      PROVE  /\ EntryReady(PushEntry(slotID, cmd))
             /\ PopEntry(PushEntry(slotID, cmd)) = <<slotID, cmd>>
  <2> DEFINE c == cmd + 2147483648
             e == PushEntry(slotID, cmd)
  <2>1. c \in Nat /\ c >= 2147483648 /\ c % 2147483648 = cmd
    BY SMTT(30), <1>1 DEF Q_READY_BIT
  <2>2. slotID \in Nat /\ slotID < 4294967296
    BY SMTT(30) DEF Uint32, W32
  <2>3. e = c * 4294967296 + slotID
    BY SMTT(30) DEF PushEntry, W32, Q_READY_BIT
  <2> HIDE DEF c, e
  <2>4. e \in Nat /\ e \div 4294967296 = c /\ e % 4294967296 = slotID
    BY SMTT(30), <2>1, <2>2, <2>3
  <2>5. EntryReady(e)
    BY SMTT(30), <2>1, <2>4 DEF EntryReady, W32, Q_READY_BIT
  <2>6. PopEntry(e) = <<slotID, cmd>>
    BY SMTT(30), <2>1, <2>4 DEF PopEntry, W32, Q_READY_BIT
  <2> QED BY SMTT(30), <2>5, <2>6 DEF e
<1>2. ~EntryReady(0)
  <2>1. 0 \div 4294967296 = 0
    BY SMTT(30)
  <2> QED BY SMTT(30), <2>1 DEF EntryReady, W32, Q_READY_BIT
<1> QED BY SMTT(30), <1>1, <1>2

(* A block number of the bus names one block of one chunk. *)
THEOREM AddressRoundTrip ==
    \A cid \in Int16, idx \in Nat :
      cid < 0 /\ idx < BlocksPerChunk => ParseBlockAddress(GetBlockAddress(cid, idx)) = <<cid, idx>>
<1> SUFFICES ASSUME NEW cid \in Int16, NEW idx \in Nat, cid < 0, idx < BlocksPerChunk
             PROVE  ParseBlockAddress(GetBlockAddress(cid, idx)) = <<cid, idx>>
  BY SMTT(30)
<1> DEFINE i == -cid - 1
<1>1. i \in Nat /\ idx < 1024 /\ cid = -i - 1
  BY SMTT(30) DEF Int16, BlocksPerChunk
<1> HIDE DEF i
<1>2. (i * 1024 + idx) \div 1024 = i /\ (i * 1024 + idx) % 1024 = idx
  BY SMTT(30), <1>1
<1>3. GetBlockAddress(cid, idx) = i * 1024 + idx
  BY SMTT(30) DEF GetBlockAddress, BlocksPerChunk, i
<1> QED BY SMTT(30), <1>1, <1>2, <1>3 DEF ParseBlockAddress, BlocksPerChunk

(* The sequence of a stripe that keeps the limit of the nodes, with its    *)
(* header block and the block that an expansion by two may add, fits into  *)
(* the header even when every block is in another chunk than the one       *)
(* before it: it has at most two entries for a block.                      *)
THEOREM LimitedStripeFits ==
    \A cnt, n \in Nat :
      cnt <= StripeLimitBlocks + 2 /\ n <= 2 * cnt => HeaderHolds(n)
BY SMTT(30) DEF StripeLimitBlocks, HeaderHolds, HEADER_SEQ_START_OFF, BlockSize
=============================================================================
