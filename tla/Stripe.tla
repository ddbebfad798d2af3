------------------------------- MODULE Stripe -------------------------------
(***************************************************************************)
(* The data side of a stripe, as operators: the block sequence of its      *)
(* header (bus.go, protocol.go), the byte loops of shm.Stripe (ReadAt,     *)
(* WriteAt, View), the searches of shm.Viewer, and what the Rust node does *)
(* in their place (stripe.rs).                                             *)
(*                                                                         *)
(* A block is <<chunk ID, block index>>, and chunk IDs are negative as in  *)
(* the code (^i for chunk number i), so that a sequence of integers can    *)
(* hold both.  m is the memory: m[b][j+1] is byte j of block b.  A stripe  *)
(* v has the fields of shm.Stripe: seq, cnt (BlockCount), blocks and len   *)
(* (DataLen); its first block is the header block.                         *)
(***************************************************************************)
EXTENDS Integers, Sequences, SequencesExt, FiniteSets

CONSTANTS BlockSize,   \* bytes in a block (4096)
          HeaderCap    \* entries of a sequence that fit into a block (2044)

ASSUME BlockSizeAssumption == BlockSize \in Nat \ {0} /\ HeaderCap \in Nat \ {0}

Least(a, b) == IF a < b THEN a ELSE b

(***************************************************************************)
(* Block sequences.                                                        *)
(***************************************************************************)
(* The chunk ID in force at the end of seq; 0 when it holds none. *)
LastChunkID(seq) ==
    FoldLeft(LAMBDA cid, id : IF id < 0 THEN id ELSE cid, 0, seq)

(* Mutated form: the chunk ID is written once, in front of the sequence. *)
AppendBlockNoSwitch(seq, blk) ==
    seq \o (IF seq = <<>> THEN <<blk[1]>> ELSE <<>>) \o <<blk[2]>>

(* A chunk ID is written only where it changes. *)
AppendBlock(seq, blk) ==
    seq \o (IF blk[1] # LastChunkID(seq) THEN <<blk[1]>> ELSE <<>>) \o <<blk[2]>>

AllocStripe(blks) ==
    [seq |-> FoldLeft(AppendBlock, <<>>, blks), cnt |-> Len(blks),
     blocks |-> blks, len |-> 0]

AllocBlocksForStripe(v, blks) ==
    [v EXCEPT !.seq = FoldLeft(AppendBlock, @, blks),
              !.cnt = @ + Len(blks),
              !.blocks = @ \o blks]

(* Mutated form: the last entry that fits is left out. *)
UpdateStripeHeaderShort(v) ==
    [len |-> v.len, cnt |-> v.cnt, n |-> Len(v.seq),
     seq |-> SubSeq(v.seq, 1, Least(Len(v.seq), HeaderCap - 1))]

(* The header block.  The lengths are stored in full, but only so much of  *)
(* the sequence as there is room for.                                      *)
UpdateStripeHeader(v) ==
    [len |-> v.len, cnt |-> v.cnt, n |-> Len(v.seq),
     seq |-> SubSeq(v.seq, 1, Least(Len(v.seq), HeaderCap))]

(* The entries behind the end of the block are decoded as zeros. *)
DecodeHeader(h) == [i \in 1..h.n |-> IF i <= Len(h.seq) THEN h.seq[i] ELSE 0]

(* Rust's; what it reads behind the end of the block is not modelled. *)
refresh_sequence(h) == DecodeHeader(h)

(* The blocks that seq names from its entry number from+1 on.  A chunk ID  *)
(* in front of that entry counts.                                          *)
BlocksFrom(seq, from) ==
    LET step(acc, i) ==
          IF seq[i] < 0 THEN [acc EXCEPT !.cid = seq[i]]
          ELSE IF i <= from THEN acc
          ELSE [acc EXCEPT !.out = Append(@, <<acc.cid, seq[i]>>)]
    IN FoldLeft(step, [cid |-> 0, out |-> <<>>], [i \in 1..Len(seq) |-> i]).out

(* The stripe that processSlot builds from the header. *)
DecodeStripe(h) ==
    [seq |-> DecodeHeader(h), cnt |-> h.cnt, blocks |-> BlocksFrom(DecodeHeader(h), 0),
     len |-> h.len]

(* busConn.refreshStripe: blocks are added only if the count has changed. *)
refreshStripe(v, h) ==
    IF h.cnt # v.cnt
    THEN [seq |-> DecodeHeader(h), cnt |-> h.cnt,
          blocks |-> v.blocks \o BlocksFrom(DecodeHeader(h), Len(v.seq)), len |-> h.len]
    ELSE [v EXCEPT !.len = h.len]

(* nodeConn.OnExpandComplete: BlockCount and DataLen stay as they were. *)
OnExpandComplete(v, h) ==
    [v EXCEPT !.seq = DecodeHeader(h),
              !.blocks = @ \o BlocksFrom(DecodeHeader(h), Len(v.seq))]

(***************************************************************************)
(* Bytes.                                                                  *)
(***************************************************************************)
(* The loop of ReadAt, WriteAt and View: the pieces of blocks that hold n  *)
(* bytes from position off, the header block counted.  It stops early at   *)
(* the end of the blocks.                                                  *)
Pieces(blocks, off, n) ==
    LET piece[o \in Nat, left \in Nat] ==
          LET bIdx == o \div BlockSize
              innerOff == o % BlockSize
              copyLen == Least(BlockSize - innerOff, left)
          IN IF left = 0 \/ bIdx >= Len(blocks) THEN <<>>
             ELSE <<[blk |-> blocks[bIdx + 1], from |-> innerOff, len |-> copyLen]>>
                  \o piece[o + copyLen, left - copyLen]
    IN piece[off, n]

PieceBytes(m, s) == SubSeq(m[s.blk], s.from + 1, s.from + s.len)

PiecesLen(segs) == FoldLeft(LAMBDA n, s : n + s.len, 0, segs)

LoadAll(m, segs) == FlattenSeq([k \in 1..Len(segs) |-> PieceBytes(m, segs[k])])

(* Copies the front of p into the pieces, one after the other. *)
StoreAll(m, segs, p) ==
    LET store(acc, s) ==
          [mem |-> [acc.mem EXCEPT ![s.blk] =
                      [j \in 1..BlockSize |->
                         IF s.from < j /\ j <= s.from + s.len
                         THEN p[acc.n + j - s.from] ELSE @[j]]],
           n |-> acc.n + s.len]
    IN FoldLeft(store, [mem |-> m, n |-> 0], segs).mem

(* Stripe.ReadAt: the bytes it returns, none at or past the data length. *)
ReadAt(v, m, off, n) ==
    IF off >= v.len THEN <<>>
    ELSE LoadAll(m, Pieces(v.blocks, off + BlockSize, Least(n, v.len - off)))

(* Stripe.WriteAt: the bytes it stores. *)
WriteAtCount(v, off, p) == PiecesLen(Pieces(v.blocks, off + BlockSize, Len(p)))

WriteAt(m, v, off, p) == StoreAll(m, Pieces(v.blocks, off + BlockSize, Len(p)), p)

(* The new data length: it never shrinks, and an empty write leaves it. *)
WriteAtLen(v, off, p) ==
    LET n == WriteAtCount(v, off, p)
    IN IF n > 0 /\ off + n > v.len THEN off + n ELSE v.len

(***************************************************************************)
(* Rust: resolve_segments walks the sequence of the header.  An entry      *)
(* whose chunk is not mapped is skipped; every chunk is mapped here.       *)
(***************************************************************************)
resolve_segments(seq, off, want) ==
    LET step(acc, val) ==
          IF acc.left = 0 THEN acc
          ELSE IF val < 0 THEN [acc EXCEPT !.cid = val]
          ELSE IF acc.off >= BlockSize THEN [acc EXCEPT !.off = @ - BlockSize]
          ELSE LET take == Least(acc.left, BlockSize - acc.off)
               IN [acc EXCEPT
                     !.out = Append(@, [blk |-> <<acc.cid, val>>, from |-> acc.off, len |-> take]),
                     !.left = @ - take,
                     !.off = 0]
    IN FoldLeft(step, [cid |-> -1, off |-> off, left |-> want, out |-> <<>>], seq).out

(* poll_read after its bounds, with read_data. *)
read_data(h, m, off, n) ==
    IF off >= h.len THEN <<>>
    ELSE LoadAll(m, resolve_segments(refresh_sequence(h), off + BlockSize, Least(n, h.len - off)))

write_data(h, m, off, p) ==
    StoreAll(m, resolve_segments(refresh_sequence(h), off + BlockSize, Len(p)), p)

(***************************************************************************)
(* Views.                                                                  *)
(***************************************************************************)
Viewer(segs, length) ==
    [segs |-> segs,
     offs |-> [k \in 1..Len(segs) |-> PiecesLen(SubSeq(segs, 1, k - 1))],
     length |-> length]

(* Stripe.View for an offset inside the data and a length above zero. *)
View(v, offset, length) ==
    LET n == Least(offset + length, v.len)
    IN Viewer(Pieces(v.blocks, offset + BlockSize, n - offset), n - offset)

(* The same in Rust. *)
view(h, offset, length) ==
    LET end == Least(offset + length, h.len)
    IN Viewer(resolve_segments(refresh_sequence(h), offset + BlockSize, end - offset), end - offset)

(* slices.BinarySearch: the first index, from 0, not below x. *)
BinarySearch(offs, x) == Cardinality({k \in DOMAIN offs : offs[k] < x})

findSegment(w, x) ==
    LET idx == BinarySearch(w.offs, x)
    IN IF idx > 0 /\ (idx = Len(w.offs) \/ w.offs[idx + 1] > x) THEN idx - 1 ELSE idx

(* Rust's: an exact hit, or the one before the insertion point. *)
find_segment(w, x) ==
    LET idx == BinarySearch(w.offs, x)
    IN IF idx < Len(w.offs) /\ w.offs[idx + 1] = x THEN idx ELSE idx - 1

(* The byte at innerOff of segment idx (from 0), as ByteAt reads and       *)
(* SetByteAt writes it.                                                    *)
SegmentByte(w, m, idx, innerOff) ==
    m[w.segs[idx + 1].blk][w.segs[idx + 1].from + innerOff + 1]

ByteAt(w, m, x) ==
    LET idx == findSegment(w, x) IN SegmentByte(w, m, idx, x - w.offs[idx + 1])

byte_at(w, m, x) ==
    LET idx == find_segment(w, x) IN SegmentByte(w, m, idx, x - w.offs[idx + 1])

(* SetByteAt, and set_byte_at, through the segment with index idx. *)
SetSegmentByte(w, m, idx, x, val) ==
    [m EXCEPT ![w.segs[idx + 1].blk][w.segs[idx + 1].from + x - w.offs[idx + 1] + 1] = val]

SetByteAt(w, m, x, val) == SetSegmentByte(w, m, findSegment(w, x), x, val)

set_byte_at(w, m, x, val) == SetSegmentByte(w, m, find_segment(w, x), x, val)

(* Viewer.Iterator, called until it returns false. *)
Iterator(w, m) ==
    LET rest[segIdx \in Nat, innerIdx \in Nat] ==
          IF segIdx = Len(w.segs) THEN <<>>
          ELSE IF innerIdx < w.segs[segIdx + 1].len
               THEN <<SegmentByte(w, m, segIdx, innerIdx)>> \o rest[segIdx, innerIdx + 1]
               ELSE rest[segIdx + 1, 0]
    IN rest[0, 0]

Compare(w, m, data) ==
    /\ Len(data) = w.length
    /\ \A k \in DOMAIN w.segs :
          PieceBytes(m, w.segs[k]) =
             SubSeq(data, w.offs[k] + 1, w.offs[k] + w.segs[k].len)

(* Walks on from a position, one segment after the other. *)
matchAcrossSegments(w, m, segIdx, posInSeg, target) ==
    LET walk[i \in 1..Len(target) + 1, k \in Nat, o \in Nat] ==
          IF i > Len(target) THEN TRUE
          ELSE IF o >= w.segs[k].len
               THEN k < Len(w.segs) /\ m[w.segs[k + 1].blk][w.segs[k + 1].from + 1] = target[i]
                    /\ walk[i + 1, k + 1, 1]
               ELSE m[w.segs[k].blk][w.segs[k].from + o + 1] = target[i]
                    /\ walk[i + 1, k, o + 1]
    IN walk[1, segIdx, posInSeg]

(* Where the target matches, by segment and position in it. *)
Matches(w, m, target) ==
    {<<k, o>> \in (1..Len(w.segs)) \X (0..BlockSize - 1) :
       /\ o < w.segs[k].len
       /\ IF o + Len(target) <= w.segs[k].len
          THEN SubSeq(PieceBytes(m, w.segs[k]), o + 1, o + Len(target)) = target
          ELSE matchAcrossSegments(w, m, k, o, target)}

(* Mutated form: a match must lie in one segment. *)
IndexWithin(w, m, target) ==
    IF target = <<>> THEN 0
    ELSE LET all == {x \in Matches(w, m, target) : x[2] + Len(target) <= w.segs[x[1]].len}
             first == CHOOSE x \in all :
                        \A y \in all : x[1] < y[1] \/ (x[1] = y[1] /\ x[2] <= y[2])
         IN IF all = {} THEN -1 ELSE w.offs[first[1]] + first[2]

(* Viewer.Index: the first match, segments in order; -1 without one. *)
Index(w, m, target) ==
    IF target = <<>> THEN 0
    ELSE LET all == Matches(w, m, target)
             first == CHOOSE x \in all :
                        \A y \in all : x[1] < y[1] \/ (x[1] = y[1] /\ x[2] <= y[2])
         IN IF all = {} THEN -1 ELSE w.offs[first[1]] + first[2]
=============================================================================
