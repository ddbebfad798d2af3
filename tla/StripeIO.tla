------------------------------ MODULE StripeIO ------------------------------
(***************************************************************************)
(* The contents of one stripe on its way from the hub to nodes and back:   *)
(* busConn writes and grows it (conn.go), Next hands it to a Go or a Rust  *)
(* task, the task writes, asks the hub for more blocks and answers, and    *)
(* the connection refreshes its copy of the metadata.  Each of the three   *)
(* holders finds the bytes in its own way: the hub and the Go node through *)
(* block lists that they extend step by step, the Rust node through the    *)
(* header each time.                                                       *)
(*                                                                         *)
(* One holder acts at a time; module Handoff is about who that is.  A      *)
(* handler returns when one of its writes fails.  Reads change nothing but *)
(* readOff, so they are not steps: the properties make every read in every *)
(* state.                                                                  *)
(***************************************************************************)
EXTENDS Stripe, TLC

CONSTANTS Chunks,     \* chunks of the bus
          BlocksPerChunk,
          Byte,       \* byte values
          Zero,       \* what a new chunk is filled with
          Payloads,   \* what is written
          Offsets,    \* offsets of WriteAt
          Limit,      \* StripeDataSizeLimit, checked by Go nodes
          MaxLen,     \* bound: no hub write ends behind it
          MaxOps      \* bound: calls in a behaviour

ASSUME StripeAssumption ==
    /\ Chunks \in Nat \ {0} /\ BlocksPerChunk \in Nat \ {0}
    /\ Zero \in Byte
    /\ \A p \in Payloads : p \in Seq(Byte) /\ p # <<>>
    /\ Offsets \subseteq Nat
    /\ Limit \in Nat /\ MaxLen \in Nat /\ MaxOps \in Nat

(* The blocks of the bus.  Chunk number i has the ID ^i. *)
Blocks == {-c : c \in 1..Chunks} \X (0..BlocksPerChunk - 1)

GetBlockAddress(b) == (-b[1] - 1) * BlocksPerChunk + b[2]

VARIABLES
    mem,      \* the shared memory, header blocks left out
    free,     \* blocks that the bus can grant
    hdr,      \* the header block
    hub,      \* busConn.Stripe
    task,     \* nodeConn.stripe of a Go task
    turn,     \* who has the stripe
    writeOff, \* the write offset of the holder
    pend,     \* a write of a task that waits for an expansion
    failed,   \* some Next returned with an expand error
    file,     \* history: the bytes written, by offset
    fileLen,  \* history: the end of the last byte written
    granted,  \* blocks that were free when the pending write began
    ops       \* calls made

vars == <<mem, free, hdr, hub, task, turn, writeOff, pend, failed, file, fileLen,
          granted, ops>>

NoStripe == [seq |-> <<>>, cnt |-> 0, blocks |-> <<>>, len |-> 0]
NoHeader == [len |-> 0, cnt |-> 0, n |-> 0, seq |-> <<>>]
NoWrite == [off |-> 0, p |-> <<>>, advance |-> FALSE]

Init ==
    /\ mem = [b \in Blocks |-> [j \in 1..BlockSize |-> Zero]]
    /\ free = Blocks
    /\ hdr = NoHeader /\ hub = NoStripe /\ task = NoStripe
    /\ turn = "none" /\ writeOff = 0 /\ pend = NoWrite /\ failed = FALSE
    /\ file = <<>> /\ fileLen = 0 /\ granted = 0 /\ ops = 0

Call == ops < MaxOps /\ ops' = ops + 1

(* What AllocBlocks(n) may return: the first n free blocks in the order of *)
(* their addresses, cyclically from where its search starts.               *)
Grants(n) ==
    LET Distance(a, b) == (GetBlockAddress(b) - GetBlockAddress(a)) % (Chunks * BlocksPerChunk)
        Nth(a, i) == CHOOSE b \in free :
                       Cardinality({c \in free : Distance(a, c) < Distance(a, b)}) = i - 1
    IN IF Cardinality(free) < n THEN {} ELSE {[i \in 1..n |-> Nth(a, i)] : a \in free}

UserCap(cnt) == (cnt - 1) * BlockSize

(* History: p was written at off. *)
Record(off, p) ==
    /\ file' = [i \in off..off + Len(p) - 1 |-> p[i - off + 1]] @@ file
    /\ fileLen' = IF off + Len(p) > fileLen THEN off + Len(p) ELSE fileLen

Request ==
    /\ turn = "none" /\ Call
    /\ \E s \in Grants(2) :
         /\ hub' = AllocStripe(s)
         /\ hdr' = UpdateStripeHeader(hub')
         /\ free' = free \ Range(s)
    /\ turn' = "hub" /\ writeOff' = 0
    /\ file' = <<>> /\ fileLen' = 0
    /\ UNCHANGED <<mem, task, pend, failed, granted>>

(* busConn.WriteAt, and Write and WriteByte, which pass and move writeOff. *)
HubWrite(off, p, advance) ==
    LET need == off + Len(p)
        extra == (need - UserCap(hub.cnt) + BlockSize - 1) \div BlockSize
    IN /\ turn = "hub" /\ need <= MaxLen /\ Call
       /\ \E s \in (IF need <= UserCap(hub.cnt) THEN {<<>>} ELSE Grants(extra)) :
            LET grown == IF s = <<>> THEN hub ELSE AllocBlocksForStripe(hub, s)
                h == IF s = <<>> THEN hdr ELSE UpdateStripeHeader(grown)
            IN /\ free' = free \ Range(s)
               /\ mem' = WriteAt(mem, grown, off, p)
               /\ hub' = [grown EXCEPT !.len = WriteAtLen(grown, off, p)]
               /\ hdr' = IF hub'.len # grown.len THEN [h EXCEPT !.len = hub'.len] ELSE h
       /\ writeOff' = IF advance THEN writeOff + Len(p) ELSE writeOff
       /\ Record(off, p)
       /\ UNCHANGED <<task, turn, pend, failed, granted>>

(* A byte set through a view of the stripe from offset o on, by the hub's  *)
(* user or by a Go handler.                                                *)
GoSetByte(o, x, val) ==
    LET v == IF turn = "go" THEN task ELSE hub
    IN /\ turn \in {"hub", "go"} /\ pend = NoWrite /\ o < v.len /\ x < View(v, o, v.len).length
       /\ Call
       /\ mem' = SetByteAt(View(v, o, v.len), mem, x, val)
       /\ Record(o + x, <<val>>)
       /\ UNCHANGED <<free, hdr, hub, task, turn, writeOff, pend, failed, granted>>

RustSetByte(o, x, val) ==
    /\ turn = "rust" /\ pend = NoWrite /\ o < hdr.len /\ x < view(hdr, o, hdr.len).length /\ Call
    /\ mem' = set_byte_at(view(hdr, o, hdr.len), mem, x, val)
    /\ Record(o + x, <<val>>)
    /\ UNCHANGED <<free, hdr, hub, task, turn, writeOff, pend, failed, granted>>

(* Next hands the stripe over; a Go task decodes the header once. *)
HandOver(node) ==
    /\ turn = "hub" /\ Call
    /\ turn' = node /\ writeOff' = 0
    /\ task' = IF node = "go" THEN DecodeStripe(hdr) ELSE NoStripe
    /\ UNCHANGED <<mem, free, hdr, hub, pend, failed, file, fileLen, granted>>

(***************************************************************************)
(* A task writes: nodeConn.WriteAt, Write and WriteByte, of which only     *)
(* Write moves writeOff, and poll_write of the Rust node.                  *)
(***************************************************************************)
TaskWrite(node, off, p, advance) ==
    /\ turn = node /\ pend = NoWrite /\ Call
    /\ node = "go" => off + Len(p) <= Limit
    /\ pend' = [off |-> off, p |-> p, advance |-> advance]
    /\ granted' = Cardinality(free)
    /\ UNCHANGED <<mem, free, hdr, hub, task, turn, writeOff, failed, file, fileLen>>

(* A Go task goes by the block count of its own stripe, a Rust task by the *)
(* one in the header.                                                      *)
Fits(cnt) == pend.off + Len(pend.p) <= UserCap(cnt)

Stored ==
    /\ writeOff' = IF pend.advance THEN writeOff + Len(pend.p) ELSE writeOff
    /\ pend' = NoWrite /\ granted' = 0
    /\ Record(pend.off, pend.p)
    /\ UNCHANGED <<free, hub, turn, failed, ops>>

GoStore ==
    /\ turn = "go" /\ pend # NoWrite /\ Fits(task.cnt)
    /\ mem' = WriteAt(mem, task, pend.off, pend.p)
    /\ task' = [task EXCEPT !.len = WriteAtLen(task, pend.off, pend.p)]
    /\ hdr' = IF task'.len # task.len THEN [hdr EXCEPT !.len = task'.len] ELSE hdr
    /\ Stored

RustStore ==
    /\ turn = "rust" /\ pend # NoWrite /\ Fits(hdr.cnt)
    /\ Stored
    /\ mem' = write_data(hdr, mem, pend.off, pend.p)
    /\ hdr' = IF writeOff' > hdr.len THEN [hdr EXCEPT !.len = writeOff'] ELSE hdr
    /\ UNCHANGED task

(* handleExpandRequest: two more blocks. *)
Expand(s) ==
    /\ hdr' = UpdateStripeHeader(AllocBlocksForStripe(DecodeStripe(hdr), s))
    /\ free' = free \ Range(s)
    /\ UNCHANGED <<mem, hub, turn, writeOff, pend, failed, file, fileLen, granted, ops>>

(* One round of the loop in WriteAt and WriteByte. *)
GoExpand ==
    /\ turn = "go" /\ pend # NoWrite /\ ~Fits(task.cnt)
    /\ \E s \in Grants(2) : Expand(s)
    /\ task' = OnExpandComplete(task, hdr')

RustExpand ==
    /\ turn = "rust" /\ pend # NoWrite /\ ~Fits(hdr.cnt)
    /\ \E s \in Grants(2) : Expand(s)
    /\ UNCHANGED task

(* The bus has too few blocks left: Next returns the error and does not    *)
(* refresh, so the connection goes on with the stripe that it had.         *)
ExpandFail ==
    /\ pend # NoWrite /\ Grants(2) = {}
    /\ ~Fits(IF turn = "go" THEN task.cnt ELSE hdr.cnt)
    /\ turn' = "hub" /\ task' = NoStripe /\ writeOff' = 0 /\ failed' = TRUE
    /\ pend' = NoWrite /\ granted' = 0
    /\ file' = [i \in {j \in DOMAIN file : j < hub.len} |-> file[i]]
    /\ fileLen' = hub.len
    /\ UNCHANGED <<mem, free, hdr, hub, ops>>

(* The task answers, and Next refreshes and returns. *)
TaskDone ==
    /\ turn \in {"go", "rust"} /\ pend = NoWrite
    /\ turn' = "hub" /\ task' = NoStripe /\ writeOff' = 0
    /\ hub' = refreshStripe(hub, hdr)
    /\ UNCHANGED <<mem, free, hdr, pend, failed, file, fileLen, granted, ops>>

Close ==
    /\ turn = "hub"
    /\ free' = free \union Range(BlocksFrom(hub.seq, 0))
    /\ turn' = "none" /\ hub' = NoStripe
    /\ UNCHANGED <<mem, hdr, task, writeOff, pend, failed, file, fileLen, granted, ops>>

(* A node has got a header that does not name all blocks of the stripe.    *)
(* What it and the hub make of it is not followed any further.             *)
Misread == turn \in {"go", "rust"} /\ hdr.n > HeaderCap

Next == ~Misread /\
    \/ Request \/ TaskDone \/ Close
    \/ GoStore \/ GoExpand \/ RustStore \/ RustExpand \/ ExpandFail
    \/ \E node \in {"go", "rust"} : HandOver(node)
    \/ \E p \in Payloads :
         \/ HubWrite(writeOff, p, TRUE)
         \/ \E node \in {"go", "rust"} : TaskWrite(node, writeOff, p, TRUE)
         \/ Len(p) = 1 /\ TaskWrite("go", writeOff, p, FALSE)
         \/ \E off \in Offsets : HubWrite(off, p, FALSE) \/ TaskWrite("go", off, p, FALSE)
    \/ \E o, x \in Offsets, p \in Payloads :
         Len(p) = 1 /\ (GoSetByte(o, x, p[1]) \/ RustSetByte(o, x, p[1]))

Spec == Init /\ [][Next]_vars

(***************************************************************************)
(* Properties.                                                             *)
(***************************************************************************)
(* The stripe as its holder sees it. *)
Held == IF turn = "go" THEN task ELSE IF turn = "rust" THEN DecodeStripe(hdr) ELSE hub

Read(off, n) == IF turn = "rust" THEN read_data(hdr, mem, off, n) ELSE ReadAt(Held, mem, off, n)

(* Read and ReadByte of a connection, n bytes at a time from the start. *)
ReadAll(n) ==
    LET from[readOff \in Nat] ==
          LET got == Read(readOff, n)
          IN IF got = <<>> THEN <<>> ELSE got \o from[readOff + Len(got)]
    IN from[0]

(* got is what the file has from offset off on, where it was written. *)
IsFile(got, off) ==
    \A i \in DOMAIN got : off + i - 1 \in DOMAIN file => got[i] = file[off + i - 1]

(* Whoever holds the stripe reads, from every offset and for every length, *)
(* the bytes that the holders before it and it itself have written, as     *)
(* many as were asked for and are there: ReadAt of the hub and of a Go     *)
(* node, read_data of a Rust node, over blocks of several chunks, and the  *)
(* same when it reads on and on.  A header that was cut off does no harm   *)
(* to the hub, which goes by its own list of blocks; no node may get it.   *)
(* The length that the holder knows, and the header has for the next one,  *)
(* is the end of the last byte that anyone wrote.                          *)
ReadsFile ==
    turn # "none" =>
      /\ ~failed => Held.len = fileLen /\ hdr.len = fileLen
      /\ ~Misread =>
           /\ \A off \in 0..MaxLen, n \in 1..MaxLen :
                LET got == Read(off, n)
                IN /\ IsFile(got, off)
                   /\ Len(got) = IF off >= Held.len THEN 0 ELSE Least(n, Held.len - off)
           /\ \A n \in 1..MaxLen : ReadAll(n) = Read(0, Held.len)

(* A view has the bytes of the file in order, and the searches of Viewer   *)
(* answer for it as they would for a flat copy: ByteAt and byte_at give    *)
(* each byte, Iterator all of them, Compare accepts that copy and no       *)
(* other, and Index finds the first occurrence, over block boundaries too. *)
ViewsFile ==
    turn # "none" /\ ~Misread =>
      \A off \in 0..Held.len - 1, n \in 1..MaxLen :
        LET w == IF turn = "rust" THEN view(hdr, off, n) ELSE View(Held, off, n)
            flat == Read(off, n)
            Found(t) == {k \in 0..w.length - Len(t) : SubSeq(flat, k + 1, k + Len(t)) = t}
        IN /\ Len(flat) = w.length
           /\ \A x \in 0..w.length - 1 :
                flat[x + 1] = IF turn = "rust" THEN byte_at(w, mem, x) ELSE ByteAt(w, mem, x)
           /\ Iterator(w, mem) = flat
           /\ Compare(w, mem, flat)
           /\ \A i \in DOMAIN flat, c \in Byte :
                flat[i] # c => ~Compare(w, mem, [flat EXCEPT ![i] = c])
           /\ \A t \in Payloads :
                Index(w, mem, t) = IF Found(t) = {} THEN -1
                                   ELSE CHOOSE k \in Found(t) : \A l \in Found(t) : k <= l

(* The header names every block of the stripe once, as long as it has room *)
(* for the sequence, which has at most two entries for a block.  A block   *)
(* of the stripe is never free, and as long as no expansion has failed no  *)
(* block is lost: Close gives back all that Request, ensureCapacity and    *)
(* the expansions of the tasks took.                                       *)
BlocksKept ==
    LET listed == IF hdr.n > HeaderCap THEN hub.blocks ELSE BlocksFrom(DecodeHeader(hdr), 0)
    IN turn # "none" /\ ~Misread /\ (failed => hdr.n <= HeaderCap) =>
         /\ Len(listed) = hdr.cnt /\ IsInjective(listed) /\ hdr.n <= 2 * hdr.cnt
         /\ Range(listed) \intersect free = {}
         /\ ~failed => free \union Range(listed) = Blocks
         /\ ~failed => Held.blocks = listed

(* A write of a Go handler that needs a larger stripe fails only if the    *)
(* bus had too few blocks for it when it began (README: "Supports dynamic  *)
(* expansion of Stripes to meet data growth demands").                     *)
ExpansionMeetsDemand ==
    (turn = "go" /\ pend # NoWrite /\ ~Fits(task.cnt) /\ Grants(2) = {}) =>
      LET short == pend.off + Len(pend.p) - UserCap(task.cnt)
      IN granted < 2 * ((short + 2 * BlockSize - 1) \div (2 * BlockSize))
=============================================================================
