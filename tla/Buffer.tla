------------------------------- MODULE Buffer -------------------------------
(***************************************************************************)
(* The buffers of the connections (src/net/xactor/buffer.cpp): chains of   *)
(* fixed-size blocks (src/net/xactor/block.cpp) that come from one pool    *)
(* shared by every buffer of the reactor and return to it (inc/base/pool/  *)
(* object_pool.h).  Each operation runs under the lock of the connection,  *)
(* and what it does to the pool under the pool's lock, so it is one step.  *)
(*                                                                         *)
(* A block is an array with the bytes offset .. offset+size-1 in use and   *)
(* room for `capacity' more behind them.  Memory is finite: new fails when *)
(* every block of Block is allocated.                                      *)
(***************************************************************************)
EXTENDS Integers, FiniteSets, SequencesExt

CONSTANTS
  Buf,         \* the buffers
  Block,       \* the blocks there is memory for: 1 .. n
  BlockSize,   \* sizeof(m_buffer)
  MaxFill,     \* bound: bytes given to a buffer at once
  MaxBytes     \* bound: bytes given to a buffer altogether

ASSUME BufferAssumption ==
  /\ IsFiniteSet(Block) /\ Block \subseteq Nat
  /\ BlockSize \in Nat \ {0} /\ MaxFill \in Nat /\ MaxBytes \in Nat

VARIABLES
  blocks,      \* m_blocks of each buffer
  length,      \* m_length of each buffer
  pool,        \* m_objs of the pool
  heap,        \* blocks allocated and not deleted
  memory,      \* what each block holds
  entered      \* history: bytes each buffer was given so far

vars == <<blocks, length, pool, heap, memory, entered>>

Junk == <<>>

(* Block::reset *)
Reset(m) == [m EXCEPT !.offset = 0, !.size = 0, !.capacity = BlockSize]

(* Block::append, one byte of it. *)
Appended(m, byte) ==
  [m EXCEPT !.bytes[m.offset + m.size] = byte, !.size = @ + 1, !.capacity = @ - 1]

\* Mutant of Offset: the bytes go from the wrong end of the block.
OffsetEnd(m, k) == [m EXCEPT !.size = @ - k]

(* Block::offset *)
Offset(m, k) == [m EXCEPT !.offset = @ + k, !.size = @ - k]

Init ==
  /\ blocks = [b \in Buf |-> << >>]
  /\ length = [b \in Buf |-> 0]
  /\ pool = << >> /\ heap = {}
  /\ memory = [x \in Block |->
       [offset |-> 0, size |-> 0, capacity |-> BlockSize,
        bytes |-> [i \in 0 .. (BlockSize - 1) |-> Junk]]]
  /\ entered = [b \in Buf |-> 0]

-----------------------------------------------------------------------------
(* fill_len works on a state s: the chain of the buffer, its length, the   *)
(* pool, the heap, the memory, and whether acquire_block has failed.       *)
NeedsBlock(s) == s.chain = << >> \/ s.memory[Last(s.chain)].capacity = 0

(* acquire_block: the oldest block of the pool, or a new one.              *)
Acquire(s) ==
  LET free == Block \ s.heap
      fresh == CHOOSE x \in free : \A y \in free : x <= y
      taken == IF s.pool = << >> THEN fresh ELSE Head(s.pool)
  IN IF s.pool = << >> /\ free = {}
       THEN [s EXCEPT !.failed = TRUE]
       ELSE [s EXCEPT !.pool = IF @ = << >> THEN @ ELSE Tail(@),
                      !.heap = @ \cup {taken},
                      !.chain = Append(@, taken),
                      !.memory[taken] = Reset(@)]

FillByte(s, byte) ==
  LET t == IF ~ s.failed /\ NeedsBlock(s) THEN Acquire(s) ELSE s
  IN IF t.failed
       THEN t
       ELSE [t EXCEPT !.memory[Last(t.chain)] = Appended(@, byte), !.length = @ + 1]

Start(b) ==
  [chain |-> blocks[b], length |-> length[b], pool |-> pool, heap |-> heap,
   memory |-> memory, failed |-> FALSE]

Filled(b, k) ==
  LET after[i \in 0 .. k] ==
        IF i = 0 THEN Start(b) ELSE FillByte(after[i - 1], <<b, entered[b] + i>>)
  IN  after[k]

Fill(b, k) ==
  /\ entered[b] + k <= MaxBytes
  /\ LET s == Filled(b, k)
     IN /\ blocks' = [blocks EXCEPT ![b] = s.chain]
        /\ length' = [length EXCEPT ![b] = s.length]
        /\ pool' = s.pool
        /\ heap' = s.heap
        /\ memory' = s.memory
        /\ entered' = [entered EXCEPT ![b] = @ + (s.length - length[b])]

(* Bytes in the first n blocks of a chain. *)
SizeIn(chain, mem, n) ==
  LET upto[i \in 0 .. Len(chain)] ==
        IF i = 0 THEN 0 ELSE upto[i - 1] + mem[chain[i]].size
  IN  upto[n]

(* drop_len returns the blocks whose bytes all go, except the last of      *)
(* them, to the pool, and moves the start of the next one.  A block that   *)
(* is left with nothing stays at the front.                                *)
Skips(b, k, i) == SizeIn(blocks[b], memory, i) < k
Drop(b, k) ==
  /\ k <= length[b]
  /\ length' = [length EXCEPT ![b] = @ - k]
  /\ \E n \in 0 .. (Len(blocks[b]) - 1) :
       /\ \A i \in 1 .. n : Skips(b, k, i)
       /\ ~ Skips(b, k, n + 1)
       /\ blocks' = [blocks EXCEPT ![b] = SubSeq(@, n + 1, Len(@))]
       /\ pool' = pool \o SubSeq(blocks[b], 1, n)
       /\ memory' = [memory EXCEPT ![blocks[b][n + 1]] =
                      Offset(@, k - SizeIn(blocks[b], memory, n))]
  /\ UNCHANGED <<heap, entered>>

\* Mutant of LeftBy: the blocks go to the pool and stay in the chain too.
KeptByBuffer(b) == UNCHANGED blocks

(* ~Buffer, and the buffer of a connection made later. *)
LeftBy(b) == blocks' = [blocks EXCEPT ![b] = << >>]
Destroy(b) ==
  /\ pool' = pool \o blocks[b]
  /\ LeftBy(b)
  /\ length' = [length EXCEPT ![b] = 0]
  /\ UNCHANGED <<heap, memory, entered>>

(* clear() of the pool at the end of exit(), when the connections are      *)
(* gone: it deletes the first block and forgets the others.                *)
Clear ==
  /\ \A b \in Buf : blocks[b] = << >>
  /\ pool # << >>
  /\ heap' = heap \ {Head(pool)}
  /\ pool' = << >>
  /\ UNCHANGED <<blocks, length, memory, entered>>

Next ==
  \/ \E b \in Buf : Destroy(b)
  \/ \E b \in Buf, k \in 1 .. MaxFill : Fill(b, k)
  \/ \E b \in Buf, k \in 1 .. MaxBytes : Drop(b, k)
  \/ Clear

Spec == Init /\ [][Next]_vars

-----------------------------------------------------------------------------
(* A block is in one place at most, once in one chain or once in the pool, *)
(* and nothing uses a block that was deleted.                              *)
Apart(r, s) == Range(r) \cap Range(s) = {}

OneOwner ==
  /\ \A s \in {pool} \cup {blocks[b] : b \in Buf} :
       IsInjective(s) /\ Range(s) \subseteq heap
  /\ \A b \in Buf : Apart(blocks[b], pool)
  /\ \A b, c \in Buf : b # c => Apart(blocks[b], blocks[c])

InUse(m) == [i \in 1 .. m.size |-> m.bytes[m.offset + i - 1]]

(* What is in the first n blocks of a chain. *)
BytesIn(chain, mem, n) ==
  LET upto[i \in 0 .. Len(chain)] ==
        IF i = 0 THEN << >> ELSE upto[i - 1] \o InUse(mem[chain[i]])
  IN  upto[n]

Contents(b) == BytesIn(blocks[b], memory, Len(blocks[b]))

(* The types of the state; one owner of each block; arrays in which what   *)
(* is behind the bytes in use and the room for more fill the block; and    *)
(* m_length, which copy_len and drop_len look at before they walk, the     *)
(* number of bytes in the chain.                                           *)
TypeOK ==
  /\ blocks \in [Buf -> Seq(Block)]
  /\ length \in [Buf -> 0 .. MaxBytes]
  /\ pool \in Seq(Block)
  /\ heap \subseteq Block
  /\ entered \in [Buf -> 0 .. MaxBytes]
  /\ \A x \in Block :
       LET m == memory[x]
       IN /\ {m.offset, m.size, m.capacity} \subseteq 0 .. BlockSize
          /\ m.offset + m.size + m.capacity = BlockSize
  /\ OneOwner
  /\ \A b \in Buf : length[b] = Len(Contents(b))

(* copy_len reads the chain from its front, as the queue has it: the bytes *)
(* that were given and not dropped, each once and in order, whatever       *)
(* blocks of other buffers were used before.                               *)
Queue == INSTANCE ByteQueue WITH queue <- [b \in Buf |-> Contents(b)]

ImplementsQueue == Queue!Spec

=============================================================================
