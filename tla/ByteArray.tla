------------------------------ MODULE ByteArray ------------------------------
(***************************************************************************)
(* The ByteArray (webserve/bytearray.cc) against a flat sequence of bytes.   *)
(*                                                                         *)
(* The blocks of the list all have base bytes.  They are kept one after the  *)
(* other in cells, so that the loops that copy from block to block start at   *)
(* one cell and go on to the following ones; a loop that needs more cells      *)
(* than there are follows the null pointer behind the last block.  m_cur is     *)
(* the number of a block, or Null.                                              *)
(*                                                                         *)
(* A byte has Group bits and one bit that says that more follow, an int has     *)
(* Width bits; the code has 7 and 32 or 64.                                     *)
(***************************************************************************)
EXTENDS Integers, Sequences

CONSTANTS
  Bases,        \* values of m_baseSize
  MaxSize,      \* bound on the bytes written
  Width, Group, \* bits of an integer, and of it in one byte of a varint
  Uints, Ints,  \* unsigned and signed integers that are written
  Shorts,       \* integers of fixed size that are written
  Buffers,      \* strings and files
  Leftovers     \* bytes of new blocks: whatever the allocator leaves there

ASSUME ByteArrayAssumption ==
  /\ Bases \subseteq Nat \ {0}
  /\ Width \in Nat /\ Group \in 1..(Width - 1)
  /\ MaxSize \in 0..(2^Width - 1)   \* the length of a string is written as an integer

\* Powers of two, of which the prover only knows that they are integers.
ASSUME PowerAssumption == \A n \in 0..(2 * Width) : 2^(n + 1) = 2 * 2^n

Null == 0
More == 2^Group                     \* the bit 0x80
Byte == 0..(2 * More - 1)
Unsigned == 0..(2^Width - 1)
Signed == (-(2^(Width - 1)))..(2^(Width - 1) - 1)
MaxBytes == (Width + Group - 1) \div Group

\* What callers write is of its type.
ASSUME InputAssumption ==
  /\ Uints \subseteq Unsigned /\ Ints \subseteq Signed
  /\ Shorts \subseteq 0..(4 * More * More - 1)
  /\ \A str \in Buffers : str \in Seq(Byte) /\ Len(str) <= MaxSize
  /\ Leftovers \subseteq Byte

VARIABLES
  ba,     \* the ByteArray: base, cells, cur, position, size, status
  flat,   \* reference: the bytes it should hold
  out     \* the last operation: ok, did it return what it should;
          \*   excused, was it one of the calls that may go wrong

vars == <<ba, flat, out>>

Capacity(s) == Len(s.cells)
getReadSize(s) == s.size - s.position
getCapacity(s) == Capacity(s) - s.position

\* The cell before the one at offset position % m_baseSize of block cur.
At(s, cur, position) == (cur - 1) * s.base + (position % s.base)

\* The block that holds the cell after the first n ones.
BlockAfter(s, n) == IF n < Capacity(s) THEN n \div s.base + 1 ELSE Null

Crash(s) == [s EXCEPT !.status = "null"]
Throw(s) == [s EXCEPT !.status = "out_of_range"]
Works(s) == s.status = "works"

-----------------------------------------------------------------------------
\* Mutant: no block for what exceeds whole blocks.
addCapacityWhole(s, n, b) ==
  IF n <= getCapacity(s) THEN s
  ELSE LET count == (n - getCapacity(s)) \div s.base
       IN  [s EXCEPT !.cells = @ \o [i \in 1..(count * s.base) |-> b],
                     !.cur = IF getCapacity(s) = 0 THEN Capacity(s) \div s.base + 1 ELSE @]

\* addCapacity(n); new blocks hold b.
addCapacity(s, n, b) ==
  IF n <= getCapacity(s) THEN s
  ELSE LET old == getCapacity(s)
           count == (n - old) \div s.base
                      + (IF (n - old) % s.base > old THEN 1 ELSE 0)
       IN  [s EXCEPT !.cells = @ \o [i \in 1..(count * s.base) |-> b],
                     !.cur = IF old = 0 THEN Capacity(s) \div s.base + 1 ELSE @]

\* Mutant: bpos is not advanced at the end of a block.
writeRestarts(s, buf, b) ==
  LET t == addCapacity(s, Len(buf), b)
      a == At(t, t.cur, t.position)
      end == t.position + Len(buf)
      room == t.base - (t.position % t.base)
      From(k) == IF k <= room THEN k ELSE ((k - room - 1) % t.base) + 1
  IN  IF buf = <<>> \/ ~Works(s) THEN s
      ELSE IF t.cur = Null \/ a + Len(buf) > Capacity(t) THEN Crash(t)
      ELSE [t EXCEPT !.cells = [i \in DOMAIN t.cells |->
                                  IF i \in (a + 1)..(a + Len(buf)) THEN buf[From(i - a)] ELSE @[i]],
                     !.cur = BlockAfter(t, a + Len(buf)),
                     !.position = end,
                     !.size = IF end > @ THEN end ELSE @]

\* write(buf, size)
write(s, buf, b) ==
  LET t == addCapacity(s, Len(buf), b)
      a == At(t, t.cur, t.position)
      end == t.position + Len(buf)
  IN  IF buf = <<>> \/ ~Works(s) THEN s
      ELSE IF t.cur = Null \/ a + Len(buf) > Capacity(t) THEN Crash(t)
      ELSE [t EXCEPT !.cells = [i \in DOMAIN t.cells |->
                                  IF i \in (a + 1)..(a + Len(buf)) THEN buf[i - a] ELSE @[i]],
                     !.cur = BlockAfter(t, a + Len(buf)),
                     !.position = end,
                     !.size = IF end > @ THEN end ELSE @]

\* read(buf, size): what it leaves, and what it gives.  The block is looked at
\* even if nothing is to be read.
read(s, n) ==
  LET a == At(s, s.cur, s.position) IN
  IF ~Works(s) THEN s
  ELSE IF n > getReadSize(s) THEN Throw(s)
  ELSE IF s.cur = Null \/ a + n > Capacity(s) THEN Crash(s)
  ELSE [s EXCEPT !.cur = IF n = 0 THEN @ ELSE BlockAfter(s, a + n), !.position = @ + n]
Given(s, n) ==
  LET a == At(s, s.cur, s.position) IN SubSeq(s.cells, a + 1, a + n)

\* Mutant: m_cur is looked for as the block that holds the byte before.
setPositionBefore(s, v) ==
  IF v > Capacity(s) THEN Throw(s)
  ELSE [s EXCEPT !.position = v, !.size = IF v > @ THEN v ELSE @,
                 !.cur = IF v = 0 THEN 1 ELSE BlockAfter(s, v - 1)]

\* setPosition(v)
setPosition(s, v) ==
  IF v > Capacity(s) THEN Throw(s)
  ELSE [s EXCEPT !.position = v, !.size = IF v > @ THEN v ELSE @,
                 !.cur = BlockAfter(s, v)]

\* clear(): the first block is kept with what it holds.
clear(s) ==
  [s EXCEPT !.position = 0, !.size = 0, !.cells = SubSeq(@, 1, s.base), !.cur = 1]

-----------------------------------------------------------------------------
(* Integers as bytes.                                                       *)

\* EncodeZigzag32; -v is computed in Width bits.
EncodeZigzag(v) ==
  IF v < 0 THEN (((-v) % 2^Width) * 2 - 1) % 2^Width ELSE v * 2
DecodeZigzag(u) == IF u % 2 = 1 THEN -(u \div 2) - 1 ELSE u \div 2

\* Mutant: a value of exactly More is taken to fit into one byte.
varintOffByOne(u) ==
  LET v[x \in Unsigned] ==
        IF x > More THEN <<(x % More) + More>> \o v[x \div More] ELSE <<x>>
  IN  v[u]

\* The bytes of writeUint32 and writeUint64.
varint(u) ==
  LET v[x \in Unsigned] ==
        IF x >= More THEN <<(x % More) + More>> \o v[x \div More] ELSE <<x>>
  IN  v[u]

\* writeFint16, writeFuint16 and the wider ones, here of two bytes, in the order
\* setIsLittleEndian has asked for.
fixed(v, little) ==
  LET lo == v % (2 * More)
      hi == v \div (2 * More)
  IN  IF little THEN <<lo, hi>> ELSE <<hi, lo>>
unfixed(bytes, little) ==
  IF little THEN bytes[1] + 2 * More * bytes[2] ELSE bytes[2] + 2 * More * bytes[1]

\* readUint32: how many of the bytes that can be read it uses, and the value
\* it makes of them, of which bits beyond Width are shifted out.
Used(bytes) ==
  LET ends == {i \in DOMAIN bytes : bytes[i] < More \/ i = MaxBytes}
  IN  IF ends = {} THEN Len(bytes) + 1 ELSE CHOOSE i \in ends : \A j \in ends : i <= j
Value(bytes) ==
  LET part[i \in 0..Len(bytes)] ==
        IF i = 0 THEN 0 ELSE part[i - 1] + (bytes[i] % More) * 2^(Group * (i - 1))
  IN  part[Len(bytes)] % 2^Width

\* It reads byte by byte, and what it has read stays read if the next is missing.
Readable(s) == SubSeq(Given(s, Capacity(s) - At(s, s.cur, s.position)), 1, getReadSize(s))
readVarint(s) ==
  IF getReadSize(s) = 0 THEN Throw(s)
  ELSE LET n == Used(Readable(s))
       IN  IF n > getReadSize(s) THEN Throw(read(s, n - 1)) ELSE read(s, n)

-----------------------------------------------------------------------------
(* Operations.                                                              *)

Init ==
  /\ \E base \in Bases, b \in Leftovers :
       ba = [base |-> base, cells |-> [i \in 1..base |-> b], cur |-> 1,
             position |-> 0, size |-> 0, status |-> "works"]
  /\ flat = <<>>
  /\ out = [ok |-> TRUE, excused |-> FALSE]

Ready == ba.status = "works"

\* An exception is caught by the caller, who goes on.
Caught(s) == IF s.status = "null" THEN s ELSE [s EXCEPT !.status = "works"]

\* An operation has left s; ok and excused as in out.
Ends(s, ok, excused) ==
  /\ ba' = Caught(s)
  /\ out' = [ok |-> ok, excused |-> s.status = "null" /\ excused]

Overwrite(f, p, buf) ==
  SubSeq(f, 1, p) \o buf \o SubSeq(f, p + Len(buf) + 1, Len(f))

\* The number of new blocks is one too few for n bytes.
TooFew(s, n) ==
  LET old == getCapacity(s) IN n > old /\ (n - old) % s.base \in 1..old

\* The buffers are written one after the other: an integer, or the length of
\* a string and its bytes.
Put(buf1, buf2, inverse) ==
  /\ Ready
  /\ ba.position + Len(buf1) + Len(buf2) <= MaxSize
  /\ \E b \in Leftovers :
       LET s == write(ba, buf1, b)
       IN  Ends(write(s, buf2, b), inverse, TooFew(ba, Len(buf1)) \/ TooFew(s, Len(buf2)))
  /\ flat' = Overwrite(flat, ba.position, buf1 \o buf2)

writeUint32(u) == Put(varint(u), <<>>, Value(varint(u)) = u /\ Len(varint(u)) <= MaxBytes)
writeInt32(v) ==
  LET u == EncodeZigzag(v) IN Put(varint(u), <<>>, u \in Unsigned /\ DecodeZigzag(u) = v)
writeFint16(v, little) ==
  Put(fixed(v, little), <<>>, unfixed(fixed(v, little), little) = v)
writeStringVint(str) == Put(varint(Len(str)), str, TRUE)

\* Does the reader s', which has given the bytes got, agree with flat?
Get(s, got) ==
  /\ Ends(s, Works(s) => got = SubSeq(flat, ba.position + 1, s.position), FALSE)
  /\ UNCHANGED flat

\* readFint8, readFint16, readFloat and the other reads of n bytes.
readBytes(n) == Ready /\ Get(read(ba, n), Given(ba, n))

readUint32 ==
  Ready /\ LET s == readVarint(ba) IN Get(s, Given(ba, s.position - ba.position))

\* The length of a string, then its bytes: of an empty string none, which
\* looks at the block after the length.
readStringVint ==
  /\ Ready
  /\ LET s == readVarint(ba)
         n == Value(Given(ba, s.position - ba.position))
         t == read(s, n)
     IN  Ends(t, Works(t) => Given(ba, t.position - ba.position)
                               = SubSeq(flat, ba.position + 1, t.position), n = 0)
  /\ UNCHANGED flat

\* The bytes beyond m_size that a new position includes are what is there.
Seek(v) ==
  /\ Ready /\ v <= MaxSize
  /\ Ends(setPosition(ba, v), TRUE, FALSE)
  /\ flat' = IF v \in (ba.size + 1)..Capacity(ba)
             THEN flat \o SubSeq(ba.cells, ba.size + 1, v) ELSE flat

Clear ==
  /\ Ready
  /\ Ends(clear(ba), TRUE, FALSE)
  /\ flat' = <<>>

\* What a look at the n bytes at pos gives, from cell a in block cur on, without
\* moving.
Look(cur, a, n, pos, excused) ==
  /\ Ends(IF cur = Null \/ a + n > Capacity(ba) THEN Crash(ba) ELSE ba,
          excused \/ SubSeq(ba.cells, a + 1, a + n) = SubSeq(flat, pos + 1, pos + n),
          excused)
  /\ UNCHANGED flat

\* read(buf, size, position): starts in the block of m_cur, whatever position
\* is, and m_size - position is unsigned.  toString() is the case of m_position.
readAt(n, pos) ==
  /\ Ready
  /\ \/ /\ pos <= ba.size /\ n > ba.size - pos
        /\ Ends(Throw(ba), TRUE, FALSE)
        /\ UNCHANGED flat
     \/ /\ pos > ba.size \/ n <= ba.size - pos
        /\ Look(ba.cur, At(ba, ba.cur, pos), n, pos,
                pos > ba.size \/ pos \div ba.base # ba.position \div ba.base)

\* getReadBuffers(buffers, len), which SocketStream::write sends from.
getReadBuffers(len) ==
  /\ Ready
  /\ getReadSize(ba) > 0
  /\ LET n == IF len > getReadSize(ba) THEN getReadSize(ba) ELSE len
     IN  Look(ba.cur, At(ba, ba.cur, ba.position), n, ba.position, FALSE)

\* getReadBuffers(buffers, len, position) takes as much as can be read from
\* m_position on.
getReadBuffersAt(len, pos) ==
  /\ Ready
  /\ getReadSize(ba) > 0
  /\ LET n == IF len > getReadSize(ba) THEN getReadSize(ba) ELSE len
     IN  Look(BlockAfter(ba, pos), pos, n, pos, pos > ba.position)

\* SocketStream::read: getWriteBuffers(len), of which recvmsg fills the first
\* bytes, and setPosition behind them; nothing if it fails.
getWriteBuffers(len, got) ==
  /\ Ready
  /\ ba.position + len <= MaxSize
  /\ \E b \in Leftovers :
       LET t == addCapacity(ba, len, b)
           a == At(t, t.cur, t.position)
           filled == [t EXCEPT !.cells = [i \in DOMAIN t.cells |->
                        IF i \in (a + 1)..(a + Len(got)) THEN got[i - a] ELSE @[i]]]
       IN  Ends(IF t.cur = Null \/ a + len > Capacity(t) THEN Crash(t)
                ELSE IF got = <<>> THEN t
                ELSE setPosition(filled, t.position + Len(got)), TRUE, TooFew(ba, len))
  /\ flat' = Overwrite(flat, ba.position, got)

\* writeToFile after i blocks: the bytes left and written so far, the position,
\* and whether the stream has failed on a negative length.
Saving(s) ==
  LET first == s.cur
      after[i \in 0..(Capacity(s) \div s.base)] ==
        IF i = 0 THEN [left |-> getReadSize(s), pos |-> s.position, data |-> <<>>, bad |-> FALSE]
        ELSE LET p == after[i - 1]
                 diff == p.pos % s.base
                 len == (IF p.left > s.base THEN s.base ELSE p.left) - diff
                 a == At(s, first + i - 1, diff)
             IN  IF p.left <= 0 \/ first + i - 1 > Capacity(s) \div s.base THEN p
                 ELSE [left |-> p.left - len, pos |-> p.pos + len, bad |-> p.bad \/ len < 0,
                       data |-> IF p.bad \/ len < 0 THEN p.data
                                ELSE p.data \o SubSeq(s.cells, a + 1, a + len)]
  IN  after[Capacity(s) \div s.base]

\* It is exact from the start of a block on; elsewhere it leaves out the end of
\* the first block and goes past the last.
writeToFile ==
  /\ Ready
  /\ LET excused == ba.position % ba.base # 0
         saved == Saving(ba)
     IN  Ends(IF saved.left > 0 THEN Crash(ba) ELSE ba,
              excused \/ saved.data = SubSeq(flat, ba.position + 1, ba.size), excused)
  /\ UNCHANGED flat

\* readFromFile: the file is written block by block.
readFromFile(data) ==
  LET count == Len(data) \div ba.base + 1
      part(i) == SubSeq(data, (i - 1) * ba.base + 1,
                        IF i = count THEN Len(data) ELSE i * ba.base)
  IN
  /\ Ready
  /\ ba.position + Len(data) <= MaxSize
  /\ \E b \in Leftovers :
       LET done[i \in 0..count] == IF i = 0 THEN ba ELSE write(done[i - 1], part(i), b)
       IN  Ends(done[count], TRUE,
                \E i \in 1..count : TooFew(done[i - 1], Len(part(i))))
  /\ flat' = Overwrite(flat, ba.position, data)

-----------------------------------------------------------------------------

Writes ==
  \/ \E u \in Uints : writeUint32(u)
  \/ \E v \in Ints : writeInt32(v)
  \/ \E v \in Shorts, little \in BOOLEAN : writeFint16(v, little)
  \/ \E str \in Buffers : writeStringVint(str)
  \/ \E len \in 1..MaxSize, got \in Buffers :
       Len(got) <= len /\ getWriteBuffers(len, got)
  \/ \E data \in Buffers : readFromFile(data)

Reads ==
  \/ \E n \in 1..MaxSize : readBytes(n)
  \/ readUint32
  \/ readStringVint
  \/ \E n \in 1..MaxSize, pos \in 0..MaxSize : readAt(n, pos)
  \/ \E n \in 1..MaxSize : getReadBuffers(n)
  \/ \E n \in 1..MaxSize, pos \in 0..MaxSize : getReadBuffersAt(n, pos)
  \/ writeToFile

Next ==
  \/ Writes
  \/ Reads
  \/ \E v \in 0..MaxSize : Seek(v)
  \/ Clear

Spec == Init /\ [][Next]_vars

-----------------------------------------------------------------------------
(* Properties.                                                              *)

\* m_cur is the block of m_position, or null exactly if m_position is at the end
\* of the last block, after every sequence of writes, reads, seeks and clears;
\* and m_position <= m_size <= m_capacity, which are unsigned and subtracted.
CurAtPosition ==
  Ready =>
    /\ ba.position <= ba.size /\ ba.size <= Capacity(ba)
    /\ Capacity(ba) % ba.base = 0
    /\ ba.cur = IF ba.position = Capacity(ba) THEN Null ELSE ba.position \div ba.base + 1

\* The blocks hold the bytes written, in order, whichever way the writes were
\* cut at the ends of blocks and however often the position was set back.
ContentsExact == Ready => SubSeq(ba.cells, 1, ba.size) = flat

\* A read gives the bytes at m_position, over as many blocks as it takes, and
\* buffers and files hold them, except for a read at a position in another block
\* than m_position's, buffers from a position behind it, and a file
\* saved from within a block; and the integer encodings can be inverted on every
\* value of the type, the smallest included, in at most 5 (or 10) bytes.
ReadsExact == out.ok

\* The code follows a null pointer only where addCapacity has added one block
\* too few, because it compares the rest of the division with the capacity that
\* is left; where an empty string is read whose length ends the last block; and
\* in the calls ReadsExact excepts.
CrashesExplained == ba.status = "null" => out.excused
=============================================================================
