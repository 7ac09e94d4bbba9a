----------------------------- MODULE ByteArray -----------------------------
(***************************************************************************)
(* ByteArray (bytearray.cc): bytes in a list of blocks of one size, with a *)
(* pointer to the block of the position, and the variable-length integers  *)
(* written into it.                                                        *)
(*                                                                         *)
(* The blocks are numbered in the order of the list; a turn of a copying   *)
(* loop is a step.  Byte and word are scaled down: a byte has              *)
(* GroupBits + 1 bits (8 in the code), a word Width (32, 64).  Memory that *)
(* nobody has written holds Junk.                                          *)
(***************************************************************************)
EXTENDS Integers, SequencesExt

CONSTANTS
  Base,        \* m_baseSize
  MaxNodes,    \* bound: blocks of the list
  GroupBits,   \* payload bits of a byte of a variable-length integer
  Width,       \* bits of the integer
  Values,      \* the integers that are written, as unsigned numbers
  Data,        \* the strings and the files
  Junk

ASSUME ByteArrayAssumption ==
  /\ Base \in Nat \ {0} /\ MaxNodes \in Nat \ {0}
  /\ GroupBits \in Nat \ {0} /\ Width \in Nat \ {0}
  /\ Values \subseteq 0 .. 2 ^ Width - 1
  /\ Data \subseteq Seq(0 .. 2 ^ (GroupBits + 1) - 1)
  /\ Junk \in 0 .. 2 ^ (GroupBits + 1) - 1
  /\ \A s \in Data : Len(s) < 2 ^ Width
\* Laws of arithmetic, stated for the proofs: no prover knows them.
ASSUME PowersAssumption ==
  \A b \in {2, 2 * 2 ^ GroupBits} :
    b ^ 0 = 1 /\ \A n \in 0 .. Width + GroupBits : b ^ (n + 1) = b * b ^ n

VARIABLES
  m_position, m_size, m_capacity,
  m_nodes,    \* blocks in the list
  m_cur,      \* the block of m_position
  m_endian,   \* "big" or "little"
  mem,        \* the bytes of all blocks
  call,       \* the operation under way and its locals
  got,        \* what the last turn of read() delivered
  result,     \* the last operation that has ended
  crash       \* a null pointer was followed

ba   == <<m_position, m_size, m_capacity, m_nodes, m_cur>>
vars == <<ba, m_endian, mem, call, got, result, crash>>

Cell  == 0 .. MaxNodes * Base - 1
Group == 2 ^ GroupBits
Byte  == 0 .. 2 * Group - 1
Word  == 0 .. 2 ^ Width - 1

\* op: where the call stands; kind: which public function it is; todo: the
\* bytes write() still has to copy and rest those of the calls of write() that
\* follow; size: the bytes read() still has to copy and out those it has
\* delivered; npos, ncap: the locals of the loops; val: the argument; from:
\* the position at the start.
Idle == [op |-> "none", kind |-> "none", npos |-> 0, ncap |-> 0,
         todo |-> << >>, rest |-> << >>, size |-> 0,
         out |-> << >>, val |-> 0, from |-> 0]
NoResult == [kind |-> "none", val |-> 0, out |-> << >>, from |-> 0]

\* ByteArray::ByteArray
Init ==
  /\ m_position = 0 /\ m_size = 0 /\ m_capacity = Base
  /\ m_nodes = 1 /\ m_cur = 0 /\ m_endian = "big"
  /\ mem = [i \in Cell |-> Junk]
  /\ call = Idle /\ got = << >> /\ result = NoResult /\ crash = "none"

Ready == call = Idle /\ crash = "none"
getReadSize == m_size - m_position
getCapacity == m_capacity - m_position
null == -1
\* Node::next
next(n) == IF n + 1 < m_nodes THEN n + 1 ELSE null

-----------------------------------------------------------------------------
(* Integers.  Variable-length ones have the low groups first and the flag  *)
(* bit on all bytes but the last; fixed ones are swapped when m_endian is  *)
(* not the machine's order, which is taken to be little.                   *)

\* writeUint32, writeUint64: while(value >= 0x80)
Encode[v \in Word] ==
  IF v >= Group THEN <<Group + (v % Group)>> \o Encode[v \div Group]
                ELSE <<v>>

\* readUint32, readUint64 of the bytes s: for(i = 0; i < Width; i += 7)
Decode(s) ==
  LET d[i \in 0 .. Len(s)] ==
        IF i = Len(s) \/ i * GroupBits >= Width THEN 0
        ELSE ((s[i + 1] % Group) * 2 ^ (i * GroupBits)
               + (IF s[i + 1] >= Group THEN d[i + 1] ELSE 0)) % 2 ^ Width
  IN d[0]
\* readUint takes another byte after s.
Continues(s) ==
  s = << >> \/ (Last(s) >= Group /\ Len(s) * GroupBits < Width)

\* Mutation: a negative number is doubled and nothing more.
EncodeZigzagEven(v) == IF v < 0 THEN (-v * 2) % 2 ^ Width ELSE v * 2
\* EncodeZigzag32, EncodeZigzag64, in the arithmetic of the machine.
EncodeZigzag(v) == IF v < 0 THEN (-v * 2 - 1) % 2 ^ Width ELSE v * 2
\* (v >> 1) ^ -(v & 1), read as a signed number.
DecodeZigzag(v) == IF v % 2 = 0 THEN v \div 2 ELSE -(v \div 2) - 1
Signed(v) == IF v >= 2 ^ (Width - 1) THEN v - 2 ^ Width ELSE v

CeilDiv(a, b) == (a + b - 1) \div b
FixedLen == CeilDiv(Width, GroupBits + 1)   \* sizeof
byteswap(s) == IF m_endian = "little" THEN s ELSE Reverse(s)
Fixed(v) == byteswap([i \in 1 .. FixedLen |->
                        (v \div (2 * Group) ^ (i - 1)) % (2 * Group)])
Unfixed(s) ==
  LET t == byteswap(s)
      d[i \in 0 .. Len(s)] ==
        IF i = 0 THEN 0 ELSE d[i - 1] + t[i] * (2 * Group) ^ (i - 1)
  IN d[Len(s)]

setIsLittleEndian ==
  /\ Ready
  /\ m_endian' \in {"little", "big"} \ {m_endian}
  /\ result' = NoResult
  /\ UNCHANGED <<ba, mem, call, got, crash>>

-----------------------------------------------------------------------------
(* Capacity and position.                                                  *)

\* addCapacity(size): whole blocks at the end of the list; the null m_cur of a
\* full array becomes the first of them.
Blocks(size) == IF getCapacity >= size THEN 0
                ELSE CeilDiv(size - getCapacity, Base)
\* Mutation: m_cur is left alone.
CurAfterLeft(size) == m_cur
CurAfter(size) == IF Blocks(size) > 0 /\ getCapacity = 0 THEN m_nodes
                                                         ELSE m_cur
addCapacity(size) ==
  /\ m_nodes + Blocks(size) <= MaxNodes
  /\ m_nodes' = m_nodes + Blocks(size)
  /\ m_capacity' = m_capacity + Blocks(size) * Base
  /\ m_cur' = CurAfter(size)

\* The block of the position v: while(v > size) next; if(v == size) next.
NodeOf(v) ==
  LET n == IF v = 0 THEN 0 ELSE (v - 1) \div Base
  IN IF v - n * Base = Base THEN next(n) ELSE n

setPosition(v) ==
  /\ Ready
  /\ v <= m_capacity
  /\ m_position' = v
  /\ m_size' = IF v > m_size THEN v ELSE m_size
  /\ m_cur' = NodeOf(v)
  /\ got' = << >> /\ result' = NoResult
  /\ UNCHANGED <<m_capacity, m_nodes, m_endian, mem, call, crash>>

clear ==
  /\ Ready
  /\ m_position' = 0 /\ m_size' = 0 /\ m_capacity' = Base
  /\ m_nodes' = 1 /\ m_cur' = 0
  /\ got' = << >> /\ result' = NoResult
  /\ mem' = [i \in Cell |-> IF i < Base THEN mem[i] ELSE Junk]
  /\ UNCHANGED <<m_endian, call, crash>>

-----------------------------------------------------------------------------
(* write: every writing function comes down to calls of it.                *)

Npos == m_position % Base

\* A public writing function: s in one call of write(), then rest.
Writes(kind, v, s, rest) ==
  /\ Ready
  /\ call' = [Idle EXCEPT !.op = "more", !.kind = kind, !.val = v,
                          !.todo = s, !.rest = rest, !.from = m_position]
  /\ got' = << >> /\ result' = NoResult
  /\ UNCHANGED <<ba, m_endian, mem, crash>>

writeUint(v)   == Writes("uint", v, Encode[v], << >>)
writeInt(v)    == Writes("int", v, Encode[EncodeZigzag(v)], << >>)
writeFuint(v)  == Writes("fixed", v, Fixed(v), << >>)
writeString(s) == Writes("string", s, Encode[Len(s)], <<s>>)
writeStringWithoutLength(s) == Writes("bytes", s, s, << >>)

\* readFromFile: blocks of m_baseSize until the end of the file; the read that
\* meets the end may deliver nothing.
Chunk(s, i) == SubSeq(s, (i - 1) * Base + 1,
                      IF i * Base < Len(s) THEN i * Base ELSE Len(s))
readFromFile(s) ==
  Writes("bytes", s, Chunk(s, 1),
         [i \in 1 .. Len(s) \div Base |-> Chunk(s, i + 1)])

\* write(buf, size) up to the loop; write(buf, 0) returns.
WriteBegins ==
  /\ call.op = "more" /\ call.todo # << >>
  /\ addCapacity(Len(call.todo))
  /\ crash' = IF m_cur' = null THEN "write" ELSE crash
  /\ call' = [call EXCEPT !.op = "write", !.npos = Npos, !.ncap = Base - Npos]
  /\ UNCHANGED <<m_position, m_size, m_endian, mem, got, result>>
WriteNothing ==
  /\ call.op = "more" /\ call.todo = << >>
  /\ call' = [call EXCEPT !.op = "wrote"]
  /\ UNCHANGED <<ba, m_endian, mem, got, result, crash>>

\* memcpy of n bytes to the current block.
Store(n) ==
  mem' = [i \in Cell |->
            LET k == i - (m_cur * Base + call.npos) IN
            IF k \in 0 .. n - 1 THEN call.todo[k + 1] ELSE mem[i]]

\* The loop: a block is filled, or the rest is copied and m_size follows.
WriteFills ==
  /\ call.op = "write" /\ call.ncap < Len(call.todo) /\ crash = "none"
  /\ Store(call.ncap)
  /\ m_position' = m_position + call.ncap
  /\ m_cur' = next(m_cur)
  /\ crash' = IF next(m_cur) = null THEN "write" ELSE crash
  /\ call' = [call EXCEPT !.todo = SubSeq(@, call.ncap + 1, Len(@)),
                          !.npos = 0, !.ncap = Base]
  /\ UNCHANGED <<m_size, m_capacity, m_nodes, m_endian, got, result>>
WriteEnds ==
  LET n == Len(call.todo) IN
  /\ call.op = "write" /\ call.ncap >= n /\ crash = "none"
  /\ Store(n)
  /\ m_position' = m_position + n
  /\ m_cur' = IF Base = call.npos + n THEN next(m_cur) ELSE m_cur
  /\ m_size' = IF m_position' > m_size THEN m_position' ELSE m_size
  /\ call' = [call EXCEPT !.op = "wrote"]
  /\ UNCHANGED <<m_capacity, m_nodes, m_endian, got, result, crash>>

\* The next call of write() of the same function, or its end.
Wrote ==
  /\ call.op = "wrote"
  /\ \/ /\ call.rest # << >>
        /\ call' = [call EXCEPT !.op = "more", !.todo = Head(call.rest),
                                !.rest = Tail(@)]
        /\ UNCHANGED result
     \/ /\ call.rest = << >>
        /\ call' = Idle
        /\ result' = [NoResult EXCEPT !.kind = call.kind, !.val = call.val,
                                      !.from = call.from]
  /\ UNCHANGED <<ba, m_endian, mem, got, crash>>

-----------------------------------------------------------------------------
(* read                                                                    *)

\* A public reading function, before its first call of read().
Reads(kind, size) ==
  /\ Ready
  /\ call' = [Idle EXCEPT !.op = "back", !.kind = kind, !.size = size]
  /\ got' = << >> /\ result' = NoResult
  /\ UNCHANGED <<ba, m_endian, mem, crash>>

readUint   == Reads("uint", 1)
readFuint  == Reads("fixed", FixedLen)
readString == Reads("string", 1)

\* read(buf, size) up to the loop: m_cur is followed for 0 bytes too.
ReadBegins ==
  /\ call.op = "back" /\ call.size <= getReadSize
  /\ crash' = IF m_cur # null THEN crash
              ELSE IF call.size = 0 THEN "empty" ELSE "read"
  /\ call' = [call EXCEPT !.op = "read", !.npos = Npos, !.ncap = Base - Npos]
  /\ got' = << >>
  /\ UNCHANGED <<ba, m_endian, mem, result>>
\* throw std::out_of_range: what was read before stays read.
ReadThrows ==
  /\ call.op = "back" /\ call.size > getReadSize
  /\ call' = Idle
  /\ got' = << >>
  /\ UNCHANGED <<ba, m_endian, mem, result, crash>>

\* Mutation: the block is copied from its start.
LoadFromStart(cur, npos, n) == [k \in 1 .. n |-> mem[cur * Base + k - 1]]
Load(cur, npos, n) == [k \in 1 .. n |-> mem[cur * Base + npos + k - 1]]

ReadDrains ==
  /\ call.op = "read" /\ call.ncap < call.size /\ crash = "none"
  /\ got' = Load(m_cur, call.npos, call.ncap)
  /\ m_position' = m_position + call.ncap
  /\ m_cur' = next(m_cur)
  /\ crash' = IF next(m_cur) = null THEN "read" ELSE crash
  /\ call' = [call EXCEPT !.size = @ - call.ncap, !.npos = 0, !.ncap = Base,
                          !.out = @ \o got']
  /\ UNCHANGED <<m_size, m_capacity, m_nodes, m_endian, mem, result>>

\* What a function reads after out: one byte of a number or of a length, then
\* as many bytes as the length says.
More(kind, out) == kind \in {"uint", "string"} /\ Continues(out)

ReadEnds ==
  LET out == call.out \o Load(m_cur, call.npos, call.size) IN
  /\ call.op = "read" /\ call.ncap >= call.size /\ crash = "none"
  /\ got' = Load(m_cur, call.npos, call.size)
  /\ m_position' = m_position + call.size
  /\ m_cur' = IF call.size > 0 /\ Base = call.npos + call.size
              THEN next(m_cur) ELSE m_cur
  /\ \/ /\ More(call.kind, out)
        /\ call' = [call EXCEPT !.op = "back", !.out = out, !.size = 1]
        /\ UNCHANGED result
     \/ /\ ~More(call.kind, out) /\ call.kind = "string"
        /\ call' = [call EXCEPT !.op = "back", !.kind = "bytes",
                                !.out = << >>, !.size = Decode(out)]
        /\ UNCHANGED result
     \/ /\ ~More(call.kind, out) /\ call.kind # "string"
        /\ call' = Idle
        /\ result' = [NoResult EXCEPT !.kind = "read", !.out = out]
  /\ UNCHANGED <<m_size, m_capacity, m_nodes, m_endian, mem, crash>>
-----------------------------------------------------------------------------
(* The functions that hand out memory and leave the array alone, by the    *)
(* cells they hand out; Null when they follow a null pointer.              *)

Null == <<null>>
Smaller(a, b) == IF a < b THEN a ELSE b

\* len cells from the byte npos of the block cur on.
View(cur, npos, len) ==
  IF cur \notin 0 .. m_nodes - 1 \/ cur * Base + npos + len > m_capacity
  THEN Null
  ELSE [k \in 1 .. len |-> cur * Base + npos + k - 1]

\* toString: read(size, m_position), for an array that is not at its end.
toString == IF getReadSize = 0 THEN << >> ELSE View(m_cur, Npos, getReadSize)
\* read(buf, size, position) const: from m_cur, wherever the position is.
readAt(size, position) == View(m_cur, position % Base, size)
\* getReadBuffers(buffers, len)
getReadBuffers(len) ==
  LET n == Smaller(len, getReadSize)
  IN IF n = 0 THEN << >> ELSE View(m_cur, Npos, n)
\* getReadBuffers(buffers, len, position): len is cut to what there is to read
\* from m_position on.
getReadBuffersAt(len, position) ==
  LET n == Smaller(len, getReadSize)
  IN IF n = 0 THEN << >> ELSE View(position \div Base, position % Base, n)

\* Mutation: the offset in the block is not taken off.
ShareWhole(size, diff) == Smaller(size, Base)
\* writeToFile: a turn for each block.  A block's share is what is left, at
\* most a block, less the offset in the block.
Share(size, diff) == Smaller(size, Base) - diff
\* ofs.write of len bytes of one block: past its end is no part of the array.
Within(cur, npos, len) == IF npos + len > Base THEN Null
                          ELSE View(cur, npos, len)
\* A share below 0 sets the stream's badbit: what follows is not written.
FileTurn(file, cur) ==
  LET diff == file.pos % Base
      len == Share(file.size, diff)
  IN IF file.size <= 0 THEN file
     ELSE [pos |-> file.pos + len, size |-> file.size - len,
           good |-> file.good /\ len >= 0,
           out |-> IF file.good /\ len > 0
                   THEN file.out \o Within(cur, diff, len) ELSE file.out]
writeToFile ==
  LET turns == m_nodes - m_cur
      file[k \in 0 .. turns] ==
        IF k = 0 THEN [pos |-> m_position, size |-> getReadSize,
                       good |-> TRUE, out |-> << >>]
        ELSE FileTurn(file[k - 1], m_cur + k - 1)
      end == file[turns]
  IN IF end.size > 0 THEN Null ELSE end.out

\* getWriteBuffers(buffers, len) makes room first.
getWriteBuffers(len) ==
  /\ Ready /\ len > 0
  /\ addCapacity(len)
  /\ result' = [NoResult EXCEPT !.kind = "room", !.val = len]
  /\ got' = << >>
  /\ UNCHANGED <<m_position, m_size, m_endian, mem, call, crash>>
WriteBuffers(len) == View(m_cur, Npos, len)

-----------------------------------------------------------------------------
Next ==
  \/ clear \/ setIsLittleEndian
  \/ \E v \in 0 .. MaxNodes * Base : setPosition(v)
  \/ \E v \in Values :
       writeUint(v) \/ writeInt(Signed(v)) \/ writeFuint(v)
  \/ \E s \in Data :
       writeString(s) \/ writeStringWithoutLength(s) \/ readFromFile(s)
  \/ WriteBegins \/ WriteNothing \/ WriteFills \/ WriteEnds \/ Wrote
  \/ readUint \/ readFuint \/ readString
  \/ ReadBegins \/ ReadThrows \/ ReadDrains \/ ReadEnds
  \/ \E n \in 1 .. Base : getWriteBuffers(n)

Spec == Init /\ [][Next]_vars

-----------------------------------------------------------------------------
(* Properties                                                              *)

\* Reading and writing follow no null pointer but for an empty read at the end
\* of the last block (bytearray.cc:385), as readStringF16 and its like do for
\* an empty string.
OnlyEmptyReadCrashes == crash \in {"none", "empty"}

Stored(from) == [k \in 1 .. m_position - from |-> mem[from + k - 1]]
Number(s) == /\ ~Continues(s)
             /\ \A n \in 0 .. Len(s) - 1 : Continues(SubSeq(s, 1, n))
\* What a writing function has put in front of the position is what the
\* reading function of the same name makes of it, and no byte more or less,
\* over blocks and for the largest and the smallest number too.
WrittenReadsBack ==
  LET s == Stored(result.from)
      v == result.val
  IN /\ result.kind = "uint" => Number(s) /\ Decode(s) = v
     /\ result.kind = "int" => Number(s) /\ DecodeZigzag(Decode(s)) = v
     /\ result.kind = "fixed" => Len(s) = FixedLen /\ Unfixed(s) = v
     /\ result.kind = "bytes" => s = v
     /\ result.kind = "string" =>
          \E n \in 1 .. Len(s) :
            /\ Number(SubSeq(s, 1, n))
            /\ Decode(SubSeq(s, 1, n)) = Len(v)
            /\ SubSeq(s, n + 1, Len(s)) = v

From(p, n) == [k \in 1 .. n |-> p + k - 1]
\* The string, the buffers and the file that the array hands out are the bytes
\* from the asked position on, in order and to the end, over blocks.  Left out
\* is what the code gets wrong: a position outside the current block
\* (bytearray.cc:416), buffers asked from ahead of m_position
\* (bytearray.cc:588), a file written from inside a block with less than a
\* block to write (bytearray.cc:471).
ViewsExact ==
  Ready =>
    /\ toString = From(m_position, getReadSize)
    /\ \A n \in 1 .. m_capacity :
         LET len == Smaller(n, getReadSize) IN
         /\ getReadBuffers(n) = From(m_position, len)
         /\ \A p \in 0 .. m_position : getReadBuffersAt(n, p) = From(p, len)
         /\ \A p \in 0 .. m_size - n :
              p \div Base = m_cur => readAt(n, p) = From(p, n)
    /\ Npos = 0 \/ getReadSize >= Base =>
         writeToFile = From(m_position, getReadSize)
    /\ result.kind = "room" =>
         WriteBuffers(result.val) = From(m_position, result.val)

\* The blocks behave as one tape of bytes: every turn of a loop writes or
\* reads the next bytes at the position (ByteTape).
Length == IF m_position > m_size THEN m_position ELSE m_size
Tape == INSTANCE ByteTape WITH
          MaxLen <- MaxNodes * Base, position <- m_position,
          tape <- [i \in 1 .. Length |-> mem[i - 1]]
ByteTapeSpec == Tape!Spec
=============================================================================
