-------------------------- MODULE ByteArrayProofs --------------------------
(***************************************************************************)
(* The blocks of ByteArray as one tape, for any size and number of blocks, *)
(* any widths and any data: no null pointer is followed, what is written   *)
(* reads back, what is handed out are the right bytes.                     *)
(*                                                                         *)
(* The integers are recursive definitions.  What they compute is proved    *)
(* from the least element of a set of counterexamples and from finite      *)
(* recursion, without an induction rule that takes a predicate.            *)
(***************************************************************************)
EXTENDS ByteArray, WellFoundedInduction, SequenceTheorems, TLAPS

-----------------------------------------------------------------------------
(* Induction and recursion, for sets and functions.                        *)

(* Induction, for sets.                                                    *)
LEMMA Least ==
  ASSUME NEW T, T \subseteq Nat, T # {}
  PROVE  \E x \in T : \A y \in T : x <= y
<1>1. IsWellFoundedOn(OpToRel(<, Nat), Nat)
  BY NatLessThanWellFounded
<1>2. PICK x \in T : \A y \in T : ~(<<y, x>> \in OpToRel(<, Nat))
  BY <1>1, WFMin
<1>3. \A y \in T : ~(y < x)
  BY <1>2 DEF OpToRel
<1> QED BY <1>3

(* Induction up to n, as a fact about the set of the numbers for which a   *)
(* statement holds: the rule itself takes the statement as a parameter.    *)
LEMMA UpTo ==
  ASSUME NEW N \in Nat, NEW T, 0 \in T,
         \A n \in 0 .. N - 1 : n \in T => n + 1 \in T
  PROVE  0 .. N \subseteq T
<1> DEFINE Bad == {n \in 0 .. N : n \notin T}
<1> SUFFICES ASSUME Bad # {} PROVE FALSE
  OBVIOUS
<1>0. Bad \subseteq Nat
  OBVIOUS
<1>1. PICK x \in Bad : \A y \in Bad : x <= y
  <2> HIDE DEF Bad
  <2> QED BY <1>0, Least
<1>2. x # 0 /\ x - 1 \in 0 .. N - 1 /\ x - 1 \notin Bad
  BY <1>1
<1>3. x - 1 \in T
  BY <1>2
<1> QED BY <1>1, <1>2, <1>3

(* The same with all smaller numbers as the hypothesis.                    *)
LEMMA StrongUpTo ==
  ASSUME NEW N \in Nat, NEW T,
         \A n \in 0 .. N : (\A k \in 0 .. n - 1 : k \in T) => n \in T
  PROVE  0 .. N \subseteq T
<1> DEFINE Bad == {n \in 0 .. N : n \notin T}
<1> SUFFICES ASSUME Bad # {} PROVE FALSE
  OBVIOUS
<1>0. Bad \subseteq Nat
  OBVIOUS
<1>1. PICK x \in Bad : \A y \in Bad : x <= y
  <2> HIDE DEF Bad
  <2> QED BY <1>0, Least
<1>2. \A k \in 0 .. x - 1 : k \in T
  BY <1>1
<1> QED BY <1>1, <1>2

(* A function is defined by recursion on a smaller argument.               *)
Below(N, h) == \A n \in 1 .. N : h[n] < n
Recurs(f, N, start, h, step) ==
  f[0] = start /\ \A n \in 1 .. N : f[n] = step[n][f[h[n]]]

(* A function on 0 .. N exists whose value at n is made of an earlier      *)
(* value: this is what makes the recursive definitions of ByteArray mean   *)
(* something.                                                              *)
LEMMA Recursion ==
  ASSUME NEW N \in Nat, NEW D, NEW start \in D,
         NEW h \in [1 .. N -> Nat], Below(N, h),
         NEW step \in [1 .. N -> [D -> D]]
  PROVE  \E f \in [0 .. N -> D] : Recurs(f, N, start, h, step)
<1> DEFINE Good(f, k) == f[0] = start /\ \A n \in 1 .. k : f[n] = step[n][f[h[n]]]
           T == {k \in 0 .. N : \E f \in [0 .. k -> D] : Good(f, k)}
<1> USE DEF Below
<1>1. 0 \in T
  <2> DEFINE f0 == [i \in 0 .. 0 |-> start]
  <2>1. f0 \in [0 .. 0 -> D] /\ Good(f0, 0)
    OBVIOUS
  <2> HIDE DEF f0, Good
  <2> QED BY <2>1
<1>2. ASSUME NEW k \in 0 .. N - 1, k \in T PROVE k + 1 \in T
  <2>1. PICK f \in [0 .. k -> D] : Good(f, k)
    BY <1>2
  <2> DEFINE new == step[k + 1][f[h[k + 1]]]
             g == [i \in 0 .. k + 1 |-> IF i = k + 1 THEN new ELSE f[i]]
  <2>2. h[k + 1] \in 0 .. k /\ step[k + 1] \in [D -> D] /\ k + 1 \in 1 .. N
    OBVIOUS
  <2>3. f[h[k + 1]] \in D
    BY <2>2
  <2>4. new \in D
    BY <2>2, <2>3
  <2> HIDE DEF new
  <2>5. g \in [0 .. k + 1 -> D]
    BY <2>4
  <2>6. \A i \in 0 .. k : g[i] = f[i]
    OBVIOUS
  <2>7. g[k + 1] = step[k + 1][g[h[k + 1]]]
    BY <2>2, <2>6 DEF new
  <2>8. ASSUME NEW n \in 1 .. k PROVE g[n] = step[n][g[h[n]]]
    <3>1. h[n] \in 0 .. k /\ n \in 1 .. N
      OBVIOUS
    <3> QED BY <2>1, <2>6, <3>1
  <2> HIDE DEF g
  <2>9. Good(g, k + 1)
    BY <2>1, <2>6, <2>7, <2>8
  <2>10. k + 1 \in 0 .. N
    OBVIOUS
  <2> HIDE DEF Good
  <2> QED BY <2>5, <2>9, <2>10
<1>3. N \in T
  <2> HIDE DEF T
  <2>1. 0 .. N \subseteq T
    BY <1>1, <1>2, UpTo
  <2> QED BY <2>1
<1> QED BY <1>3 DEF Recurs

(* Powers of two.                                                          *)
LEMMA GroupNat == Group \in Nat \ {0} /\ Group >= 2
<1> DEFINE T == {k \in Nat : 2 ^ k \in Nat \ {0}}
<1>1. 0 \in T
  BY PowersAssumption
<1>2. ASSUME NEW k \in 0 .. GroupBits - 1, k \in T PROVE k + 1 \in T
  <2>1. 2 ^ (k + 1) = 2 * 2 ^ k
    BY PowersAssumption, ByteArrayAssumption
  <2> QED BY <2>1, <1>2
<1>3. GroupBits - 1 \in T
  <2> HIDE DEF T
  <2>1. 0 .. GroupBits \subseteq T
    BY <1>1, <1>2, UpTo, ByteArrayAssumption
  <2> QED BY <2>1, ByteArrayAssumption
<1>4. 2 ^ ((GroupBits - 1) + 1) = 2 * 2 ^ (GroupBits - 1)
  BY PowersAssumption, ByteArrayAssumption
<1>5. (GroupBits - 1) + 1 = GroupBits
  BY ByteArrayAssumption
<1> QED BY <1>3, <1>4, <1>5 DEF Group

(* Powers of two, as far as a word reaches.                                *)
LEMMA Power ==
  ASSUME NEW b \in {2, 2 * Group}, NEW n \in 0 .. Width + GroupBits
  PROVE  /\ b ^ 0 = 1
         /\ b ^ (n + 1) = b * b ^ n
         /\ b ^ n \in Nat \ {0}
<1> DEFINE T == {k \in Nat : b ^ k \in Nat \ {0}}
<1>0. b ^ 0 = 1 /\ \A k \in 0 .. Width + GroupBits : b ^ (k + 1) = b * b ^ k
  BY PowersAssumption DEF Group
<1>1. 0 \in T
  BY <1>0
<1>2. ASSUME NEW k \in 0 .. n - 1, k \in T PROVE k + 1 \in T
  <2>1. b ^ (k + 1) = b * b ^ k /\ b \in Nat \ {0}
    BY <1>0, GroupNat, ByteArrayAssumption
  <2>2. b ^ k \in Nat \ {0}
    BY <1>2
  <2>3. \A x, y \in Nat \ {0} : x * y \in Nat \ {0}
    OBVIOUS
  <2> QED BY <2>1, <2>2, <2>3
<1>3. n \in T
  <2> HIDE DEF T
  <2>1. 0 .. n \subseteq T
    BY <1>1, <1>2, UpTo, ByteArrayAssumption
  <2> QED BY <2>1, ByteArrayAssumption
<1> QED BY <1>0, <1>3

-----------------------------------------------------------------------------
(* Words and variable-length integers.                                     *)

(* Division with remainder.                                                *)
LEMMA Divide ==
  ASSUME NEW a \in Nat, NEW b \in Nat \ {0}
  PROVE  /\ a = b * (a \div b) + (a % b)
         /\ a \div b \in Nat
         /\ a % b \in 0 .. b - 1
<1>1. a \in Int /\ b \in Int /\ b > 0
  OBVIOUS
<1>2. a = b * (a \div b) + (a % b)
  BY <1>1
<1> QED BY <1>2

(* while(value >= 0x80): the value becomes smaller.                        *)
LEMMA DivideBelow ==
  ASSUME NEW a \in Nat \ {0}, NEW b \in Nat, b >= 2
  PROVE  a \div b < a
<1>1. a = b * (a \div b) + (a % b) /\ a \div b \in Nat /\ a % b \in 0 .. b - 1
  <2>1. b \in Nat \ {0} /\ a \in Nat
    OBVIOUS
  <2> QED BY <2>1, Divide
<1> DEFINE q == a \div b
<1> HIDE DEF q
<1>2. q \in Nat /\ a >= b * q
  BY <1>1 DEF q
<1>3. b * q >= 2 * q
  BY <1>2
<1> QED BY <1>2, <1>3 DEF q

(* The words are the numbers below 2 ^ Width.                              *)
LEMMA WordNat == /\ 2 ^ Width \in Nat \ {0}
                 /\ Word \subseteq Nat
                 /\ Byte \subseteq Nat
<1>1. 2 ^ Width \in Nat \ {0}
  BY Power, ByteArrayAssumption
<1> QED BY <1>1, GroupNat DEF Word, Byte

(* The loop of writeUint32 and writeUint64 (bytearray.cc) ends: Encode     *)
(* satisfies its equation for every word and yields bytes.                 *)
LEMMA EncodeIs ==
  /\ Encode = [v \in Word |->
                IF v >= Group THEN <<Group + (v % Group)>> \o Encode[v \div Group]
                              ELSE <<v>>]
  /\ Encode \in [Word -> Seq(Byte)]
<1> DEFINE N == 2 ^ Width - 1
           D == Seq(Byte)
           h == [n \in 1 .. N |-> n \div Group]
           step == [n \in 1 .. N |-> [x \in D |->
                     IF n >= Group THEN <<Group + (n % Group)>> \o x ELSE <<n>>]]
<1>1. N \in Nat /\ Word = 0 .. N
  BY WordNat DEF Word
<1>2. ASSUME NEW n \in 1 .. N
      PROVE  /\ n \div Group \in Nat /\ n \div Group < n
             /\ Group + (n % Group) \in Byte
             /\ n < Group => n \in Byte
  <2> HIDE DEF N
  <2>1. n \in Nat /\ n > 0
    BY <1>1
  <2>2. n \div Group < n
    BY <2>1, GroupNat, DivideBelow
  <2>3. n \div Group \in Nat /\ n % Group \in 0 .. Group - 1
    BY <2>1, GroupNat, Divide
  <2> QED BY <2>1, <2>2, <2>3, GroupNat DEF Byte
<1>3. <<0>> \in D
  BY GroupNat DEF Byte
<1> HIDE DEF N
<1>4. h \in [1 .. N -> Nat] /\ Below(N, h)
  BY <1>2 DEF Below
<1>5. step \in [1 .. N -> [D -> D]]
  <2> SUFFICES ASSUME NEW n \in 1 .. N, NEW x \in D
               PROVE  (IF n >= Group THEN <<Group + (n % Group)>> \o x ELSE <<n>>) \in D
    OBVIOUS
  <2>1. <<Group + (n % Group)>> \o x \in D
    BY <1>2
  <2>2. n < Group => <<n>> \in D
    BY <1>2
  <2> QED BY <2>1, <2>2, <1>1, GroupNat
<1>6. PICK f \in [0 .. N -> D] :
         /\ f[0] = <<0>>
         /\ \A n \in 1 .. N : f[n] = step[n][f[h[n]]]
  <2> DEFINE start == <<0>>
  <2>1. start \in D
    BY <1>3
  <2> HIDE DEF h, step, D, start
  <2>2. \E f \in [0 .. N -> D] : Recurs(f, N, start, h, step)
    BY <1>1, <2>1, <1>4, <1>5, Recursion
  <2> QED BY <2>2 DEF start, Recurs
<1>7. ASSUME NEW v \in 0 .. N
      PROVE  f[v] = IF v >= Group THEN <<Group + (v % Group)>> \o f[v \div Group]
                                  ELSE <<v>>
  <2>1. CASE v = 0
    BY <2>1, <1>6, GroupNat
  <2>2. CASE v # 0
    <3>1. v \in 1 .. N
      BY <2>2, <1>1
    <3>4. h[v] = v \div Group
      BY <3>1
    <3>5. f[v] = step[v][f[h[v]]]
      <4> HIDE DEF step, h
      <4> QED BY <3>1, <1>6
    <3>2. f[v] = step[v][f[v \div Group]] /\ v \div Group \in 0 .. N
      <4> HIDE DEF step, h
      <4> QED BY <3>1, <3>4, <3>5, <1>1, <1>2
    <3>3. f[v \div Group] \in D
      BY <3>2
    <3> QED BY <3>1, <3>2, <3>3
  <2> QED BY <2>1, <2>2
<1>8. f = [v \in Word |->
            IF v >= Group THEN <<Group + (v % Group)>> \o f[v \div Group]
                          ELSE <<v>>]
  BY <1>1, <1>6, <1>7
<1>9. Encode = [v \in Word |->
                IF v >= Group THEN <<Group + (v % Group)>> \o Encode[v \div Group]
                              ELSE <<v>>]
  BY <1>8, Zenon DEF Encode
<1>10. ASSUME NEW v \in Word PROVE Encode[v] \in Seq(Byte)
  <2> DEFINE T == {v2 \in 0 .. N : Encode[v2] \in Seq(Byte)}
  <2>1. ASSUME NEW n \in 0 .. N, \A k \in 0 .. n - 1 : k \in T PROVE n \in T
    <3>1. n \in Word
      BY <1>1
    <3>2. Encode[n] = IF n >= Group THEN <<Group + (n % Group)>> \o Encode[n \div Group]
                              ELSE <<n>>
      BY <3>1, <1>9
    <3>3. CASE n < Group
      <4>1. n \in Byte
        BY <1>1, <3>3, GroupNat DEF Byte
      <4>2. Encode[n] = <<n>>
        BY <3>2, <3>3, GroupNat, <1>1
      <4>3. <<n>> \in Seq(Byte)
        BY <4>1
      <4> QED BY <4>2, <4>3
    <3>4. CASE n >= Group
      <4>1. n \in 1 .. N
        BY <3>4, GroupNat, <1>1
      <4>2. n \div Group \in 0 .. n - 1 /\ Group + (n % Group) \in Byte
        BY <4>1, <1>2
      <4>3. Encode[n \div Group] \in Seq(Byte)
        BY <4>2, <2>1
      <4>4. Encode[n] = <<Group + (n % Group)>> \o Encode[n \div Group]
        BY <3>2, <3>4
      <4>5. <<Group + (n % Group)>> \in Seq(Byte)
        BY <4>2
      <4>6. Encode[n] \in Seq(Byte)
        BY <4>3, <4>4, <4>5
      <4> QED BY <4>6
    <3> QED BY <3>3, <3>4, <1>1, GroupNat
  <2> HIDE DEF T
  <2>2. 0 .. N \subseteq T
    BY <1>1, <2>1, StrongUpTo
  <2> QED BY <2>2, <1>1 DEF T
<1> QED BY <1>9, <1>10

-----------------------------------------------------------------------------
(* Zigzag and fixed integers.                                              *)

(* Half of the words are negative as signed numbers.                       *)
LEMMA HalfWord == /\ 2 ^ (Width - 1) \in Nat \ {0}
                  /\ 2 ^ Width = 2 * 2 ^ (Width - 1)
<1>1. Width - 1 \in 0 .. Width + GroupBits /\ (Width - 1) + 1 = Width
  BY ByteArrayAssumption
<1>2. 2 ^ ((Width - 1) + 1) = 2 * 2 ^ (Width - 1) /\ 2 ^ (Width - 1) \in Nat \ {0}
  BY <1>1, Power
<1> QED BY <1>1, <1>2

(* Signed numbers become words and back.                                   *)
LEMMA Zigzag ==
  ASSUME NEW w \in Word
  PROVE  /\ Signed(w) \in Int
         /\ EncodeZigzag(Signed(w)) \in Word
         /\ DecodeZigzag(EncodeZigzag(Signed(w))) = Signed(w)
<1> DEFINE H == 2 ^ (Width - 1)
           W == 2 ^ Width
           v == Signed(w)
<1>1. H \in Nat \ {0} /\ W = 2 * H /\ w \in 0 .. W - 1
  BY HalfWord DEF Word
<1>2. v = IF w >= H THEN w - W ELSE w
  BY DEF Signed
<1> HIDE DEF H, W, v
<1>3. v \in -H .. H - 1
  BY <1>1, <1>2
<1>4. CASE v < 0
  <2>1. -v * 2 - 1 \in 0 .. W - 1
    BY <1>1, <1>3, <1>4
  <2>2. (-v * 2 - 1) % W = -v * 2 - 1
    BY <2>1, <1>1
  <2>3. EncodeZigzag(v) = -v * 2 - 1
    BY <2>2, <1>4 DEF EncodeZigzag, W
  <2>4. (-v * 2 - 1) % 2 = 1 /\ (-v * 2 - 1) \div 2 = -v - 1
    BY <1>3, <1>1
  <2> QED BY <2>1, <2>3, <2>4, <1>1, <1>3 DEF DecodeZigzag, Word, W, v
<1>5. CASE v >= 0
  <2>1. v * 2 \in 0 .. W - 1
    BY <1>1, <1>3, <1>5
  <2>2. EncodeZigzag(v) = v * 2
    BY <1>5, <1>3, <1>1 DEF EncodeZigzag
  <2>3. (v * 2) % 2 = 0 /\ (v * 2) \div 2 = v
    BY <1>3, <1>1
  <2> QED BY <2>1, <2>2, <2>3, <1>1, <1>3 DEF DecodeZigzag, Word, W, v
<1> QED BY <1>1, <1>3, <1>4, <1>5

(* sizeof.                                                                 *)
LEMMA FixedLenNat ==
  /\ FixedLen \in Nat \ {0} /\ FixedLen <= Width
  /\ FixedLen * (GroupBits + 1) >= Width
  /\ FixedLen * (GroupBits + 1) <= Width + GroupBits
<1> DEFINE b == GroupBits + 1
           a == Width + b - 1
<1>1. a \in Nat /\ b \in Nat \ {0} /\ b >= 2 /\ a >= b
  BY ByteArrayAssumption
<1>2. a = b * (a \div b) + (a % b) /\ a \div b \in Nat /\ a % b \in 0 .. b - 1
  BY <1>1, Divide
<1>3. FixedLen = a \div b
  BY DEF FixedLen, CeilDiv
<1> DEFINE q == a \div b
<1> HIDE DEF q
<1>4. q \in Nat /\ b * q > a - b /\ b * q <= a
  <2> HIDE DEF a, b
  <2> QED BY <1>1, <1>2 DEF q
<1>5. b * q >= Width
  BY <1>4, <1>1, ByteArrayAssumption
<1>6. q # 0
  BY <1>4, <1>5, ByteArrayAssumption
<1>7. q <= Width
  <2> SUFFICES ASSUME q > Width PROVE FALSE
    BY <1>4, ByteArrayAssumption
  <2>1. b * q >= b * (Width + 1)
    BY <1>1, <1>4, ByteArrayAssumption
  <2>2. b * (Width + 1) = b * Width + b
    BY <1>1, ByteArrayAssumption
  <2>3. b * Width >= Width
    BY <1>1, ByteArrayAssumption
  <2> HIDE DEF b
  <2> QED BY <2>1, <2>2, <2>3, <1>4, <1>1, ByteArrayAssumption
<1>8. b * q = q * b /\ q * b >= Width /\ q * b <= Width + GroupBits
  <2>1. b * q = q * b
    BY <1>4, <1>1
  <2>2. b * q <= Width + GroupBits
    BY <1>4, ByteArrayAssumption
  <2> QED BY <2>1, <2>2, <1>5
<1>9. FixedLen = q
  BY <1>3 DEF q
<1> QED BY <1>9, <1>4, <1>6, <1>7, <1>8

(* The bytes of a fixed number, low ones first.                            *)
Bytes(v) == [i \in 1 .. FixedLen |-> (v \div (2 * Group) ^ (i - 1)) % (2 * Group)]

LEMMA ReverseSeq ==
  ASSUME NEW s \in Seq(Byte)
  PROVE  Reverse(s) \in Seq(Byte) /\ Len(Reverse(s)) = Len(s)
BY DEF Reverse

(* byteswap is its own inverse.                                            *)
LEMMA ByteswapSeq ==
  ASSUME NEW s \in Seq(Byte)
  PROVE  /\ byteswap(s) \in Seq(Byte) /\ Len(byteswap(s)) = Len(s)
         /\ byteswap(byteswap(s)) = s
<1>1. Reverse(s) \in Seq(Byte) /\ Len(Reverse(s)) = Len(s)
  BY ReverseSeq
<1>2. ASSUME NEW i \in 1 .. Len(s) PROVE Reverse(Reverse(s))[i] = s[i]
  <2>1. Len(s) - i + 1 \in 1 .. Len(s)
    OBVIOUS
  <2>2. Reverse(s)[Len(s) - i + 1] = s[i]
    BY <2>1 DEF Reverse
  <2> QED BY <1>1, <2>2 DEF Reverse
<1>3. Reverse(Reverse(s)) \in Seq(Byte) /\ Len(Reverse(Reverse(s))) = Len(s)
  BY <1>1, ReverseSeq
<1>4. Reverse(Reverse(s)) = s
  BY <1>2, <1>3, SeqEqual
<1> QED BY <1>1, <1>4 DEF byteswap

(* The bytes of a fixed integer.                                           *)
LEMMA FixedSeq ==
  ASSUME NEW v \in Word
  PROVE  /\ Bytes(v) \in Seq(Byte) /\ Len(Bytes(v)) = FixedLen
         /\ Fixed(v) = byteswap(Bytes(v))
         /\ Fixed(v) \in Seq(Byte) /\ Len(Fixed(v)) = FixedLen
<1>1. ASSUME NEW i \in 1 .. FixedLen
      PROVE  (v \div (2 * Group) ^ (i - 1)) % (2 * Group) \in Byte
  <2>1. i - 1 \in 0 .. Width + GroupBits
    BY FixedLenNat, ByteArrayAssumption
  <2>2. (2 * Group) ^ (i - 1) \in Nat \ {0}
    BY <2>1, Power
  <2>3. v \div (2 * Group) ^ (i - 1) \in Nat
    BY <2>2, WordNat, Divide
  <2>4. 2 * Group \in Nat \ {0}
    BY GroupNat
  <2> QED BY <2>3, <2>4, Divide DEF Byte
<1>2. Bytes(v) \in [1 .. FixedLen -> Byte]
  BY <1>1 DEF Bytes
<1>3. Bytes(v) \in Seq(Byte) /\ Len(Bytes(v)) = FixedLen
  BY <1>2, FixedLenNat
<1>4. Fixed(v) = byteswap(Bytes(v))
  BY DEF Fixed, Bytes
<1> QED BY <1>3, <1>4, ByteswapSeq

(* What readUint makes of the bytes of s from the i-th on, x being what it *)
(* makes of those after it.                                                *)
Digit(s, i, x) ==
  ((s[i + 1] % Group) * 2 ^ (i * GroupBits)
    + (IF s[i + 1] >= Group THEN x ELSE 0)) % 2 ^ Width
Decoded(s, d) ==
  d = [i \in 0 .. Len(s) |->
        IF i = Len(s) \/ i * GroupBits >= Width THEN 0
        ELSE ((s[i + 1] % Group) * 2 ^ (i * GroupBits)
               + (IF s[i + 1] >= Group THEN d[i + 1] ELSE 0)) % 2 ^ Width]

(* A turn of the loop of readUint yields a word.                           *)
LEMMA DigitWord ==
  ASSUME NEW s \in Seq(Byte), NEW i \in 0 .. Len(s) - 1, NEW x \in Word,
         i * GroupBits < Width
  PROVE  Digit(s, i, x) \in Word
<1>1. s[i + 1] \in Byte
  OBVIOUS
<1>2. s[i + 1] \in Nat
  BY <1>1, WordNat
<1>3. s[i + 1] % Group \in Nat
  BY <1>2, GroupNat
<1>4. i * GroupBits \in 0 .. Width + GroupBits
  BY ByteArrayAssumption
<1>5. 2 ^ (i * GroupBits) \in Nat
  BY <1>4, Power
<1> DEFINE a == (s[i + 1] % Group) * 2 ^ (i * GroupBits)
           b == IF s[i + 1] >= Group THEN x ELSE 0
<1>6. a \in Nat
  BY <1>3, <1>5
<1>7. b \in Nat
  BY WordNat
<1> HIDE DEF a, b
<1>8. a + b \in Nat
  BY <1>6, <1>7
<1>9. (a + b) % 2 ^ Width \in 0 .. 2 ^ Width - 1
  BY <1>8, WordNat, Divide
<1> QED BY <1>9 DEF Digit, Word, a, b

(* The recursive function inside Decode exists for every sequence of bytes *)
(* ...                                                                     *)
LEMMA DecodedExists ==
  ASSUME NEW s \in Seq(Byte)
  PROVE  \E d \in [0 .. Len(s) -> Word] : Decoded(s, d)
<1> DEFINE N == Len(s)
           start == 0
           h == [j \in 1 .. N |-> j - 1]
           step == [j \in 1 .. N |-> [x \in Word |->
                      IF (N - j) * GroupBits >= Width THEN 0
                                                      ELSE Digit(s, N - j, x)]]
<1>1. N \in Nat /\ start \in Word
  BY WordNat DEF Word
<1>2. h \in [1 .. N -> Nat] /\ Below(N, h)
  BY DEF Below
<1>3. step \in [1 .. N -> [Word -> Word]]
  <2> SUFFICES ASSUME NEW j \in 1 .. N, NEW x \in Word
               PROVE  (IF (N - j) * GroupBits >= Width THEN 0
                                       ELSE Digit(s, N - j, x)) \in Word
    OBVIOUS
  <2>1. N - j \in 0 .. Len(s) - 1 /\ (N - j) * GroupBits \in Nat
    BY ByteArrayAssumption
  <2>2. CASE (N - j) * GroupBits >= Width
    BY <2>2, <1>1
  <2>3. CASE ~((N - j) * GroupBits >= Width)
    <3>1. (N - j) * GroupBits < Width
      BY <2>1, <2>3, ByteArrayAssumption
    <3>2. Digit(s, N - j, x) \in Word
      BY <2>1, <3>1, DigitWord
    <3> QED BY <2>3, <3>2
  <2> QED BY <2>2, <2>3
<1>4. PICK f \in [0 .. N -> Word] : Recurs(f, N, start, h, step)
  <2> HIDE DEF N, start, h, step
  <2> QED BY <1>1, <1>2, <1>3, Recursion
<1> DEFINE d == [i \in 0 .. N |-> f[N - i]]
<1>5. d \in [0 .. N -> Word]
  BY <1>4
<1>6. ASSUME NEW i \in 0 .. N
      PROVE  d[i] = IF i = N \/ i * GroupBits >= Width THEN 0
                    ELSE Digit(s, i, d[i + 1])
  <2>1. CASE i = N
    BY <2>1, <1>4 DEF Recurs
  <2>2. CASE i # N
    <3>1. N - i \in 1 .. N /\ N - (N - i) = i /\ N - i - 1 = N - (i + 1)
          /\ i + 1 \in 0 .. N
      BY <2>2
    <3>2. f[N - i] = step[N - i][f[h[N - i]]]
      <4> HIDE DEF step, h, N
      <4> QED BY <3>1, <1>4 DEF Recurs
    <3>3. h[N - i] = N - (i + 1)
      BY <3>1
    <3>4. f[N - (i + 1)] \in Word /\ d[i + 1] = f[N - (i + 1)] /\ d[i] = f[N - i]
      BY <3>1, <1>4
    <3>5. d[i] = step[N - i][d[i + 1]]
      <4> HIDE DEF step, h, N, d
      <4> QED BY <3>2, <3>3, <3>4
    <3>6. d[i + 1] \in Word
      BY <3>4
    <3> HIDE DEF d, N
    <3>7. step[N - i][d[i + 1]] = IF i * GroupBits >= Width THEN 0
                                                 ELSE Digit(s, i, d[i + 1])
      BY <3>1, <3>6
    <3> QED BY <3>5, <3>7, <2>2
  <2> QED BY <2>1, <2>2
<1>7. Decoded(s, d)
  <2>1. d = [i \in 0 .. N |-> d[i]]
    OBVIOUS
  <2> HIDE DEF d
  <2>2. d = [i \in 0 .. N |-> IF i = N \/ i * GroupBits >= Width THEN 0
                    ELSE Digit(s, i, d[i + 1])]
    BY <1>6, <2>1
  <2> QED BY <2>2 DEF Decoded, Digit
<1> HIDE DEF d
<1> QED BY <1>5, <1>7

(* ... its values are words ...                                            *)
LEMMA DecodedWord ==
  ASSUME NEW s \in Seq(Byte), NEW d, Decoded(s, d)
  PROVE  d \in [0 .. Len(s) -> Word]
<1> DEFINE N == Len(s)
           T == {j \in 0 .. N : d[N - j] \in Word}
<1>1. 0 \in Word
  BY WordNat DEF Word
<1>2. N \in Nat /\ 0 \in T
  BY <1>1 DEF Decoded
<1>3. ASSUME NEW j \in 0 .. N - 1, j \in T PROVE j + 1 \in T
  <2> DEFINE i == N - (j + 1)
  <2>1. i \in 0 .. N - 1 /\ i + 1 = N - j /\ i * GroupBits \in Nat
    BY ByteArrayAssumption
  <2>2. d[i + 1] \in Word
    BY <2>1, <1>3
  <2> HIDE DEF i
  <2>3. d[i] = IF i * GroupBits >= Width THEN 0 ELSE Digit(s, i, d[i + 1])
    BY <2>1 DEF Decoded, Digit
  <2>4. d[i] \in Word
    <3>1. CASE i * GroupBits >= Width
      BY <3>1, <2>3, <1>1
    <3>2. CASE ~(i * GroupBits >= Width)
      <4>1. i * GroupBits < Width
        BY <3>2, <2>1, ByteArrayAssumption
      <4>2. Digit(s, i, d[i + 1]) \in Word
        BY <4>1, <2>1, <2>2, DigitWord
      <4> QED BY <4>2, <2>3, <3>2
    <3> QED BY <3>1, <3>2
  <2> QED BY <2>4, <2>1 DEF i
<1> HIDE DEF T
<1>4. 0 .. N \subseteq T
  BY <1>2, <1>3, UpTo
<1>5. ASSUME NEW i \in 0 .. N PROVE d[i] \in Word
  <2>1. N - i \in T /\ N - (N - i) = i
    BY <1>4, <1>2
  <2> QED BY <2>1 DEF T
<1>6. d = [i \in 0 .. N |-> d[i]]
  BY DEF Decoded
<1> QED BY <1>5, <1>6

(* ... and Decode is its value at 0.                                       *)
LEMMA DecodeIs ==
  ASSUME NEW s \in Seq(Byte)
  PROVE  \E d \in [0 .. Len(s) -> Word] :
           /\ Decoded(s, d)
           /\ Decode(s) = d[0]
<1> DEFINE d == CHOOSE d : Decoded(s, d)
<1>1. \E x : Decoded(s, x)
  BY DecodedExists
<1>2. Decoded(s, d)
  BY <1>1
<1>3. Decode(s) = d[0]
  BY Zenon DEF Decode, Decoded
<1> HIDE DEF d
<1>4. d \in [0 .. Len(s) -> Word]
  BY <1>2, DecodedWord
<1> QED BY <1>2, <1>3, <1>4

LEMMA DecodeWord ==
  ASSUME NEW s \in Seq(Byte)
  PROVE  Decode(s) \in Word
<1>1. PICK d \in [0 .. Len(s) -> Word] : Decode(s) = d[0]
  BY DecodeIs
<1> QED BY <1>1

-----------------------------------------------------------------------------
(* What writeUint writes, readUint reads.                                  *)

(* Powers add up: a shift by m + n is one by m and one by n.               *)
LEMMA PowerSum ==
  ASSUME NEW m \in Nat, NEW n \in Nat, m + n <= Width + GroupBits
  PROVE  2 ^ (m + n) = 2 ^ m * 2 ^ n
<1> DEFINE T == {k \in Nat : 2 ^ (m + k) = 2 ^ m * 2 ^ k}
<1>1. 0 \in T
  <2>1. 2 ^ m \in Nat /\ 2 ^ 0 = 1 /\ m + 0 = m
    BY Power, ByteArrayAssumption
  <2> QED BY <2>1
<1>2. ASSUME NEW k \in 0 .. n - 1, k \in T PROVE k + 1 \in T
  <2>1. m + k \in 0 .. Width + GroupBits /\ k \in 0 .. Width + GroupBits
        /\ m \in 0 .. Width + GroupBits
    BY ByteArrayAssumption
  <2>2. 2 ^ ((m + k) + 1) = 2 * 2 ^ (m + k) /\ 2 ^ (k + 1) = 2 * 2 ^ k
    BY <2>1, Power
  <2>3. 2 ^ m \in Nat /\ 2 ^ k \in Nat
    BY <2>1, Power
  <2>4. 2 ^ (m + k) = 2 ^ m * 2 ^ k /\ (m + k) + 1 = m + (k + 1)
    BY <1>2
  <2> DEFINE x == 2 ^ m
             y == 2 ^ k
             z == 2 ^ (k + 1)
             u == 2 ^ (m + (k + 1))
  <2>5. x \in Nat /\ y \in Nat /\ z = 2 * y /\ u = 2 * (x * y)
    BY <2>2, <2>3, <2>4
  <2> HIDE DEF x, y, z, u
  <2>6. u = x * z
    BY <2>5
  <2> QED BY <2>6 DEF x, z, u
<1> HIDE DEF T
<1>3. 0 .. n \subseteq T
  BY <1>1, <1>2, UpTo
<1> QED BY <1>3 DEF T

LEMMA PowerGrows ==
  ASSUME NEW m \in Nat, NEW n \in Nat, m <= n, n <= Width + GroupBits
  PROVE  2 ^ m <= 2 ^ n
<1>1. m + (n - m) = n /\ n - m \in Nat
  OBVIOUS
<1>2. 2 ^ n = 2 ^ m * 2 ^ (n - m)
  BY <1>1, PowerSum
<1>3. 2 ^ m \in Nat /\ 2 ^ (n - m) \in Nat \ {0}
  BY <1>1, Power, ByteArrayAssumption
<1>4. \A x \in Nat, y \in Nat \ {0} : x <= x * y
  OBVIOUS
<1> QED BY <1>2, <1>3, <1>4

EndsWith(s, i, c) ==
  Len(s) = i + Len(c) /\ \A k \in 1 .. Len(c) : s[i + k] = c[k]
ReadsFrom(s, i, d, v) ==
  /\ d[i] = v * 2 ^ (i * GroupBits)
  /\ s[Len(s)] < Group
  /\ \A k \in i + 1 .. Len(s) - 1 : s[k] >= Group /\ k * GroupBits < Width

(* Encode[v], wherever it stands at the end of s, reads as v.              *)
LEMMA EncodeReads ==
  ASSUME NEW v \in Word, NEW s \in Seq(Byte), NEW d, Decoded(s, d), NEW i \in Nat,
         i * GroupBits < Width, v * 2 ^ (i * GroupBits) < 2 ^ Width,
         EndsWith(s, i, Encode[v])
  PROVE  ReadsFrom(s, i, d, v)
<1> DEFINE Fits(w, j) == /\ j * GroupBits < Width
                         /\ w * 2 ^ (j * GroupBits) < 2 ^ Width
                         /\ EndsWith(s, j, Encode[w])
           T == {w \in Word : \A j \in Nat : Fits(w, j) => ReadsFrom(s, j, d, w)}
           N == 2 ^ Width - 1
<1>0. N \in Nat /\ Word = 0 .. N
  BY WordNat DEF Word
<1>1. ASSUME NEW w \in 0 .. N, \A k \in 0 .. w - 1 : k \in T PROVE w \in T
  <2> SUFFICES ASSUME NEW j \in Nat, Fits(w, j) PROVE ReadsFrom(s, j, d, w)
    BY <1>0
  <2> DEFINE c == Encode[w]
             P == 2 ^ (j * GroupBits)
             W == 2 ^ Width
  <2>1. c \in Seq(Byte) /\ w \in Word /\ w \in Nat
    <3>1. w \in Word /\ w \in Nat
      BY <1>0
    <3> QED BY <3>1, EncodeIs
  <2>2. c = IF w >= Group THEN <<Group + (w % Group)>> \o Encode[w \div Group]
                          ELSE <<w>>
    BY EncodeIs, <2>1
  <2>3. j * GroupBits \in 0 .. Width + GroupBits /\ P \in Nat \ {0}
    BY Power, ByteArrayAssumption
  <2>4. d \in [0 .. Len(s) -> Word]
    BY DecodedWord
  <2>5. w * P < W /\ W \in Nat \ {0} /\ j * GroupBits < Width
    BY WordNat
  <2> HIDE DEF P
  <2>6. CASE ~(w >= Group)
    <3>1. c = <<w>>
      BY <2>2, <2>6
    <3>2. Len(s) = j + 1 /\ s[j + 1] = w
      BY <3>1 DEF EndsWith
    <3>3. w < Group /\ w % Group = w
      BY <2>1, <2>6, GroupNat
    <3>4. d[j] = ((s[j + 1] % Group) * P
               + (IF s[j + 1] >= Group THEN d[j + 1] ELSE 0)) % W
      BY <3>2, <2>5, <2>3, ByteArrayAssumption DEF Decoded, P
    <3>5. d[j] = (w * P + 0) % W
      BY <3>2, <3>3, <3>4, <2>6
    <3>6. w * P \in Nat
      BY <2>1, <2>3
    <3>7. d[j] = w * P
      <4> DEFINE x == w * P
      <4>1. x \in Nat /\ x < W /\ d[j] = (x + 0) % W
        BY <3>5, <3>6, <2>5
      <4> HIDE DEF x, W
      <4>2. d[j] = x
        BY <4>1, <2>5
      <4> QED BY <4>2 DEF x
    <3> QED BY <3>2, <3>3, <3>7 DEF ReadsFrom, P
  <2>7. CASE w >= Group
    <3> DEFINE q == w \div Group
               r == w % Group
               e == Encode[q]
               Q == 2 ^ ((j + 1) * GroupBits)
    <3>1. w = Group * q + r /\ q \in Nat /\ r \in 0 .. Group - 1
      BY <2>1, GroupNat, Divide
    <3>2. q < w /\ q # 0
      <4>1. q < w
        <5>1. w \in Nat \ {0}
          BY <2>1, <2>7, GroupNat
        <5> QED BY <5>1, GroupNat, DivideBelow
      <4> HIDE DEF q, r
      <4> QED BY <4>1, <3>1, <2>7, GroupNat
    <3>3. q \in T /\ q \in Word /\ e \in Seq(Byte)
      <4>1. q \in 0 .. w - 1 /\ q \in 0 .. N
        <5> HIDE DEF q, N
        <5> QED BY <3>1, <3>2, <2>1, <1>0
      <4>2. q \in T
        BY <4>1, <1>1
      <4> HIDE DEF q, T, N
      <4>3. q \in Word
        BY <4>1, <1>0
      <4> QED BY <4>2, <4>3, EncodeIs
    <3>4. c = <<Group + r>> \o e
      BY <2>2, <2>7
    <3>5. Q = P * Group /\ Q \in Nat
      <4>1. (j + 1) * GroupBits = j * GroupBits + GroupBits
        BY ByteArrayAssumption
      <4>2. 2 ^ (j * GroupBits + GroupBits) = 2 ^ (j * GroupBits) * 2 ^ GroupBits
        BY <2>3, <2>5, PowerSum, ByteArrayAssumption
      <4> QED BY <4>1, <4>2, <2>3, GroupNat DEF P, Group
    <3> HIDE DEF q, r, Q, W
    <3>6. w * P = q * Q + r * P /\ q * Q \in Nat /\ r * P \in Nat
      <4>1. q * Q = (Group * q) * P
        BY <3>5, <3>1, <2>3, GroupNat
      <4>2. w * P = (Group * q) * P + r * P
        BY <3>1, <2>3, GroupNat
      <4>3. q * Q \in Nat /\ r * P \in Nat
        BY <3>1, <3>5, <2>3
      <4> QED BY <4>1, <4>2, <4>3
    <3>7. q * Q < W
      BY <3>6, <2>5, <2>1, <2>3
    <3>8. (j + 1) * GroupBits < Width
      <4> SUFFICES ASSUME (j + 1) * GroupBits >= Width PROVE FALSE
        BY ByteArrayAssumption
      <4>1. (j + 1) * GroupBits <= Width + GroupBits /\ (j + 1) * GroupBits \in Nat
        <5>1. (j + 1) * GroupBits = j * GroupBits + GroupBits
          BY ByteArrayAssumption
        <5> QED BY <5>1, <2>5, <2>3, ByteArrayAssumption
      <4>2. W <= Q
        BY <4>1, PowerGrows, ByteArrayAssumption DEF W, Q
      <4>3. Q <= q * Q
        BY <3>1, <3>2, <3>5
      <4> QED BY <4>2, <4>3, <3>7, <3>5, <3>6, <2>5
    <3>9. Len(c) = Len(e) + 1 /\ c[1] = Group + r /\ \A k \in 1 .. Len(e) : c[k + 1] = e[k]
      BY <3>3, <3>4, <3>1, GroupNat
    <3>10. Len(s) = j + Len(c) /\ \A k \in 1 .. Len(c) : s[j + k] = c[k]
      BY DEF EndsWith
    <3> HIDE DEF c, e
    <3>11. EndsWith(s, j + 1, e) /\ s[j + 1] = Group + r /\ Len(s) >= j + 1
      <4>1. Len(e) \in Nat
        BY <3>3
      <4>2. Len(s) = (j + 1) + Len(e)
        BY <3>9, <3>10, <4>1
      <4>3. ASSUME NEW k \in 1 .. Len(e) PROVE s[(j + 1) + k] = e[k]
        <5>1. k + 1 \in 1 .. Len(c) /\ j + (k + 1) = (j + 1) + k
          BY <3>9, <4>1
        <5> QED BY <5>1, <3>9, <3>10
      <4>4. 1 \in 1 .. Len(c)
        BY <3>9, <4>1
      <4>5. s[j + 1] = Group + r
        BY <4>4, <3>9, <3>10
      <4> QED BY <4>1, <4>2, <4>3, <4>5 DEF EndsWith
    <3>12. Fits(q, j + 1)
      BY <3>7, <3>8, <3>11 DEF Q, W, e
    <3>13. ReadsFrom(s, j + 1, d, q)
      BY <3>3, <3>12
    <3>14. Len(s) # j + 1
      <4>1. Len(e) # 0
        <5>1. e = IF q >= Group THEN <<Group + (q % Group)>> \o Encode[q \div Group]
                          ELSE <<q>>
          BY <3>3, EncodeIs DEF e
        <5>2. q >= Group => q \div Group \in Word
          <6>1. q \div Group < q \/ q = 0
            BY <3>1, GroupNat, DivideBelow
          <6>2. q \div Group \in Nat
            BY <3>1, GroupNat, Divide
          <6> QED BY <6>1, <6>2, <3>3, <3>2, <1>0
        <5>3. q >= Group => Encode[q \div Group] \in Seq(Byte)
          BY <5>2, EncodeIs
        <5> QED BY <5>1, <5>3, <3>1, GroupNat
      <4> QED BY <4>1, <3>11, <3>3 DEF EndsWith
    <3>15. d[j] = ((s[j + 1] % Group) * P
               + (IF s[j + 1] >= Group THEN d[j + 1] ELSE 0)) % W
      BY <3>11, <3>14, <2>5, <2>3, ByteArrayAssumption DEF Decoded, P, W
    <3>16. s[j + 1] % Group = r /\ s[j + 1] >= Group
      <4>1. (Group + r) % Group = r
        BY <3>1, GroupNat
      <4> QED BY <4>1, <3>11, <3>1, GroupNat
    <3>17. d[j] = (r * P + q * Q) % W
      BY <3>15, <3>16, <3>13 DEF ReadsFrom, Q
    <3>18. d[j] = w * P
      <4> DEFINE x == w * P
      <4>1. x \in Nat /\ x < W /\ d[j] = x % W
        BY <3>17, <3>6, <2>5
      <4> HIDE DEF x
      <4>2. d[j] = x
        BY <4>1, <2>5
      <4> QED BY <4>2 DEF x
    <3>19. ASSUME NEW k \in j + 1 .. Len(s) - 1
           PROVE  s[k] >= Group /\ k * GroupBits < Width
      <4>1. CASE k = j + 1
        BY <4>1, <3>8, <3>16
      <4>2. CASE k # j + 1
        <5>1. k \in (j + 1) + 1 .. Len(s) - 1
          BY <4>2
        <5> QED BY <5>1, <3>13 DEF ReadsFrom
      <4> QED BY <4>1, <4>2
    <3> QED BY <3>13, <3>18, <3>19 DEF ReadsFrom, P
  <2> QED BY <2>6, <2>7
<1> HIDE DEF T, N
<1>2. Word \subseteq T
  BY <1>0, <1>1, StrongUpTo
<1> QED BY <1>2 DEF T

(* readUint reads from the bytes of writeUint what was written, and takes  *)
(* all of them: every byte but the last asks for another.                  *)
LEMMA UintReadsBack ==
  ASSUME NEW v \in Word
  PROVE  /\ Encode[v] \in Seq(Byte) /\ Len(Encode[v]) >= 1
         /\ Number(Encode[v]) /\ Decode(Encode[v]) = v
<1> DEFINE s == Encode[v]
<1>1. s \in Seq(Byte)
  BY EncodeIs
<1>2. PICK d \in [0 .. Len(s) -> Word] : Decoded(s, d) /\ Decode(s) = d[0]
  BY <1>1, DecodeIs
<1>3. v * 2 ^ (0 * GroupBits) = v /\ 0 * GroupBits = 0
  <2>1. 0 * GroupBits = 0 /\ 2 ^ 0 = 1
    BY ByteArrayAssumption
  <2>2. v * 1 = v
    BY WordNat
  <2> QED BY <2>1, <2>2
<1>4. v < 2 ^ Width
  BY WordNat DEF Word
<1>5. EndsWith(s, 0, s)
  <2> HIDE DEF s
  <2> QED BY <1>1 DEF EndsWith
<1>6. ReadsFrom(s, 0, d, v)
  BY <1>1, <1>2, <1>3, <1>4, <1>5, EncodeReads, ByteArrayAssumption
<1>7. Len(s) >= 1
  <2>1. v < Group => s = <<v>>
    BY EncodeIs, GroupNat, WordNat
  <2>2. v >= Group => s = <<Group + (v % Group)>> \o Encode[v \div Group]
    BY EncodeIs
  <2>3. v >= Group => v \div Group \in Word
    <3>1. v >= Group => v \div Group < v
      BY WordNat, GroupNat, DivideBelow
    <3>2. v \div Group \in Nat
      BY WordNat, GroupNat, Divide
    <3> QED BY <3>1, <3>2, WordNat DEF Word
  <2>4. v >= Group => Encode[v \div Group] \in Seq(Byte)
    BY <2>3, EncodeIs
  <2> HIDE DEF s
  <2> QED BY <2>1, <2>2, <2>4, WordNat, GroupNat
<1> HIDE DEF s
<1>8. Decode(s) = v
  BY <1>2, <1>3, <1>6 DEF ReadsFrom
<1>9. ~Continues(s)
  <2>1. s # << >>
    BY <1>7, <1>1
  <2>2. s[Len(s)] \in Byte /\ s[Len(s)] < Group
    BY <1>1, <1>7, <1>6 DEF ReadsFrom
  <2>3. ~(s[Len(s)] >= Group)
    <3> DEFINE x == s[Len(s)]
    <3>1. x \in Byte /\ x < Group
      BY <2>2
    <3> HIDE DEF x
    <3>2. ~(x >= Group)
      BY <3>1, WordNat, GroupNat DEF Byte
    <3> QED BY <3>2 DEF x
  <2> QED BY <2>1, <2>3 DEF Continues, Last
<1>10. ASSUME NEW n \in 0 .. Len(s) - 1 PROVE Continues(SubSeq(s, 1, n))
  <2>1. CASE n = 0
    BY <2>1, <1>1 DEF Continues
  <2>2. CASE n # 0
    <3>1. n \in 0 + 1 .. Len(s) - 1
      BY <2>2, <1>1
    <3>2. s[n] >= Group /\ n * GroupBits < Width
      BY <3>1, <1>6 DEF ReadsFrom
    <3>3. Len(SubSeq(s, 1, n)) = n /\ SubSeq(s, 1, n)[n] = s[n]
      BY <1>1, <3>1
    <3> QED BY <3>2, <3>3 DEF Continues, Last
  <2> QED BY <2>1, <2>2
<1> QED BY <1>1, <1>7, <1>8, <1>9, <1>10 DEF s, Number

-----------------------------------------------------------------------------
(* What writeFuint writes, readFuint reads.                                *)

(* The sum of the bytes t, low ones first.                                 *)
Summed(t, n, d) ==
  d = [i \in 0 .. n |->
        IF i = 0 THEN 0 ELSE d[i - 1] + t[i] * (2 * Group) ^ (i - 1)]

(* The recursive function inside Unfixed exists ...                        *)
LEMMA SummedExists ==
  ASSUME NEW t \in Seq(Byte), Len(t) = FixedLen
  PROVE  \E d \in [0 .. FixedLen -> Nat] : Summed(t, FixedLen, d)
<1> DEFINE N == FixedLen
           start == 0
           h == [j \in 1 .. N |-> j - 1]
           step == [j \in 1 .. N |-> [x \in Nat |->
                      x + t[j] * (2 * Group) ^ (j - 1)]]
<1>1. N \in Nat /\ start \in Nat
  BY FixedLenNat
<1>2. h \in [1 .. N -> Nat] /\ Below(N, h)
  BY FixedLenNat DEF Below
<1>3. step \in [1 .. N -> [Nat -> Nat]]
  <2> SUFFICES ASSUME NEW j \in 1 .. N, NEW x \in Nat
               PROVE  x + t[j] * (2 * Group) ^ (j - 1) \in Nat
    OBVIOUS
  <2>1. j - 1 \in 0 .. Width + GroupBits /\ t[j] \in Byte
    BY FixedLenNat, ByteArrayAssumption
  <2>2. (2 * Group) ^ (j - 1) \in Nat
    BY <2>1, Power
  <2>3. t[j] \in Nat
    BY <2>1, WordNat
  <2>4. t[j] * (2 * Group) ^ (j - 1) \in Nat
    BY <2>2, <2>3
  <2> QED BY <2>4
<1>4. PICK f \in [0 .. N -> Nat] : Recurs(f, N, start, h, step)
  <2> HIDE DEF N, start, h, step
  <2> QED BY <1>1, <1>2, <1>3, Recursion
<1>5. ASSUME NEW i \in 0 .. N
      PROVE  f[i] = IF i = 0 THEN 0 ELSE f[i - 1] + t[i] * (2 * Group) ^ (i - 1)
  <2>1. CASE i = 0
    BY <2>1, <1>4 DEF Recurs
  <2>2. CASE i # 0
    <3>1. i \in 1 .. N /\ i - 1 \in 0 .. N
      BY <2>2, <1>1
    <3>2. f[i] = step[i][f[h[i]]]
      <4> HIDE DEF step, h, N
      <4> QED BY <3>1, <1>4 DEF Recurs
    <3>3. h[i] = i - 1
      BY <3>1
    <3>4. f[i] = step[i][f[i - 1]]
      <4> HIDE DEF step, h, N
      <4> QED BY <3>2, <3>3
    <3>5. f[i - 1] \in Nat
      BY <3>1
    <3> QED BY <3>1, <3>4, <3>5, <2>2
  <2> QED BY <2>1, <2>2
<1>6. f = [i \in 0 .. N |-> f[i]]
  OBVIOUS
<1>7. Summed(t, N, f)
  BY <1>5, <1>6 DEF Summed
<1> QED BY <1>7

(* ... and has natural numbers as values.                                  *)
LEMMA SummedNat ==
  ASSUME NEW t \in Seq(Byte), Len(t) = FixedLen, NEW d, Summed(t, FixedLen, d)
  PROVE  d \in [0 .. FixedLen -> Nat]
<1> DEFINE T == {j \in 0 .. FixedLen : d[j] \in Nat}
<1>1. FixedLen \in Nat /\ 0 \in T
  BY FixedLenNat DEF Summed
<1>2. ASSUME NEW j \in 0 .. FixedLen - 1, j \in T PROVE j + 1 \in T
  <2>1. j + 1 \in 1 .. FixedLen /\ j + 1 - 1 = j /\ j \in 0 .. Width + GroupBits
    BY FixedLenNat, ByteArrayAssumption
  <2>2. d[j + 1] = d[j] + t[j + 1] * (2 * Group) ^ j
    BY <2>1, FixedLenNat DEF Summed
  <2>3. (2 * Group) ^ j \in Nat
    BY <2>1, Power
  <2>4. t[j + 1] \in Byte
    BY <2>1
  <2>5. t[j + 1] \in Nat
    BY <2>4, WordNat
  <2>6. t[j + 1] * (2 * Group) ^ j \in Nat
    BY <2>3, <2>5
  <2> QED BY <2>1, <2>2, <2>6, <1>2
<1> HIDE DEF T
<1>3. 0 .. FixedLen \subseteq T
  BY <1>1, <1>2, UpTo
<1>4. d = [i \in 0 .. FixedLen |-> d[i]]
  BY DEF Summed
<1> QED BY <1>3, <1>4 DEF T

(* Blocks of GroupBits + 1 bits.                                           *)
LEMMA BytePower ==
  ASSUME NEW k \in 0 .. FixedLen
  PROVE  (2 * Group) ^ k = 2 ^ (k * (GroupBits + 1))
<1> DEFINE B == 2 * Group
           b == GroupBits + 1
           T == {j \in 0 .. FixedLen : B ^ j = 2 ^ (j * b)}
<1>1. b \in Nat /\ 2 ^ b = B
  <2>1. 2 ^ (GroupBits + 1) = 2 * 2 ^ GroupBits
    BY Power, ByteArrayAssumption
  <2> QED BY <2>1, ByteArrayAssumption DEF Group
<1>2. 0 \in T
  <2>1. B ^ 0 = 1 /\ 0 * b = 0 /\ 2 ^ 0 = 1
    BY <1>1, Power, ByteArrayAssumption
  <2> HIDE DEF B, b
  <2>2. B ^ 0 = 2 ^ (0 * b)
    BY <2>1
  <2> QED BY <2>2, FixedLenNat
<1>3. ASSUME NEW j \in 0 .. k - 1, j \in T PROVE j + 1 \in T
  <2>1. j \in 0 .. Width + GroupBits /\ j + 1 <= FixedLen /\ j \in Nat
    BY FixedLenNat, ByteArrayAssumption
  <2>2. B ^ (j + 1) = B * B ^ j
    BY <2>1, Power
  <2> HIDE DEF b
  <2>3. (j + 1) * b = j * b + b /\ j * b \in Nat
    BY <1>1, <2>1
  <2>4. (j + 1) * b <= FixedLen * b
    BY <1>1, <2>1, FixedLenNat
  <2>5. FixedLen * b <= Width + GroupBits
    BY FixedLenNat DEF b
  <2>6. j * b + b <= Width + GroupBits
    BY <2>3, <2>4, <2>5, <1>1, FixedLenNat, ByteArrayAssumption
  <2>7. 2 ^ (j * b + b) = 2 ^ (j * b) * 2 ^ b
    BY <2>3, <2>6, <1>1, PowerSum
  <2>8. B ^ j = 2 ^ (j * b)
    BY <1>3
  <2>9. 2 ^ (j * b) \in Nat /\ B \in Nat
    BY <2>3, <2>6, <1>1, Power, GroupNat, ByteArrayAssumption
  <2> HIDE DEF B
  <2>10. B ^ (j + 1) = 2 ^ ((j + 1) * b)
    <3> DEFINE x == 2 ^ (j * b)
    <3>1. B ^ (j + 1) = B * x /\ 2 ^ ((j + 1) * b) = x * B /\ x \in Nat
      BY <2>2, <2>3, <2>7, <2>8, <2>9, <1>1
    <3> HIDE DEF x
    <3> QED BY <3>1, <2>9
  <2>11. j + 1 \in 0 .. FixedLen
    BY <2>1
  <2> QED BY <2>10, <2>11
<1> HIDE DEF T
<1>4. 0 .. k \subseteq T
  BY <1>2, <1>3, UpTo
<1> QED BY <1>4 DEF T

(* readFuint reads from the bytes of writeFuint what was written, in both  *)
(* orders of the bytes.                                                    *)
LEMMA FixedReadsBack ==
  ASSUME NEW v \in Word
  PROVE  Len(Fixed(v)) = FixedLen /\ Unfixed(Fixed(v)) = v
<1> DEFINE B == 2 * Group
           t == Bytes(v)
           d == CHOOSE d : Summed(t, FixedLen, d)
<1>1. /\ Len(Fixed(v)) = FixedLen /\ byteswap(Fixed(v)) = t
      /\ t \in Seq(Byte) /\ Len(t) = FixedLen
  BY FixedSeq, ByteswapSeq
<1>2. Summed(t, FixedLen, d)
  <2>1. \E x : Summed(t, FixedLen, x)
    BY <1>1, SummedExists
  <2> QED BY <2>1
<1>3. Unfixed(Fixed(v)) = d[FixedLen]
  <2>1. Unfixed(Fixed(v)) = (CHOOSE x : Summed(byteswap(Fixed(v)), Len(Fixed(v)), x))[Len(Fixed(v))]
    BY Zenon DEF Unfixed, Summed
  <2> QED BY <2>1, <1>1
<1> HIDE DEF d
<1>4. d \in [0 .. FixedLen -> Nat]
  BY <1>1, <1>2, SummedNat
<1>5. v \in Nat /\ B \in Nat \ {0} /\ v < 2 ^ Width
  BY WordNat, GroupNat DEF Word
<1>6. \A i \in 0 .. FixedLen : B ^ i \in Nat \ {0}
  <2> SUFFICES ASSUME NEW i \in 0 .. FixedLen PROVE B ^ i \in Nat \ {0}
    OBVIOUS
  <2>1. i \in 0 .. Width + GroupBits
    BY FixedLenNat, ByteArrayAssumption
  <2> QED BY <2>1, Power
<1> DEFINE T == {i \in 0 .. FixedLen :
                  d[i] < B ^ i /\ \E Q \in Nat : v = Q * B ^ i + d[i]}
<1>7. 0 \in T
  <2>1. d[0] = 0
    BY <1>2, FixedLenNat DEF Summed
  <2>2. B ^ 0 = 1
    BY Power, ByteArrayAssumption
  <2>3. v = v * 1 + 0
    BY <1>5
  <2> QED BY <2>1, <2>2, <2>3, <1>5, FixedLenNat
<1>8. ASSUME NEW i \in 0 .. FixedLen - 1, i \in T PROVE i + 1 \in T
  <2>1. i \in Nat /\ i + 1 \in 1 .. FixedLen /\ i \in 0 .. FixedLen
        /\ i \in 0 .. Width + GroupBits /\ i + 1 - 1 = i
    BY FixedLenNat, ByteArrayAssumption
  <2> DEFINE x == B ^ i
             y == B ^ (i + 1)
             a == d[i]
             z == d[i + 1]
  <2>2. PICK Q \in Nat : v = Q * x + a
    BY <1>8
  <2>3. x \in Nat \ {0} /\ y = B * x /\ a \in Nat /\ a < x
    BY <2>1, <1>4, <1>6, <1>8, Power
  <2>4. z = a + t[i + 1] * x
    BY <2>1, <1>2, FixedLenNat DEF Summed
  <2>5. t[i + 1] = (v \div x) % B
    BY <2>1 DEF Bytes
  <2> HIDE DEF x, y, a, z, B, t
  <2>6. v \div x = Q
    BY <2>2, <2>3
  <2>7. PICK P \in Nat, r \in 0 .. B - 1 : Q = B * P + r /\ Q % B = r
    BY <1>5, Divide
  <2>8. z = a + r * x
    BY <2>4, <2>5, <2>6, <2>7
  <2>9. Q * x = P * y + r * x
    <3>1. Q * x = (B * P) * x + r * x
      BY <2>7, <2>3, <1>5
    <3>2. (B * P) * x = P * y
      BY <2>3, <2>7, <1>5
    <3> QED BY <3>1, <3>2
  <2>10. v = P * y + z
    <3>1. Q * x \in Nat /\ r * x \in Nat /\ P * y \in Nat
      BY <2>3, <2>7, <1>5
    <3> QED BY <3>1, <2>2, <2>8, <2>9, <2>3
  <2>11. z < y
    <3>1. r * x <= (B - 1) * x
      BY <2>3, <2>7, <1>5
    <3>2. (B - 1) * x = y - x
      BY <2>3, <1>5
    <3>3. r * x \in Nat /\ y \in Nat
      BY <2>3, <2>7, <1>5
    <3> QED BY <3>1, <3>2, <3>3, <2>3, <2>8
  <2> QED BY <2>1, <2>10, <2>11, <2>7 DEF y, z
<1>9. FixedLen \in T
  <2> HIDE DEF T
  <2>1. 0 .. FixedLen \subseteq T
    BY <1>7, <1>8, UpTo, FixedLenNat
  <2> QED BY <2>1, FixedLenNat
<1>10. v < B ^ FixedLen
  <2> DEFINE n == FixedLen * (GroupBits + 1)
  <2>1. B ^ FixedLen = 2 ^ n
    BY BytePower, FixedLenNat
  <2>2. n \in Nat /\ Width <= n /\ n <= Width + GroupBits
    BY FixedLenNat, ByteArrayAssumption
  <2> HIDE DEF n, B
  <2>3. 2 ^ Width <= 2 ^ n
    BY <2>2, PowerGrows, ByteArrayAssumption
  <2>4. 2 ^ n \in Nat
    BY <2>2, Power
  <2> QED BY <2>1, <2>3, <2>4, <1>5, WordNat
<1>11. d[FixedLen] = v
  <2> DEFINE x == B ^ FixedLen
             a == d[FixedLen]
  <2>1. PICK Q \in Nat : v = Q * x + a
    BY <1>9
  <2>2. x \in Nat /\ a \in Nat /\ v < x
    BY <1>4, <1>6, <1>10, FixedLenNat
  <2> HIDE DEF x, a
  <2>3. Q = 0
    <3> SUFFICES ASSUME Q >= 1 PROVE FALSE
      OBVIOUS
    <3>1. Q * x >= x
      BY <2>2
    <3> QED BY <3>1, <2>1, <2>2, <1>5
  <2>4. 0 * x = 0
    BY <2>2
  <2>5. v = a
    BY <2>1, <2>2, <2>3, <2>4
  <2> QED BY <2>5 DEF a
<1> QED BY <1>1, <1>3, <1>11

-----------------------------------------------------------------------------
(* The inductive invariant.                                                *)

Ops == {"none", "more", "write", "wrote", "back", "read"}
Writing == {"more", "write", "wrote"}
Written == {"uint", "int", "fixed", "string", "bytes"}
Kinds == {"none", "read", "room"} \cup Written
Args == Int \cup Seq(Byte)
Calls == [op : Ops, kind : Kinds, npos : Nat, ncap : Nat, todo : Seq(Byte),
          rest : Seq(Seq(Byte)), size : Nat, out : Seq(Byte), val : Args,
          from : Nat]
Results == [kind : Kinds, val : Args, out : Seq(Byte), from : Nat]

Types ==
  /\ m_position \in Nat /\ m_size \in Nat /\ m_capacity \in Nat
  /\ m_nodes \in 1 .. MaxNodes /\ m_cur \in Int
  /\ m_endian \in {"little", "big"}
  /\ mem \in [Cell -> Byte]
  /\ call \in Calls /\ result \in Results
  /\ got \in Seq(Byte)
  /\ crash \in {"none", "empty"}

(* The blocks make up the capacity, and m_cur is the block of the          *)
(* position: none when the array is full.                                  *)
InBlock(nodes, pos, cur) ==
  cur \in 0 .. nodes - 1 /\ pos - cur * Base \in 0 .. Base - 1
BlockOf(nodes, pos, cur) ==
  \/ pos = nodes * Base /\ cur = null
  \/ InBlock(nodes, pos, cur)
Geometry ==
  /\ m_capacity = m_nodes * Base
  /\ m_position <= m_capacity /\ m_size <= m_capacity
  /\ BlockOf(m_nodes, m_position, m_cur)

(* Inside a call the locals of a loop are the place in the block, and what *)
(* is left fits.                                                           *)
Loop ==
  /\ call.op = "none" => call = Idle
  /\ call.op # "write" => m_position <= m_size
  /\ call.op = "write" =>
       /\ m_position + Len(call.todo) <= m_capacity
       /\ call.todo # << >>
       /\ crash = "none"
  /\ call.op = "read" => m_position + call.size <= m_size
  /\ call.op \in {"write", "read"} /\ crash = "none" =>
       /\ InBlock(m_nodes, m_position, m_cur)
       /\ call.npos = m_position - m_cur * Base
       /\ call.ncap = Base - call.npos
  /\ crash # "none" => call.op = "read"

(* The bytes that a writing function writes, and its arguments.            *)
Swap(endian, s) == IF endian = "little" THEN s ELSE Reverse(s)
Code(endian, kind, v) ==
  CASE kind = "uint"   -> Encode[v]
    [] kind = "int"    -> Encode[EncodeZigzag(v)]
    [] kind = "fixed"  -> Swap(endian, Bytes(v))
    [] kind = "string" -> Encode[Len(v)] \o v
    [] kind = "bytes"  -> v
Argument(kind, v) ==
  \/ kind \in {"uint", "fixed"} /\ v \in Word
  \/ kind = "int" /\ \E w \in Word : v = Signed(w)
  \/ kind = "string" /\ v \in Seq(Byte) /\ Len(v) \in Word
  \/ kind = "bytes" /\ v \in Seq(Byte)

(* The sequences of rest are the pieces of code after the first p bytes.   *)
Pieces(rest, code, p) ==
  \E cut \in [0 .. Len(rest) -> 0 .. Len(code)] :
    /\ cut[0] = p /\ cut[Len(rest)] = Len(code)
    /\ \A j \in 1 .. Len(rest) :
         cut[j - 1] <= cut[j] /\ rest[j] = SubSeq(code, cut[j - 1] + 1, cut[j])

(* A writing function has stored the front of its code; the rest is at     *)
(* hand.                                                                   *)
StoredUpTo(m, pos, from, code) ==
  /\ from <= pos /\ pos - from <= Len(code)
  /\ \A k \in 1 .. pos - from : m[from + k - 1] = code[k]
AtHand(todo, rest, code, p) ==
  /\ p + Len(todo) <= Len(code)
  /\ todo = SubSeq(code, p + 1, p + Len(todo))
  /\ Pieces(rest, code, p + Len(todo))
Progress ==
  LET code == Code(m_endian, call.kind, call.val)
      done == m_position - call.from
  IN call.op \in Writing =>
       /\ Argument(call.kind, call.val)
       /\ StoredUpTo(mem, m_position, call.from, code)
       /\ call.op = "wrote" => Pieces(call.rest, code, done)
       /\ call.op # "wrote" => AtHand(call.todo, call.rest, code, done)
       /\ got = << >>

(* The last result still stands in front of the position.                  *)
Fresh ==
  /\ call.op # "none" => result = NoResult
  /\ result.kind \in Written =>
       LET code == Code(m_endian, result.kind, result.val) IN
       /\ Argument(result.kind, result.val)
       /\ StoredUpTo(mem, m_position, result.from, code)
       /\ m_position - result.from = Len(code)
  /\ result.kind = "room" => /\ result.val \in Nat \ {0}
                             /\ m_position + result.val <= m_capacity

IInv == Types /\ Geometry /\ Loop /\ Progress /\ Fresh

-----------------------------------------------------------------------------
(* Blocks and positions.                                                   *)

nextOf(nodes, n) == IF n + 1 < nodes THEN n + 1 ELSE null

LEMMA BaseNat == Base \in Nat /\ Base > 0 /\ MaxNodes \in Nat /\ MaxNodes > 0
BY ByteArrayAssumption

(* Blocks follow each other without overlap.                               *)
LEMMA Mul == ASSUME NEW a \in Int, NEW b \in Int, a < b
             PROVE  /\ a * Base < b * Base
                    /\ a * Base + Base <= b * Base
<1>1. b * Base = a * Base + (b - a) * Base
  BY BaseNat
<1>2. (b - a) * Base >= Base
  BY BaseNat
<1> QED BY <1>1, <1>2, BaseNat

LEMMA MulBack == ASSUME NEW a \in Int, NEW b \in Int, a * Base < b * Base
                 PROVE  a < b
<1> SUFFICES ASSUME b <= a PROVE FALSE
  OBVIOUS
<1>1. b = a \/ b < a
  OBVIOUS
<1>2. b * Base <= a * Base
  BY <1>1, Mul, BaseNat
<1> QED BY <1>2, BaseNat

(* The block after cur begins where cur ends.                              *)
LEMMA NextBlock ==
  ASSUME NEW nodes \in Nat, NEW pos \in Nat, NEW cur \in Int, InBlock(nodes, pos, cur)
  PROVE  /\ BlockOf(nodes, cur * Base + Base, nextOf(nodes, cur))
         /\ cur * Base + Base <= nodes * Base
         /\ cur * Base + Base < nodes * Base =>
              InBlock(nodes, cur * Base + Base, cur + 1) /\ nextOf(nodes, cur) = cur + 1
<1>1. cur \in 0 .. nodes - 1 /\ cur < nodes
  BY DEF InBlock
<1>2. cur * Base \in Int /\ nodes * Base \in Int /\ cur * Base + Base <= nodes * Base
  BY <1>1, Mul, BaseNat
<1>3. (cur + 1) * Base = cur * Base + Base
  BY <1>1, BaseNat
<1>4. CASE cur + 1 < nodes
  <2>1. InBlock(nodes, cur * Base + Base, cur + 1)
    BY <1>1, <1>2, <1>3, <1>4, BaseNat DEF InBlock
  <2> QED BY <2>1, <1>2, <1>4 DEF nextOf, BlockOf
<1>5. CASE ~(cur + 1 < nodes)
  <2>1. cur + 1 = nodes
    BY <1>1, <1>5
  <2> QED BY <2>1, <1>3, <1>2, <1>5, BaseNat DEF nextOf, BlockOf
<1> QED BY <1>4, <1>5

(* n bytes further on in the block.                                        *)
LEMMA Advance ==
  ASSUME NEW nodes \in Nat, NEW pos \in Nat, NEW cur \in Int, InBlock(nodes, pos, cur),
         NEW n \in Nat, n <= Base - (pos - cur * Base)
  PROVE  /\ pos + n <= nodes * Base
         /\ BlockOf(nodes, pos + n,
              IF Base = (pos - cur * Base) + n THEN nextOf(nodes, cur) ELSE cur)
<1>1. cur * Base \in Int /\ nodes * Base \in Int /\ pos - cur * Base \in 0 .. Base - 1
  BY BaseNat DEF InBlock
<1>2. BlockOf(nodes, cur * Base + Base, nextOf(nodes, cur)) /\ cur * Base + Base <= nodes * Base
  BY NextBlock
<1>3. CASE Base = (pos - cur * Base) + n
  <2>1. pos + n = cur * Base + Base
    BY <1>1, <1>3, BaseNat
  <2> QED BY <2>1, <1>2, <1>3
<1>4. CASE Base # (pos - cur * Base) + n
  <2>1. InBlock(nodes, pos + n, cur)
    BY <1>1, <1>4, BaseNat DEF InBlock
  <2> QED BY <2>1, <1>1, <1>2, <1>4, BaseNat DEF BlockOf
<1> QED BY <1>3, <1>4

(* Npos and the block of a position.                                       *)
LEMMA Place ==
  ASSUME NEW nodes \in Nat, NEW pos \in Nat, NEW cur \in Int, InBlock(nodes, pos, cur)
  PROVE  /\ pos % Base = pos - cur * Base
         /\ pos \div Base = cur
         /\ pos < nodes * Base
<1> DEFINE r == pos - cur * Base
<1>1. cur \in Nat /\ r \in 0 .. Base - 1 /\ pos = cur * Base + r
  BY BaseNat DEF InBlock
<1> HIDE DEF r
<1>2. (cur * Base + r) % Base = r /\ (cur * Base + r) \div Base = cur
  BY <1>1, BaseNat
<1>3. cur * Base + Base <= nodes * Base
  BY NextBlock
<1>4. cur * Base \in Nat /\ nodes * Base \in Int
  BY <1>1, BaseNat
<1> QED BY <1>1, <1>2, <1>3, <1>4, BaseNat DEF r

(* Bytes below the capacity are in memory.                                 *)
LEMMA CellOf ==
  ASSUME NEW nodes \in 1 .. MaxNodes, NEW i \in Nat, i < nodes * Base
  PROVE  i \in Cell
<1>1. nodes * Base <= MaxNodes * Base
  <2>1. nodes = MaxNodes \/ nodes < MaxNodes
    BY BaseNat
  <2> QED BY <2>1, Mul, BaseNat
<1>2. nodes * Base \in Int /\ MaxNodes * Base \in Int
  BY BaseNat
<1> QED BY <1>1, <1>2 DEF Cell

(* addCapacity: the position has its block, and size bytes fit.            *)
Added(nodes, pos, size) == IF nodes * Base - pos >= size THEN 0
                           ELSE CeilDiv(size - (nodes * Base - pos), Base)
CurWith(nodes, pos, cur, b) ==
  IF b > 0 /\ nodes * Base - pos = 0 THEN nodes ELSE cur

(* addCapacity adds enough blocks, and the null m_cur becomes the first of *)
(* them.                                                                   *)
LEMMA AddBlocks ==
  ASSUME NEW nodes \in Nat, NEW pos \in Nat, NEW cur \in Int, NEW size \in Nat \ {0},
         BlockOf(nodes, pos, cur), pos <= nodes * Base
  PROVE  LET b == Added(nodes, pos, size)
             c == CurWith(nodes, pos, cur, b)
         IN
         /\ b \in Nat
         /\ (nodes + b) * Base = nodes * Base + b * Base
         /\ pos + size <= (nodes + b) * Base
         /\ InBlock(nodes + b, pos, c)
         /\ c \in Int
<1> DEFINE cap == nodes * Base
           b == Added(nodes, pos, size)
           c == CurWith(nodes, pos, cur, b)
<1>0. /\ b = IF cap - pos >= size THEN 0 ELSE CeilDiv(size - (cap - pos), Base)
      /\ c = IF b > 0 /\ cap - pos = 0 THEN nodes ELSE cur
  BY DEF Added, CurWith
<1> HIDE DEF b, c
<1>1. cap \in Nat
  BY BaseNat
<1>2. b \in Nat /\ pos + size <= cap + b * Base /\ (cap - pos < size => b > 0)
  <2>1. CASE cap - pos >= size
    BY <2>1, <1>0, <1>1, BaseNat
  <2>2. CASE ~(cap - pos >= size)
    <3> DEFINE x == size - (cap - pos)
               a == x + Base - 1
    <3>1. x \in Nat \ {0} /\ a \in Nat
      BY <2>2, <1>1, BaseNat
    <3>2. b = a \div Base
      BY <2>2, <1>0 DEF CeilDiv
    <3>3. a = Base * (a \div Base) + (a % Base) /\ a \div Base \in Nat /\ a % Base \in 0 .. Base - 1
      <4>1. Base \in Nat \ {0}
        BY BaseNat
      <4> HIDE DEF a
      <4> QED BY <3>1, <4>1, Divide
    <3>4. a = Base * b + (a % Base) /\ b \in Nat /\ b * Base = Base * b
      BY <3>2, <3>3, BaseNat
    <3>5. b * Base \in Nat /\ b * Base >= x
      <4> HIDE DEF x
      <4> QED BY <3>1, <3>3, <3>4, BaseNat
    <3>6. b # 0
      BY <3>5, <3>1, BaseNat
    <3> HIDE DEF cap
    <3> QED BY <3>4, <3>5, <3>6, <1>1
  <2> QED BY <2>1, <2>2
<1>3. (nodes + b) * Base = cap + b * Base /\ b * Base \in Nat
  BY <1>2, BaseNat
<1>4. InBlock(nodes + b, pos, c) /\ c \in Int
  <2>1. CASE InBlock(nodes, pos, cur)
    <3>1. pos < cap
      BY <2>1, Place
    <3>2. c = cur
      <4> HIDE DEF cap
      <4>1. cap - pos # 0
        BY <3>1, <1>1
      <4> QED BY <4>1, <1>0
    <3> QED BY <2>1, <3>2, <1>2 DEF InBlock
  <2>2. CASE pos = cap /\ cur = null
    <3>1. b > 0 /\ cap - pos = 0
      BY <2>2, <1>1, <1>2
    <3>2. c = nodes
      BY <3>1, <1>0
    <3>3. pos - nodes * Base = 0
      BY <2>2, <1>1
    <3> QED BY <3>1, <3>2, <3>3, <1>2, BaseNat DEF InBlock
  <2> QED BY <2>1, <2>2 DEF BlockOf
<1> QED BY <1>2, <1>3, <1>4 DEF b, c

(* setPosition finds the block of its argument.                            *)
LEMMA NodeOfBlock ==
  ASSUME m_nodes \in Nat \ {0}, NEW v \in Nat, v <= m_nodes * Base
  PROVE  BlockOf(m_nodes, v, NodeOf(v)) /\ NodeOf(v) \in Int
<1> DEFINE n == IF v = 0 THEN 0 ELSE (v - 1) \div Base
<1>1. NodeOf(v) = IF v - n * Base = Base THEN next(n) ELSE n
  BY DEF NodeOf
<1>2. next(n) = nextOf(m_nodes, n)
  BY DEF next, nextOf
<1>3. CASE v = 0
  <2>1. NodeOf(v) = 0
    BY <1>1, <1>3, BaseNat
  <2> QED BY <2>1, <1>3, BaseNat DEF BlockOf, InBlock
<1>4. CASE v # 0
  <2> DEFINE q == (v - 1) \div Base
             r == (v - 1) % Base
  <2>1. v - 1 = Base * q + r /\ q \in Nat /\ r \in 0 .. Base - 1
    <3>1. v - 1 \in Nat /\ Base \in Nat \ {0}
      BY <1>4, BaseNat
    <3> QED BY <3>1, Divide
  <2>2. n = q
    BY <1>4
  <2> HIDE DEF q, r
  <2>3. Base * q = q * Base /\ q * Base \in Nat /\ m_nodes * Base \in Nat
    BY <2>1, BaseNat
  <2>4. q < m_nodes
    <3>1. q * Base < m_nodes * Base
      BY <2>1, <2>3, BaseNat
    <3> QED BY <3>1, <2>1, MulBack
  <2>5. InBlock(m_nodes, v - 1, q)
    BY <2>1, <2>3, <2>4 DEF InBlock
  <2>6. v - 1 \in Nat /\ v = (v - 1) + 1 /\ 1 <= Base - ((v - 1) - q * Base)
    BY <1>4, <2>1, <2>3, BaseNat
  <2>7. BlockOf(m_nodes, (v - 1) + 1,
              IF Base = ((v - 1) - q * Base) + 1 THEN nextOf(m_nodes, q) ELSE q)
    BY <2>1, <2>5, <2>6, Advance
  <2>8. NodeOf(v) = IF Base = ((v - 1) - q * Base) + 1 THEN nextOf(m_nodes, q) ELSE q
    BY <1>1, <1>2, <2>2, <2>3, <2>1, BaseNat
  <2> QED BY <2>1, <2>6, <2>7, <2>8 DEF nextOf, null
<1> QED BY <1>3, <1>4

-----------------------------------------------------------------------------
(* Arguments and codes.                                                    *)

(* The strings and files consist of bytes and their length is a word.      *)
LEMMA DataSeq == \A s \in Data : s \in Seq(Byte) /\ Len(s) \in Word
<1>1. 2 ^ (GroupBits + 1) = 2 * Group
  BY Power, ByteArrayAssumption DEF Group
<1>2. Byte = 0 .. 2 ^ (GroupBits + 1) - 1
  BY <1>1 DEF Byte
<1>3. \A s \in Data : s \in Seq(Byte) /\ Len(s) < 2 ^ Width
  BY <1>2, ByteArrayAssumption
<1>4. \A s \in Seq(Byte) : Len(s) \in Nat
  OBVIOUS
<1> QED BY <1>3, <1>4, WordNat DEF Word

LEMMA ValuesWord == Values \subseteq Word
BY ByteArrayAssumption DEF Word

LEMMA JunkByte == Junk \in Byte
<1>1. 2 ^ (GroupBits + 1) = 2 * Group
  BY Power, ByteArrayAssumption DEF Group
<1> QED BY <1>1, ByteArrayAssumption DEF Byte

LEMMA SwapSeq ==
  ASSUME NEW e, NEW s \in Seq(Byte)
  PROVE  Swap(e, s) \in Seq(Byte) /\ Len(Swap(e, s)) = Len(s)
BY ReverseSeq DEF Swap

LEMMA ArgumentArgs ==
  ASSUME NEW kind, NEW v, Argument(kind, v)
  PROVE  kind \in Written /\ v \in Args
<1>1. CASE kind \in {"uint", "fixed"} /\ v \in Word
  BY <1>1, WordNat DEF Args, Written
<1>2. CASE kind = "int" /\ \E w \in Word : v = Signed(w)
  BY <1>2, Zigzag DEF Args, Written
<1>3. CASE kind \in {"string", "bytes"} /\ v \in Seq(Byte)
  BY <1>3 DEF Args, Written
<1> QED BY <1>1, <1>2, <1>3 DEF Argument

(* What a writing function writes is a sequence of bytes.                  *)
LEMMA CodeSeq ==
  ASSUME NEW e, NEW kind, NEW v, Argument(kind, v)
  PROVE  Code(e, kind, v) \in Seq(Byte) /\ Len(Code(e, kind, v)) \in Nat
<1>1. CASE kind = "uint" /\ v \in Word
  <2>1. Code(e, kind, v) = Encode[v]
    BY <1>1 DEF Code
  <2> QED BY <2>1, <1>1, EncodeIs
<1>2. CASE kind = "fixed" /\ v \in Word
  <2>1. Code(e, kind, v) = Swap(e, Bytes(v))
    BY <1>2 DEF Code
  <2> QED BY <2>1, <1>2, FixedSeq, SwapSeq
<1>3. CASE kind = "int" /\ \E w \in Word : v = Signed(w)
  <2>1. Code(e, kind, v) = Encode[EncodeZigzag(v)]
    BY <1>3 DEF Code
  <2>2. EncodeZigzag(v) \in Word
    BY <1>3, Zigzag
  <2> QED BY <2>1, <2>2, EncodeIs
<1>4. CASE kind = "string" /\ v \in Seq(Byte) /\ Len(v) \in Word
  <2>1. Code(e, kind, v) = Encode[Len(v)] \o v
    BY <1>4 DEF Code
  <2>2. Encode[Len(v)] \in Seq(Byte)
    BY <1>4, EncodeIs
  <2> QED BY <2>1, <2>2, <1>4
<1>5. CASE kind = "bytes" /\ v \in Seq(Byte)
  <2>1. Code(e, kind, v) = v
    BY <1>5 DEF Code
  <2> QED BY <2>1, <1>5
<1> QED BY <1>1, <1>2, <1>3, <1>4, <1>5 DEF Argument

(* A function that writes all in one call of write() ...                   *)
LEMMA WholeAtHand ==
  ASSUME NEW code \in Seq(Byte)
  PROVE  AtHand(code, << >>, code, 0)
<1> DEFINE cut == [i \in 0 .. 0 |-> Len(code)]
<1>1. Len(<< >>) = 0 /\ Len(code) \in Nat /\ 0 + Len(code) = Len(code)
  OBVIOUS
<1>2. cut \in [0 .. 0 -> 0 .. Len(code)] /\ cut[0] = Len(code)
  BY <1>1
<1> HIDE DEF cut
<1>3. Pieces(<< >>, code, Len(code))
  BY <1>1, <1>2 DEF Pieces
<1>4. code = SubSeq(code, 1, Len(code))
  OBVIOUS
<1> QED BY <1>1, <1>3, <1>4 DEF AtHand

(* ... one that writes the length and then the string ...                  *)
LEMMA StringAtHand ==
  ASSUME NEW a \in Seq(Byte), NEW s \in Seq(Byte)
  PROVE  AtHand(a, <<s>>, a \o s, 0)
<1> DEFINE code == a \o s
           cut == [i \in 0 .. 1 |-> IF i = 0 THEN Len(a) ELSE Len(code)]
<1>1. Len(<<s>>) = 1 /\ Len(a) \in Nat /\ Len(code) = Len(a) + Len(s) /\ Len(s) \in Nat
  OBVIOUS
<1>2. cut \in [0 .. 1 -> 0 .. Len(code)] /\ cut[0] = Len(a) /\ cut[1] = Len(code)
  BY <1>1
<1>3. s = SubSeq(code, Len(a) + 1, Len(code)) /\ a = SubSeq(code, 1, Len(a))
  OBVIOUS
<1> HIDE DEF cut, code
<1>4. ASSUME NEW j \in 1 .. 1
      PROVE  cut[j - 1] <= cut[j] /\ <<s>>[j] = SubSeq(code, cut[j - 1] + 1, cut[j])
  <2>1. j = 1 /\ j - 1 = 0 /\ <<s>>[j] = s
    OBVIOUS
  <2>2. cut[0] <= cut[1]
    BY <1>1, <1>2
  <2>3. s = SubSeq(code, cut[0] + 1, cut[1])
    BY <1>2, <1>3
  <2> QED BY <2>1, <2>2, <2>3
<1>5. Pieces(<<s>>, code, Len(a))
  BY <1>1, <1>2, <1>4 DEF Pieces
<1> QED BY <1>1, <1>3, <1>5 DEF AtHand, code

(* ... and readFromFile, a block at a time, have their whole code at hand. *)
LEMMA FileAtHand ==
  ASSUME NEW s \in Seq(Byte)
  PROVE  LET rest == [i \in 1 .. Len(s) \div Base |-> Chunk(s, i + 1)] IN
         /\ Chunk(s, 1) \in Seq(Byte) /\ rest \in Seq(Seq(Byte))
         /\ AtHand(Chunk(s, 1), rest, s, 0)
<1> DEFINE L == Len(s)
           n == L \div Base
           rest == [i \in 1 .. n |-> Chunk(s, i + 1)]
           cut == [i \in 0 .. n |-> IF (i + 1) * Base < L THEN (i + 1) * Base ELSE L]
<1>1. L \in Nat /\ n \in Nat /\ L = Base * n + (L % Base) /\ L % Base \in 0 .. Base - 1
  <2>1. L \in Nat /\ Base \in Nat \ {0}
    BY BaseNat
  <2> HIDE DEF L
  <2> QED BY <2>1, Divide
<1> HIDE DEF n, L
<1>2. cut \in [0 .. n -> 0 .. L]
  <2> SUFFICES ASSUME NEW i \in 0 .. n
               PROVE  (IF (i + 1) * Base < L THEN (i + 1) * Base ELSE L) \in 0 .. L
    OBVIOUS
  <2>1. (i + 1) * Base \in Nat
    BY BaseNat, <1>1
  <2> QED BY <2>1, <1>1
<1>3. ASSUME NEW i \in 1 .. n + 1
      PROVE  LET c == IF i = 1 THEN 0 ELSE cut[i - 2] IN
             /\ c \in 0 .. L /\ c <= cut[i - 1]
             /\ Chunk(s, i) = SubSeq(s, c + 1, cut[i - 1])
  <2> DEFINE c == IF i = 1 THEN 0 ELSE cut[i - 2]
             x == (i - 1) * Base
             y == i * Base
  <2>1. i \in Nat /\ i - 1 \in 0 .. n /\ (i - 1) + 1 = i
    BY <1>1
  <2>2. x \in Nat /\ y = x + Base /\ y \in Nat
    BY <2>1, <1>1, BaseNat
  <2>3. cut[i - 1] = IF y < L THEN y ELSE L
    BY <2>1
  <2>4. x <= L
    <3>1. i - 1 = n \/ i - 1 < n
      BY <2>1, <1>1
    <3>2. x <= n * Base
      BY <3>1, Mul, BaseNat, <2>1, <1>1
    <3>3. n * Base = Base * n /\ n * Base \in Nat
      BY <1>1, BaseNat
    <3> HIDE DEF x
    <3> QED BY <3>2, <3>3, <1>1, <2>2, BaseNat
  <2>5. c = x
    <3>1. CASE i = 1
      BY <3>1, BaseNat
    <3>2. CASE i # 1
      <4>1. i - 2 \in 0 .. n /\ (i - 2) + 1 = i - 1
        BY <3>2, <2>1, <1>1
      <4>2. cut[i - 2] = IF x < L THEN x ELSE L
        BY <4>1
      <4> HIDE DEF x, cut
      <4> QED BY <4>2, <2>4, <2>2, <1>1, <3>2
    <3> QED BY <3>1, <3>2
  <2>6. Chunk(s, i) = SubSeq(s, x + 1, IF y < L THEN y ELSE L)
    BY DEF Chunk, L
  <2> HIDE DEF x, y, cut, c
  <2>7. c \in 0 .. L /\ c <= cut[i - 1]
    BY <2>2, <2>3, <2>4, <2>5, <1>1, BaseNat
  <2> QED BY <2>3, <2>5, <2>6, <2>7 DEF c
<1>4. cut[n] = L
  <2>1. (n + 1) * Base = n * Base + Base /\ n * Base = Base * n /\ n * Base \in Nat
    BY <1>1, BaseNat
  <2>2. ~((n + 1) * Base < L)
    BY <2>1, <1>1, BaseNat
  <2> QED BY <2>2, <1>1
<1> HIDE DEF cut
<1>5. Chunk(s, 1) = SubSeq(s, 1, cut[0])
  <2>1. 1 \in 1 .. n + 1 /\ 1 - 1 = 0 /\ 0 + 1 = 1
    BY <1>1
  <2> QED BY <2>1, <1>3
<1>6. cut[0] \in 0 .. L
  BY <1>2, <1>1
<1>7. Chunk(s, 1) \in Seq(Byte) /\ Len(Chunk(s, 1)) = cut[0]
  <2>1. \A c \in 0 .. Len(s) :
          SubSeq(s, 1, c) \in Seq(Byte) /\ Len(SubSeq(s, 1, c)) = c
    OBVIOUS
  <2> QED BY <2>1, <1>5, <1>6 DEF L
<1>8. ASSUME NEW j \in 1 .. n
      PROVE  /\ cut[j - 1] <= cut[j]
             /\ rest[j] = SubSeq(s, cut[j - 1] + 1, cut[j])
             /\ rest[j] \in Seq(Byte)
  <2>1. j + 1 \in 1 .. n + 1 /\ (j + 1) - 1 = j /\ (j + 1) - 2 = j - 1 /\ j + 1 # 1
        /\ j \in 0 .. n /\ j - 1 \in 0 .. n
    BY <1>1
  <2>2. Chunk(s, j + 1) = SubSeq(s, cut[j - 1] + 1, cut[j]) /\ cut[j - 1] <= cut[j]
    BY <2>1, <1>3
  <2>3. rest[j] = Chunk(s, j + 1)
    OBVIOUS
  <2>4. cut[j - 1] \in 0 .. L /\ cut[j] \in 0 .. L
    BY <2>1, <1>2
  <2>5. SubSeq(s, cut[j - 1] + 1, cut[j]) \in Seq(Byte)
    BY <2>4, <1>1 DEF L
  <2> QED BY <2>2, <2>3, <2>5
<1>9. rest \in [1 .. n -> Seq(Byte)]
  BY <1>8
<1>10. rest \in Seq(Seq(Byte)) /\ Len(rest) = n
  BY <1>9, <1>1
<1>11. Pieces(rest, s, cut[0])
  <2> HIDE DEF rest
  <2> QED BY <1>2, <1>4, <1>8, <1>10 DEF Pieces, L
<1>12. AtHand(Chunk(s, 1), rest, s, 0)
  <2> HIDE DEF rest
  <2>1. 0 + Len(Chunk(s, 1)) = cut[0]
    BY <1>6, <1>7
  <2> QED BY <2>1, <1>5, <1>6, <1>11, <1>1 DEF AtHand, L
<1> QED BY <1>7, <1>10, <1>12 DEF n, L

(* The pieces that are left after the first.                               *)
LEMMA NextPiece ==
  ASSUME NEW code \in Seq(Byte), NEW rest \in Seq(Seq(Byte)), rest # << >>,
         NEW p, Pieces(rest, code, p)
  PROVE  AtHand(Head(rest), Tail(rest), code, p)
<1> DEFINE n == Len(rest)
           L == Len(code)
           t == Tail(rest)
<1>1. PICK cut \in [0 .. n -> 0 .. L] :
        /\ cut[0] = p /\ cut[n] = L
        /\ \A j \in 1 .. n :
             cut[j - 1] <= cut[j] /\ rest[j] = SubSeq(code, cut[j - 1] + 1, cut[j])
  BY DEF Pieces
<1>2. n \in Nat \ {0} /\ L \in Nat /\ Len(t) = n - 1 /\ Head(rest) = rest[1]
      /\ \A j \in 1 .. n - 1 : t[j] = rest[j + 1]
  OBVIOUS
<1>3. 1 \in 1 .. n /\ 1 - 1 = 0 /\ 0 \in 0 .. n /\ 1 \in 0 .. n
  BY <1>2
<1>4. p \in 0 .. L /\ cut[1] \in 0 .. L /\ p <= cut[1]
      /\ Head(rest) = SubSeq(code, p + 1, cut[1])
  BY <1>1, <1>2, <1>3
<1>5. Len(Head(rest)) = cut[1] - p
  BY <1>4
<1>6. p + Len(Head(rest)) = cut[1]
  <2> DEFINE x == Len(Head(rest))
             c == cut[1]
  <2>1. p \in Nat /\ c \in Nat /\ p <= c /\ x = c - p
    BY <1>4, <1>5, <1>2
  <2> HIDE DEF x, c
  <2>2. p + x = c
    BY <2>1
  <2> QED BY <2>2 DEF x, c
<1> DEFINE new == [j \in 0 .. n - 1 |-> cut[j + 1]]
<1>7. new \in [0 .. Len(t) -> 0 .. L] /\ new[0] = cut[1] /\ new[Len(t)] = L
  BY <1>1, <1>2
<1>8. ASSUME NEW j \in 1 .. Len(t)
      PROVE  new[j - 1] <= new[j] /\ t[j] = SubSeq(code, new[j - 1] + 1, new[j])
  <2>1. j + 1 \in 1 .. n /\ (j + 1) - 1 = j /\ j \in 1 .. n - 1
        /\ new[j] = cut[j + 1] /\ new[j - 1] = cut[j]
    BY <1>2
  <2> HIDE DEF new
  <2> QED BY <2>1, <1>1, <1>2
<1> HIDE DEF new, t
<1>9. Pieces(t, code, cut[1])
  BY <1>7, <1>8 DEF Pieces
<1> DEFINE x == Head(rest)
<1>10. p + Len(x) <= L /\ x = SubSeq(code, p + 1, p + Len(x)) /\ Pieces(t, code, p + Len(x))
  <2>1. p + Len(x) = cut[1] /\ x = SubSeq(code, p + 1, cut[1]) /\ cut[1] <= L
    BY <1>2, <1>4, <1>6
  <2> HIDE DEF x, L
  <2> QED BY <2>1, <1>9
<1> HIDE DEF x
<1>11. AtHand(x, t, code, p)
  BY <1>10, Zenon DEF AtHand
<1> QED BY <1>11 DEF x, t

-----------------------------------------------------------------------------
(* The invariant, action by action: moving and making room.                *)

LEMMA IdleTyped == /\ Idle \in Calls /\ NoResult \in Results
                   /\ Idle.op = "none" /\ NoResult.kind \notin Written
                   /\ NoResult.kind # "room"
BY DEF Idle, Calls, Ops, Kinds, Args, NoResult, Results, Written

LEMMA BaseOne == 1 * Base = Base /\ 0 * Base = 0
BY BaseNat

(* The invariant holds in the constructed array.                           *)
LEMMA InitInv == Init => IInv
<1> SUFFICES ASSUME Init PROVE IInv
  OBVIOUS
<1> USE DEF Init
<1>1. Types
  BY IdleTyped, JunkByte, BaseNat DEF Types
<1>2. Geometry
  BY BaseNat, BaseOne DEF Geometry, BlockOf, InBlock
<1>3. Loop /\ Progress /\ Fresh
  BY IdleTyped DEF Loop, Progress, Fresh, Writing
<1> QED BY <1>1, <1>2, <1>3 DEF IInv

LEMMA StutterInv == IInv /\ UNCHANGED vars => IInv'
BY DEF IInv, vars, ba, Types, Geometry, Loop, Progress, Fresh

(* The operations that only move the position or drop blocks.              *)
LEMMA EndianInv == ASSUME IInv, setIsLittleEndian PROVE IInv'
<1> USE DEF setIsLittleEndian, ba
<1>1. Types'
  BY IdleTyped DEF IInv, Types
<1>2. Geometry'
  BY DEF IInv, Geometry
<1>3. call.op = "none"
  BY IdleTyped DEF Ready
<1>4. Loop' /\ Progress' /\ Fresh'
  BY <1>3, IdleTyped DEF IInv, Loop, Progress, Fresh, Writing
<1> QED BY <1>1, <1>2, <1>4 DEF IInv

LEMMA SeekInv == ASSUME IInv, NEW v \in 0 .. MaxNodes * Base, setPosition(v) PROVE IInv'
<1>0. v \in Nat
  BY BaseNat
<1>1. BlockOf(m_nodes, v, NodeOf(v)) /\ NodeOf(v) \in Int
  BY <1>0, NodeOfBlock DEF IInv, Types, Geometry, setPosition
<1> USE DEF setPosition
<1>2. Types'
  BY <1>0, <1>1, IdleTyped DEF IInv, Types
<1>3. Geometry'
  BY <1>0, <1>1 DEF IInv, Types, Geometry
<1>4. call.op = "none" /\ crash = "none" /\ call' = call
  BY IdleTyped DEF Ready
<1>5. Loop'
  BY <1>0, <1>4, IdleTyped DEF IInv, Loop, Types
<1>6. Progress' /\ Fresh'
  BY <1>4, IdleTyped DEF Progress, Fresh, Writing
<1> QED BY <1>2, <1>3, <1>5, <1>6 DEF IInv

LEMMA ClearInv == ASSUME IInv, clear PROVE IInv'
<1> USE DEF clear
<1>1. Types'
  BY JunkByte, IdleTyped, BaseNat DEF IInv, Types
<1>2. Geometry'
  BY BaseNat, BaseOne DEF Geometry, BlockOf, InBlock
<1>3. call.op = "none" /\ crash = "none" /\ call' = call
  BY IdleTyped DEF Ready
<1>4. Loop'
  BY <1>3 DEF IInv, Loop
<1>5. Progress' /\ Fresh'
  BY <1>3, IdleTyped DEF Progress, Fresh, Writing
<1> QED BY <1>1, <1>2, <1>4, <1>5 DEF IInv

-----------------------------------------------------------------------------
(* Writing.                                                                *)

(* The start of a writing function.                                        *)
LEMMA WritesInv ==
  ASSUME IInv, NEW kind, NEW v, NEW s \in Seq(Byte), NEW rest \in Seq(Seq(Byte)),
         Writes(kind, v, s, rest), Argument(kind, v),
         AtHand(s, rest, Code(m_endian, kind, v), 0)
  PROVE  IInv'
<1> DEFINE c == [Idle EXCEPT !.op = "more", !.kind = kind, !.val = v,
                          !.todo = s, !.rest = rest, !.from = m_position]
<1>1. /\ call' = c /\ got' = << >> /\ result' = NoResult
      /\ UNCHANGED <<ba, m_endian, mem, crash>> /\ call = Idle /\ crash = "none"
  BY DEF Writes, Ready
<1>2. /\ c.op = "more" /\ c.kind = kind /\ c.val = v /\ c.todo = s /\ c.rest = rest
      /\ c.from = m_position
  BY DEF Idle
<1>3. kind \in Kinds /\ v \in Args
  BY ArgumentArgs DEF Kinds
<1>4. m_position \in Nat
  BY DEF IInv, Types
<1>5. c \in Calls
  BY <1>3, <1>4, IdleTyped DEF Calls, Ops
<1> HIDE DEF c
<1>6. Types'
  BY <1>1, <1>5, IdleTyped DEF IInv, Types, ba
<1>7. Geometry'
  BY <1>1 DEF IInv, Geometry, ba
<1>8. Loop'
  BY <1>1, <1>2, IdleTyped DEF IInv, Loop, ba
<1>9. Progress'
  <2>1. m_position - m_position = 0 /\ Len(Code(m_endian, kind, v)) \in Nat
    BY <1>4, CodeSeq
  <2>2. StoredUpTo(mem, m_position, m_position, Code(m_endian, kind, v))
    BY <2>1, <1>4 DEF StoredUpTo
  <2> QED BY <1>1, <1>2, <2>1, <2>2 DEF Progress, ba
<1>10. Fresh'
  BY <1>1, <1>2, IdleTyped DEF Fresh
<1> QED BY <1>6, <1>7, <1>8, <1>9, <1>10 DEF IInv

(* The writing functions one by one.                                       *)
LEMMA WriteCallsInv ==
  ASSUME IInv,
         \/ \E v \in Values : writeUint(v) \/ writeInt(Signed(v)) \/ writeFuint(v)
         \/ \E s \in Data :
              writeString(s) \/ writeStringWithoutLength(s) \/ readFromFile(s)
  PROVE  IInv'
<1>1. << >> \in Seq(Seq(Byte))
  OBVIOUS
<1>2. ASSUME NEW v \in Values, writeUint(v) PROVE IInv'
  <2>1. v \in Word /\ Encode[v] \in Seq(Byte)
    BY ValuesWord, EncodeIs
  <2>2. Argument("uint", v) /\ Code(m_endian, "uint", v) = Encode[v]
    BY <2>1 DEF Argument, Code
  <2>3. AtHand(Encode[v], << >>, Code(m_endian, "uint", v), 0)
    BY <2>1, <2>2, WholeAtHand
  <2> QED BY <1>1, <1>2, <2>1, <2>2, <2>3, WritesInv DEF writeUint
<1>3. ASSUME NEW v \in Values, writeInt(Signed(v)) PROVE IInv'
  <2> DEFINE w == Signed(v)
  <2>1. v \in Word /\ EncodeZigzag(w) \in Word /\ Encode[EncodeZigzag(w)] \in Seq(Byte)
    BY ValuesWord, EncodeIs, Zigzag
  <2>2. Argument("int", w) /\ Code(m_endian, "int", w) = Encode[EncodeZigzag(w)]
    BY <2>1 DEF Argument, Code
  <2>3. AtHand(Encode[EncodeZigzag(w)], << >>, Code(m_endian, "int", w), 0)
    BY <2>1, <2>2, WholeAtHand
  <2> HIDE DEF w
  <2> QED BY <1>1, <1>3, <2>1, <2>2, <2>3, WritesInv DEF writeInt, w
<1>4. ASSUME NEW v \in Values, writeFuint(v) PROVE IInv'
  <2>1. v \in Word /\ Fixed(v) \in Seq(Byte) /\ Fixed(v) = Swap(m_endian, Bytes(v))
    BY ValuesWord, FixedSeq DEF Swap, byteswap
  <2>2. Argument("fixed", v) /\ Code(m_endian, "fixed", v) = Fixed(v)
    BY <2>1 DEF Argument, Code
  <2>3. AtHand(Fixed(v), << >>, Code(m_endian, "fixed", v), 0)
    BY <2>1, <2>2, WholeAtHand
  <2> QED BY <1>1, <1>4, <2>1, <2>2, <2>3, WritesInv DEF writeFuint
<1>5. ASSUME NEW s \in Data, writeString(s) PROVE IInv'
  <2>1. s \in Seq(Byte) /\ Len(s) \in Word /\ Encode[Len(s)] \in Seq(Byte)
    BY DataSeq, EncodeIs
  <2>2. Argument("string", s) /\ Code(m_endian, "string", s) = Encode[Len(s)] \o s
    BY <2>1 DEF Argument, Code
  <2>3. AtHand(Encode[Len(s)], <<s>>, Code(m_endian, "string", s), 0)
    BY <2>1, <2>2, StringAtHand
  <2>4. <<s>> \in Seq(Seq(Byte))
    BY <2>1
  <2> QED BY <1>5, <2>1, <2>2, <2>3, <2>4, WritesInv DEF writeString
<1>6. ASSUME NEW s \in Data, writeStringWithoutLength(s) PROVE IInv'
  <2>1. s \in Seq(Byte)
    BY DataSeq
  <2>2. Argument("bytes", s) /\ Code(m_endian, "bytes", s) = s
    BY <2>1 DEF Argument, Code
  <2>3. AtHand(s, << >>, Code(m_endian, "bytes", s), 0)
    BY <2>1, <2>2, WholeAtHand
  <2> QED BY <1>1, <1>6, <2>1, <2>2, <2>3, WritesInv DEF writeStringWithoutLength
<1>7. ASSUME NEW s \in Data, readFromFile(s) PROVE IInv'
  <2> DEFINE first == Chunk(s, 1)
             rest == [i \in 1 .. Len(s) \div Base |-> Chunk(s, i + 1)]
  <2>1. s \in Seq(Byte)
    BY DataSeq
  <2>2. Argument("bytes", s) /\ Code(m_endian, "bytes", s) = s
    BY <2>1 DEF Argument, Code
  <2>3. /\ first \in Seq(Byte) /\ rest \in Seq(Seq(Byte))
        /\ AtHand(first, rest, Code(m_endian, "bytes", s), 0)
    BY <2>1, <2>2, FileAtHand
  <2>4. Writes("bytes", s, first, rest)
    BY <1>7 DEF readFromFile
  <2> HIDE DEF first, rest
  <2> QED BY <2>2, <2>3, <2>4, WritesInv
<1> QED BY <1>2, <1>3, <1>4, <1>5, <1>6, <1>7

(* addCapacity keeps the block of the position and makes room.             *)
LEMMA Grows ==
  ASSUME Types, Geometry, NEW size \in Nat \ {0}, addCapacity(size)
  PROVE  /\ m_nodes' \in 1 .. MaxNodes /\ m_capacity' \in Nat /\ m_cur' \in Int
         /\ m_capacity' = m_nodes' * Base /\ m_capacity <= m_capacity'
         /\ m_position + size <= m_capacity'
         /\ InBlock(m_nodes', m_position, m_cur')
<1> DEFINE b == Blocks(size)
<1>1. /\ m_nodes \in Nat /\ m_position \in Nat /\ m_cur \in Int
      /\ BlockOf(m_nodes, m_position, m_cur) /\ m_position <= m_nodes * Base
      /\ m_capacity = m_nodes * Base /\ m_nodes >= 1 /\ m_capacity \in Nat
  BY DEF Types, Geometry
<1>2. b = Added(m_nodes, m_position, size)
  BY <1>1 DEF Blocks, getCapacity, Added
<1>3. m_cur' = CurWith(m_nodes, m_position, m_cur, b)
  BY <1>1 DEF addCapacity, CurAfter, getCapacity, CurWith
<1>4. m_nodes' = m_nodes + b /\ m_nodes' <= MaxNodes /\ m_capacity' = m_capacity + b * Base
  BY DEF addCapacity
<1> HIDE DEF b
<1>5. /\ b \in Nat /\ (m_nodes + b) * Base = m_nodes * Base + b * Base
      /\ m_position + size <= (m_nodes + b) * Base
      /\ InBlock(m_nodes + b, m_position, m_cur') /\ m_cur' \in Int
  <2> DEFINE a == Added(m_nodes, m_position, size)
             c == CurWith(m_nodes, m_position, m_cur, a)
  <2>1. /\ a \in Nat /\ (m_nodes + a) * Base = m_nodes * Base + a * Base
        /\ m_position + size <= (m_nodes + a) * Base
        /\ InBlock(m_nodes + a, m_position, c)
    <3>1. /\ m_nodes \in Nat /\ m_position \in Nat /\ m_cur \in Int
          /\ BlockOf(m_nodes, m_position, m_cur) /\ m_position <= m_nodes * Base
      BY <1>1
    <3> QED BY <3>1, AddBlocks
  <2>2. a = b /\ m_cur' = c
    BY <1>2, <1>3
  <2> HIDE DEF a, c
  <2>3. c \in Int
    BY <2>1 DEF InBlock
  <2> QED BY <2>1, <2>2, <2>3
<1>6. b * Base \in Nat
  BY <1>5, BaseNat
<1> QED BY <1>1, <1>4, <1>5, <1>6, BaseNat

(* getWriteBuffers makes room.                                             *)
LEMMA RoomInv == ASSUME IInv, NEW n \in 1 .. Base, getWriteBuffers(n) PROVE IInv'
<1>0. n \in Nat \ {0} /\ Types /\ Geometry
  BY BaseNat DEF IInv
<1>1. /\ result' = [NoResult EXCEPT !.kind = "room", !.val = n] /\ got' = << >>
      /\ UNCHANGED <<m_position, m_size, m_endian, mem, call, crash>>
      /\ call = Idle /\ crash = "none"
  BY DEF getWriteBuffers, Ready
<1>2. /\ m_nodes' \in 1 .. MaxNodes /\ m_capacity' \in Nat /\ m_cur' \in Int
      /\ m_capacity' = m_nodes' * Base /\ m_capacity <= m_capacity'
      /\ m_position + n <= m_capacity'
      /\ InBlock(m_nodes', m_position, m_cur')
  BY <1>0, Grows DEF getWriteBuffers
<1>3. /\ result' \in Results /\ result'.kind = "room" /\ result'.val = n
  <2>1. "room" \in Kinds /\ n \in Args
    BY <1>0 DEF Kinds, Args
  <2> QED BY <1>1, <2>1, IdleTyped DEF Results
<1>4. Types'
  BY <1>0, <1>1, <1>2, <1>3, IdleTyped DEF Types
<1>5. Geometry'
  BY <1>0, <1>1, <1>2 DEF Types, Geometry, BlockOf
<1>6. call'.op = "none" /\ call' = Idle
  BY <1>1, IdleTyped
<1>7. Loop'
  BY <1>1, <1>6, IdleTyped DEF IInv, Loop
<1>8. Progress' /\ Fresh'
  BY <1>0, <1>1, <1>2, <1>3, <1>6 DEF Progress, Fresh, Writing, Written
<1> QED BY <1>4, <1>5, <1>7, <1>8 DEF IInv

(* write() up to its loop.                                                 *)
LEMMA WriteBeginsInv == ASSUME IInv, WriteBegins PROVE IInv'
<1> DEFINE n == Len(call.todo)
           c == [call EXCEPT !.op = "write", !.npos = Npos, !.ncap = Base - Npos]
<1>0. Types /\ Geometry /\ call.todo \in Seq(Byte) /\ call \in Calls
  BY DEF IInv, Types, Calls
<1>1. /\ call.op = "more" /\ call.todo # << >> /\ addCapacity(n) /\ call' = c
      /\ crash' = (IF m_cur' = null THEN "write" ELSE crash)
      /\ UNCHANGED <<m_position, m_size, m_endian, mem, got, result>>
  BY DEF WriteBegins
<1>2. n \in Nat \ {0}
  BY <1>0, <1>1
<1>3. /\ m_nodes' \in 1 .. MaxNodes /\ m_capacity' \in Nat /\ m_cur' \in Int
      /\ m_capacity' = m_nodes' * Base /\ m_capacity <= m_capacity'
      /\ m_position + n <= m_capacity'
      /\ InBlock(m_nodes', m_position, m_cur')
  BY <1>0, <1>1, <1>2, Grows
<1>4. /\ Npos = m_position - m_cur' * Base /\ Npos \in 0 .. Base - 1
  <2>1. m_position \in Nat /\ m_nodes' \in Nat
    BY <1>0, <1>3 DEF Types
  <2>2. m_position % Base = m_position - m_cur' * Base
    BY <2>1, <1>3, Place
  <2> QED BY <2>2, <1>3 DEF Npos, InBlock
<1>5. /\ c \in Calls /\ c.op = "write" /\ c.npos = Npos /\ c.ncap = Base - Npos
      /\ c.todo = call.todo /\ c.rest = call.rest /\ c.kind = call.kind
      /\ c.val = call.val /\ c.from = call.from /\ c.size = call.size
  <2>1. Npos \in Nat /\ Base - Npos \in Nat
    BY <1>4, BaseNat
  <2> HIDE DEF Npos
  <2> QED BY <1>0, <2>1 DEF Calls, Ops
<1> HIDE DEF c
<1>6. crash' = crash /\ crash = "none" /\ m_cur' # null
  BY <1>1, <1>3 DEF IInv, Loop, InBlock, null
<1>7. Types'
  BY <1>0, <1>1, <1>3, <1>5, <1>6 DEF Types
<1>8. Geometry'
  BY <1>0, <1>1, <1>3 DEF Types, Geometry, BlockOf
<1>9. Loop'
  BY <1>1, <1>3, <1>4, <1>5, <1>6 DEF IInv, Loop
<1>10. Progress' /\ Fresh'
  BY <1>1, <1>5 DEF IInv, Progress, Fresh, Writing, NoResult
<1> QED BY <1>7, <1>8, <1>9, <1>10 DEF IInv

LEMMA WriteNothingInv == ASSUME IInv, WriteNothing PROVE IInv'
<1> DEFINE c == [call EXCEPT !.op = "wrote"]
<1>0. Types /\ call.todo \in Seq(Byte) /\ call \in Calls /\ m_position - call.from \in Int
  BY DEF IInv, Types, Calls
<1>1. /\ call.op = "more" /\ call.todo = << >> /\ call' = c
      /\ UNCHANGED <<ba, m_endian, mem, got, result, crash>>
  BY DEF WriteNothing
<1>2. /\ c \in Calls /\ c.op = "wrote" /\ c.todo = call.todo /\ c.rest = call.rest
      /\ c.kind = call.kind /\ c.val = call.val /\ c.from = call.from
  BY <1>0 DEF Calls, Ops
<1> HIDE DEF c
<1>3. Types' /\ Geometry'
  BY <1>0, <1>1, <1>2 DEF IInv, Types, Geometry, ba
<1>4. Loop'
  BY <1>1, <1>2 DEF IInv, Loop, ba
<1>5. Progress'
  <2>1. Len(call.todo) = 0 /\ (m_position - call.from) + 0 = m_position - call.from
    BY <1>0, <1>1
  <2> QED BY <1>1, <1>2, <2>1 DEF IInv, Progress, AtHand, Writing, ba
<1>6. Fresh'
  BY <1>1, <1>2 DEF IInv, Fresh, NoResult, Written, ba
<1> QED BY <1>3, <1>4, <1>5, <1>6 DEF IInv

-----------------------------------------------------------------------------
(* The invariant, action by action: writing.                               *)

(* What a part of a sequence holds.                                        *)
LEMMA Piece ==
  ASSUME NEW s \in Seq(Byte), NEW a \in Nat, NEW n \in Nat, a + n <= Len(s)
  PROVE  LET u == SubSeq(s, a + 1, a + n) IN
         /\ u \in Seq(Byte) /\ Len(u) = n
         /\ \A k \in 1 .. n : u[k] = s[a + k]
OBVIOUS

(* A turn of the writing loop stores the next n bytes.                     *)
LEMMA Stores ==
  ASSUME IInv, call.op = "write", NEW n \in Nat, n <= Len(call.todo), n <= call.ncap,
         Store(n)
  PROVE  LET code == Code(m_endian, call.kind, call.val) IN
         /\ mem' \in [Cell -> Byte]
         /\ \A i \in Cell : i \notin m_position .. m_position + n - 1 => mem'[i] = mem[i]
         /\ m_position + n <= m_capacity
         /\ StoredUpTo(mem', m_position + n, call.from, code)
         /\ n + (m_position - call.from) <= Len(code)
<1> DEFINE code == Code(m_endian, call.kind, call.val)
           p == m_position
           todo == call.todo
           from == call.from
           done == p - from
<1>1. /\ mem \in [Cell -> Byte] /\ call \in Calls /\ p \in Nat /\ m_nodes \in 1 .. MaxNodes
      /\ m_capacity \in Nat /\ m_cur \in Int
  BY DEF IInv, Types
<1>2. todo \in Seq(Byte) /\ from \in Nat
  BY <1>1 DEF Calls
<1>3. /\ InBlock(m_nodes, p, m_cur) /\ call.npos = p - m_cur * Base
      /\ p + Len(todo) <= m_capacity /\ m_capacity = m_nodes * Base
  BY DEF IInv, Loop, Geometry
<1>4. /\ Argument(call.kind, call.val) /\ StoredUpTo(mem, p, from, code)
      /\ AtHand(todo, call.rest, code, done)
  BY DEF IInv, Progress, Writing
<1>5. code \in Seq(Byte) /\ Len(code) \in Nat
  BY <1>4, CodeSeq
<1> HIDE DEF code
<1>6. /\ from <= p /\ done <= Len(code) /\ done \in Nat /\ Len(todo) \in Nat
      /\ \A k \in 1 .. done : mem[from + k - 1] = code[k]
      /\ done + Len(todo) <= Len(code) /\ todo = SubSeq(code, done + 1, done + Len(todo))
  BY <1>1, <1>2, <1>4, <1>5 DEF StoredUpTo, AtHand
<1>7. m_cur * Base + call.npos = p /\ m_cur * Base \in Int
  BY <1>1, <1>3, BaseNat
<1>8. mem' = [i \in Cell |-> LET k == i - p IN
                IF k \in 0 .. n - 1 THEN todo[k + 1] ELSE mem[i]]
  BY <1>7 DEF Store
<1>9. \A i \in Cell : i \in Nat
  BY BaseNat DEF Cell
<1>10. \A k \in 1 .. Len(todo) : todo[k] \in Byte /\ todo[k] = code[done + k]
  <2> DEFINE u == SubSeq(code, done + 1, done + Len(todo))
  <2>1. \A k \in 1 .. Len(todo) : u[k] = code[done + k]
    <3> HIDE DEF done
    <3> QED BY <1>5, <1>6, Piece
  <2>2. todo = u
    BY <1>6
  <2> HIDE DEF u, todo
  <2> QED BY <1>2, <2>1, <2>2
<1>20. done = p - from /\ n <= Len(todo)
  OBVIOUS
<1>21. /\ done \in Nat /\ Len(todo) \in Nat /\ Len(code) \in Nat /\ p \in Nat
       /\ done + Len(todo) <= Len(code) /\ p + Len(todo) <= m_capacity
       /\ m_capacity \in Nat
  BY <1>1, <1>3, <1>5, <1>6
<1> HIDE DEF todo, p, from, done
<1>11. mem' \in [Cell -> Byte]
  <2> SUFFICES ASSUME NEW i \in Cell
               PROVE  (IF i - p \in 0 .. n - 1 THEN todo[(i - p) + 1] ELSE mem[i]) \in Byte
    BY <1>8
  <2>1. CASE i - p \in 0 .. n - 1
    <3>1. i \in Nat /\ Len(todo) \in Nat /\ n <= Len(todo) /\ p \in Nat
      BY <1>9, <1>20, <1>21
    <3>2. (i - p) + 1 \in 1 .. Len(todo)
      BY <2>1, <3>1
    <3> QED BY <2>1, <3>2, <1>10
  <2>2. CASE i - p \notin 0 .. n - 1
    BY <2>2, <1>1
  <2> QED BY <2>1, <2>2
<1>12. ASSUME NEW i \in Cell, i \notin p .. p + n - 1 PROVE mem'[i] = mem[i]
  <2>1. i - p \notin 0 .. n - 1
    BY <1>9, <1>1, <1>12
  <2> QED BY <2>1, <1>8
<1>13. p + n <= m_capacity /\ done + n <= Len(code)
  BY <1>20, <1>21
<1>14. ASSUME NEW k \in 1 .. (p + n) - from PROVE mem'[from + k - 1] = code[k]
  <2> DEFINE i == from + k - 1
  <2>1. i \in Nat /\ i < m_nodes * Base /\ k \in Nat
    BY <1>1, <1>2, <1>3, <1>6, <1>13, <1>20
  <2>2. i \in Cell
    BY <2>1, <1>1, CellOf
  <2>3. CASE k <= done
    <3>1. i \notin p .. p + n - 1 /\ k \in 1 .. done
      BY <2>3, <1>1, <1>2, <1>6, <2>1, <1>20
    <3> QED BY <3>1, <2>2, <1>12, <1>6
  <2>4. CASE k > done
    <3>1. i - p \in 0 .. n - 1 /\ (i - p) + 1 \in 1 .. Len(todo) /\ done + ((i - p) + 1) = k
      BY <2>4, <1>1, <1>2, <1>6, <2>1, <1>20
    <3>2. mem'[i] = todo[(i - p) + 1]
      BY <3>1, <2>2, <1>8
    <3> HIDE DEF i
    <3>3. todo[(i - p) + 1] = code[done + ((i - p) + 1)]
      BY <3>1, <1>10
    <3> QED BY <3>1, <3>2, <3>3 DEF i
  <2> QED BY <2>3, <2>4, <2>1, <1>6
<1>15. (p + n) - from = done + n /\ from <= p + n /\ n + done = done + n
  BY <1>1, <1>2, <1>6, <1>20
<1>16. StoredUpTo(mem', p + n, from, code)
  BY <1>13, <1>14, <1>15 DEF StoredUpTo
<1> QED BY <1>11, <1>12, <1>13, <1>15, <1>16 DEF p, from, code, done

LEMMA Part ==
  ASSUME NEW s \in Seq(Byte), NEW a \in Nat, NEW b \in Nat, a <= b, b <= Len(s)
  PROVE  /\ SubSeq(s, a + 1, b) \in Seq(Byte)
         /\ Len(SubSeq(s, a + 1, b)) = b - a
         /\ \A k \in 1 .. b - a : SubSeq(s, a + 1, b)[k] = s[a + k]
OBVIOUS

(* What is left to write after n bytes.                                    *)
LEMMA LeftAtHand ==
  ASSUME NEW code \in Seq(Byte), NEW todo \in Seq(Byte), NEW rest, NEW p \in Nat,
         AtHand(todo, rest, code, p), NEW n \in Nat, n <= Len(todo)
  PROVE  /\ SubSeq(todo, n + 1, Len(todo)) \in Seq(Byte)
         /\ Len(SubSeq(todo, n + 1, Len(todo))) = Len(todo) - n
         /\ AtHand(SubSeq(todo, n + 1, Len(todo)), rest, code, p + n)
<1> DEFINE t == SubSeq(todo, n + 1, Len(todo))
           u == SubSeq(code, (p + n) + 1, p + Len(todo))
           L == Len(todo)
<1>0. todo = SubSeq(code, p + 1, p + L) /\ Pieces(rest, code, p + L)
  BY DEF AtHand
<1>1. L \in Nat /\ Len(code) \in Nat /\ p + L <= Len(code) /\ n <= L
  BY DEF AtHand
<1> HIDE DEF L
<1>2. /\ t \in Seq(Byte) /\ Len(t) = L - n
      /\ \A k \in 1 .. L - n : t[k] = todo[n + k]
  BY <1>1, Part DEF L
<1>3. /\ u \in Seq(Byte) /\ Len(u) = L - n
      /\ \A k \in 1 .. L - n : u[k] = code[(p + n) + k]
  <2>1. p + n \in Nat /\ p + L \in Nat /\ p + n <= p + L /\ (p + L) - (p + n) = L - n
    BY <1>1
  <2> HIDE DEF u
  <2>2. \A a, b \in Nat : a <= b /\ b <= Len(code) =>
          /\ SubSeq(code, a + 1, b) \in Seq(Byte)
          /\ Len(SubSeq(code, a + 1, b)) = b - a
          /\ \A k \in 1 .. b - a : SubSeq(code, a + 1, b)[k] = code[a + k]
    BY Part
  <2>3. /\ u \in Seq(Byte) /\ Len(u) = (p + L) - (p + n)
        /\ \A k \in 1 .. (p + L) - (p + n) : u[k] = code[(p + n) + k]
    BY <2>1, <2>2, <1>1 DEF u, L
  <2> QED BY <2>1, <2>3
<1>4. ASSUME NEW k \in 1 .. L - n PROVE t[k] = u[k]
  <2>2. n + k \in 1 .. L /\ p + (n + k) = (p + n) + k
    BY <1>1
  <2>3. todo[n + k] = code[p + (n + k)]
    <3> DEFINE w == SubSeq(code, p + 1, p + L)
    <3>1. \A j \in 1 .. L : w[j] = code[p + j]
      BY <1>1, Piece
    <3>2. todo = w
      BY <1>0
    <3> HIDE DEF w
    <3> QED BY <2>2, <3>1, <3>2
  <2> HIDE DEF t, u
  <2> QED BY <2>2, <2>3, <1>2, <1>3
<1> HIDE DEF t, u
<1>5. t = u
  BY <1>2, <1>3, <1>4, SeqEqual
<1>6. (p + n) + Len(t) = p + L
  BY <1>1, <1>2
<1>7. AtHand(t, rest, code, p + n)
  <2>1. t = SubSeq(code, (p + n) + 1, (p + n) + Len(t))
    BY <1>5, <1>6 DEF u, L
  <2>2. (p + n) + Len(t) <= Len(code) /\ Pieces(rest, code, (p + n) + Len(t))
    BY <1>0, <1>1, <1>6
  <2> QED BY <2>1, <2>2, Zenon DEF AtHand
<1> QED BY <1>2, <1>7 DEF t, L

(* A block is filled and another one follows.                              *)
LEMMA WriteFillsInv == ASSUME IInv, WriteFills PROVE IInv'
<1> DEFINE n == call.ncap
           L == Len(call.todo)
           t == SubSeq(call.todo, n + 1, L)
           c == [call EXCEPT !.todo = t, !.npos = 0, !.ncap = Base]
           code == Code(m_endian, call.kind, call.val)
           done == m_position - call.from
<1>0. /\ Types /\ Geometry /\ call \in Calls /\ m_position \in Nat /\ m_nodes \in 1 .. MaxNodes
      /\ m_cur \in Int /\ m_nodes \in Nat /\ m_size \in Nat /\ m_capacity \in Nat
  BY DEF IInv, Types
<1>1. /\ call.op = "write" /\ n < L /\ Store(n)
      /\ m_position' = m_position + n /\ m_cur' = next(m_cur)
      /\ crash' = (IF next(m_cur) = null THEN "write" ELSE crash) /\ crash = "none"
      /\ call' = c
      /\ UNCHANGED <<m_size, m_capacity, m_nodes, m_endian, got, result>>
  BY DEF WriteFills
<1>2. call.todo \in Seq(Byte) /\ n \in Nat /\ L \in Nat /\ call.from \in Nat /\ call.npos \in Nat
  BY <1>0 DEF Calls
<1>3. /\ InBlock(m_nodes, m_position, m_cur) /\ call.npos = m_position - m_cur * Base
      /\ n = Base - call.npos
      /\ m_position + L <= m_capacity /\ m_capacity = m_nodes * Base
  BY <1>1 DEF IInv, Loop, Geometry
<1>4. /\ mem' \in [Cell -> Byte]
      /\ StoredUpTo(mem', m_position + n, call.from, code)
  BY <1>1, <1>2, Stores
<1>5. /\ Argument(call.kind, call.val) /\ AtHand(call.todo, call.rest, code, done)
      /\ StoredUpTo(mem, m_position, call.from, code) /\ got = << >>
  BY <1>1 DEF IInv, Progress, Writing
<1>6. code \in Seq(Byte) /\ done \in Nat
  BY <1>0, <1>2, <1>5, CodeSeq DEF StoredUpTo
<1> HIDE DEF code
<1>7. /\ t \in Seq(Byte) /\ Len(t) = L - n /\ AtHand(t, call.rest, code, done + n)
  <2> DEFINE todo == call.todo
  <2>1. n \in Nat /\ n <= Len(todo) /\ todo \in Seq(Byte) /\ AtHand(todo, call.rest, code, done)
    BY <1>1, <1>2, <1>5
  <2> HIDE DEF todo, n, done
  <2>2. /\ SubSeq(todo, n + 1, Len(todo)) \in Seq(Byte)
        /\ Len(SubSeq(todo, n + 1, Len(todo))) = Len(todo) - n
        /\ AtHand(SubSeq(todo, n + 1, Len(todo)), call.rest, code, done + n)
    BY <2>1, <1>6, LeftAtHand
  <2> QED BY <2>2 DEF todo
<1>8. /\ c \in Calls /\ c.op = "write" /\ c.npos = 0 /\ c.ncap = Base /\ c.todo = t
      /\ c.rest = call.rest /\ c.kind = call.kind /\ c.val = call.val
      /\ c.from = call.from /\ c.size = call.size
  <2> HIDE DEF t
  <2> QED BY <1>0, <1>1, <1>7, BaseNat DEF Calls
<1> HIDE DEF c, t
<1>9. /\ m_position + n = m_cur * Base + Base /\ m_cur * Base \in Int
  BY <1>0, <1>3, BaseNat
<1>10. m_position + n < m_nodes * Base
  BY <1>0, <1>1, <1>2, <1>3
<1>11. next(m_cur) = nextOf(m_nodes, m_cur)
  BY DEF next, nextOf
<1>12. /\ m_cur' = m_cur + 1 /\ InBlock(m_nodes, m_position', m_cur') /\ m_cur' # null
       /\ m_position' = m_cur' * Base
  <2>1. InBlock(m_nodes, m_cur * Base + Base, m_cur + 1) /\ nextOf(m_nodes, m_cur) = m_cur + 1
    BY <1>0, <1>3, <1>9, <1>10, NextBlock
  <2>2. (m_cur + 1) * Base = m_cur * Base + Base
    BY <1>0, BaseNat
  <2> QED BY <2>1, <2>2, <1>1, <1>9, <1>11 DEF InBlock, null
<1>13. crash' = "none"
  BY <1>1, <1>12
<1>14. Types'
  <2>1. m_position' \in Nat /\ m_cur' \in Int
    BY <1>0, <1>1, <1>2, <1>12
  <2> QED BY <2>1, <1>0, <1>1, <1>4, <1>8, <1>13 DEF Types
<1>15. Geometry'
  BY <1>0, <1>1, <1>3, <1>10, <1>12 DEF Geometry, BlockOf
<1>16. Loop'
  <2>1. m_position' + Len(t) <= m_capacity' /\ t # << >>
    <3>1. t \in Seq(Byte) /\ Len(t) = L - n /\ L - n > 0
      BY <1>1, <1>2, <1>7
    <3>2. t # << >>
      BY <3>1
    <3>3. m_position' = m_position + n /\ m_capacity' = m_capacity /\ m_position + L <= m_capacity
      BY <1>1, <1>3
    <3> HIDE DEF n, L
    <3> QED BY <3>1, <3>2, <3>3, <1>0, <1>2
  <2>2. m_position' - m_cur' * Base = 0 /\ Base - 0 = Base
    BY <1>0, <1>1, <1>2, <1>12, BaseNat
  <2> QED BY <2>1, <2>2, <1>1, <1>8, <1>12, <1>13 DEF Loop
<1>17. Progress'
  <2>1. m_position' - call.from = done + n
    BY <1>0, <1>1, <1>2
  <2> QED BY <2>1, <1>1, <1>4, <1>5, <1>7, <1>8 DEF Progress, code
<1>18. Fresh'
  BY <1>1, <1>8 DEF IInv, Fresh, NoResult, Written
<1> QED BY <1>14, <1>15, <1>16, <1>17, <1>18 DEF IInv

(* The last turn: m_cur moves on at the end of a block, to null at the end *)
(* of the last one.                                                        *)
LEMMA WriteEndsInv == ASSUME IInv, WriteEnds PROVE IInv'
<1> DEFINE n == Len(call.todo)
           c == [call EXCEPT !.op = "wrote"]
           code == Code(m_endian, call.kind, call.val)
           done == m_position - call.from
<1>0. /\ Types /\ Geometry /\ call \in Calls /\ m_position \in Nat /\ m_nodes \in 1 .. MaxNodes
      /\ m_cur \in Int /\ m_nodes \in Nat /\ m_size \in Nat /\ m_capacity \in Nat
  BY DEF IInv, Types
<1>1. /\ call.op = "write" /\ call.ncap >= n /\ Store(n) /\ crash = "none"
      /\ m_position' = m_position + n
      /\ m_cur' = (IF Base = call.npos + n THEN next(m_cur) ELSE m_cur)
      /\ m_size' = (IF m_position' > m_size THEN m_position' ELSE m_size)
      /\ call' = c
      /\ UNCHANGED <<m_capacity, m_nodes, m_endian, got, result, crash>>
  BY DEF WriteEnds
<1>2. call.todo \in Seq(Byte) /\ n \in Nat /\ call.ncap \in Nat /\ call.from \in Nat
  BY <1>0 DEF Calls
<1>3. /\ InBlock(m_nodes, m_position, m_cur) /\ call.npos = m_position - m_cur * Base
      /\ call.ncap = Base - call.npos
      /\ m_position + n <= m_capacity /\ m_capacity = m_nodes * Base
  BY <1>1 DEF IInv, Loop, Geometry
<1>4. /\ mem' \in [Cell -> Byte]
      /\ StoredUpTo(mem', m_position + n, call.from, code)
  BY <1>1, <1>2, Stores
<1>5. /\ Argument(call.kind, call.val) /\ AtHand(call.todo, call.rest, code, done)
      /\ got = << >>
  BY <1>1 DEF IInv, Progress, Writing
<1> HIDE DEF code
<1>6. Pieces(call.rest, code, done + n)
  BY <1>5 DEF AtHand
<1>7. /\ c \in Calls /\ c.op = "wrote" /\ c.rest = call.rest /\ c.kind = call.kind
      /\ c.val = call.val /\ c.from = call.from
  BY <1>0 DEF Calls, Ops
<1> HIDE DEF c
<1>8. BlockOf(m_nodes, m_position + n, m_cur') /\ m_cur' \in Int
  <2>1. next(m_cur) = nextOf(m_nodes, m_cur) /\ nextOf(m_nodes, m_cur) \in Int
    BY <1>0 DEF next, nextOf, null
  <2>2. n <= Base - (m_position - m_cur * Base)
    BY <1>1, <1>3
  <2>3. BlockOf(m_nodes, m_position + n,
          IF Base = (m_position - m_cur * Base) + n THEN nextOf(m_nodes, m_cur) ELSE m_cur)
    BY <1>0, <1>2, <1>3, <2>2, Advance
  <2> QED BY <2>1, <2>3, <1>0, <1>1, <1>3
<1>9. Types'
  <2>1. m_position' \in Nat /\ m_size' \in Nat
    BY <1>0, <1>1, <1>2
  <2> QED BY <2>1, <1>0, <1>1, <1>4, <1>7, <1>8 DEF Types
<1>10. Geometry'
  BY <1>0, <1>1, <1>2, <1>3, <1>8 DEF Geometry
<1>11. Loop'
  BY <1>0, <1>1, <1>2, <1>7 DEF Loop
<1>12. Progress'
  <2>1. m_position' - call.from = done + n
    BY <1>0, <1>1, <1>2
  <2> QED BY <2>1, <1>1, <1>4, <1>5, <1>6, <1>7 DEF Progress, code
<1>13. Fresh'
  BY <1>1, <1>7 DEF IInv, Fresh, NoResult, Written
<1> QED BY <1>9, <1>10, <1>11, <1>12, <1>13 DEF IInv

(* The next call of write() or the end of the function.                    *)
LEMMA WroteInv == ASSUME IInv, Wrote PROVE IInv'
<1> DEFINE code == Code(m_endian, call.kind, call.val)
           done == m_position - call.from
<1>0. /\ Types /\ call \in Calls /\ m_position \in Nat /\ call.op = "wrote"
      /\ UNCHANGED <<ba, m_endian, mem, got, crash>>
  BY DEF IInv, Types, Wrote
<1>1. /\ Argument(call.kind, call.val) /\ StoredUpTo(mem, m_position, call.from, code)
      /\ Pieces(call.rest, code, done) /\ got = << >>
  BY <1>0 DEF IInv, Progress, Writing
<1>2. /\ call.rest \in Seq(Seq(Byte)) /\ call.from \in Nat /\ call.kind \in Kinds
      /\ call.val \in Args
  BY <1>0 DEF Calls
<1>3. code \in Seq(Byte) /\ Len(code) \in Nat /\ call.kind \in Written
  BY <1>1, CodeSeq, ArgumentArgs
<1> HIDE DEF code
<1>4. Geometry'
  BY <1>0 DEF IInv, Geometry, ba
<1>5. ASSUME call.rest # << >>, UNCHANGED result,
             call' = [call EXCEPT !.op = "more", !.todo = Head(call.rest), !.rest = Tail(@)]
      PROVE  IInv'
  <2>1. Head(call.rest) \in Seq(Byte) /\ Tail(call.rest) \in Seq(Seq(Byte))
    BY <1>2, <1>5
  <2>2. /\ call' \in Calls /\ call'.op = "more" /\ call'.todo = Head(call.rest)
        /\ call'.rest = Tail(call.rest) /\ call'.kind = call.kind
        /\ call'.val = call.val /\ call'.from = call.from
    BY <1>0, <1>5, <2>1 DEF Calls, Ops
  <2>3. AtHand(Head(call.rest), Tail(call.rest), code, done)
    BY <1>1, <1>2, <1>3, <1>5, NextPiece
  <2>4. Types'
    BY <1>0, <1>5, <2>2 DEF Types, ba
  <2>5. Loop'
    BY <1>0, <2>2 DEF IInv, Loop, ba
  <2>6. Progress'
    BY <1>0, <1>1, <2>2, <2>3 DEF Progress, code, ba
  <2>7. Fresh'
    BY <1>0, <1>5, <2>2 DEF IInv, Fresh, NoResult, Written
  <2> QED BY <1>4, <2>4, <2>5, <2>6, <2>7 DEF IInv
<1>6. ASSUME call.rest = << >>, call' = Idle,
             result' = [NoResult EXCEPT !.kind = call.kind, !.val = call.val,
                                        !.from = call.from]
      PROVE  IInv'
  <2>1. /\ result' \in Results /\ result'.kind = call.kind /\ result'.val = call.val
        /\ result'.from = call.from
    BY <1>2, <1>6, IdleTyped DEF Results
  <2>2. done = Len(code)
    BY <1>1, <1>6 DEF Pieces
  <2>3. Types'
    BY <1>0, <1>6, <2>1, IdleTyped DEF Types, ba
  <2>4. Loop' /\ Progress'
    BY <1>0, <1>6, IdleTyped DEF IInv, Loop, Progress, Writing, ba
  <2>5. Fresh'
    BY <1>0, <1>1, <1>3, <1>6, <2>1, <2>2, IdleTyped DEF Fresh, code, Written, ba
  <2> QED BY <1>4, <2>3, <2>4, <2>5 DEF IInv
<1> QED BY <1>5, <1>6 DEF Wrote

-----------------------------------------------------------------------------
(* Reading.                                                                *)

(* The start of a reading function.                                        *)
LEMMA ReadsInv ==
  ASSUME IInv, NEW kind \in Kinds, NEW size \in Nat, Reads(kind, size)
  PROVE  IInv'
<1> DEFINE c == [Idle EXCEPT !.op = "back", !.kind = kind, !.size = size]
<1>1. /\ call' = c /\ got' = << >> /\ result' = NoResult
      /\ UNCHANGED <<ba, m_endian, mem, crash>> /\ call = Idle /\ crash = "none"
  BY DEF Reads, Ready
<1>2. c \in Calls /\ c.op = "back" /\ c.size = size /\ c.kind = kind
  BY IdleTyped DEF Calls, Ops
<1> HIDE DEF c
<1>3. Types' /\ Geometry'
  BY <1>1, <1>2, IdleTyped DEF IInv, Types, Geometry, ba
<1>4. Loop' /\ Progress'
  BY <1>1, <1>2, IdleTyped DEF IInv, Loop, Progress, Writing, ba
<1>5. Fresh'
  BY <1>1, <1>2, IdleTyped DEF Fresh
<1> QED BY <1>3, <1>4, <1>5 DEF IInv

LEMMA ReadCallsInv ==
  ASSUME IInv, readUint \/ readFuint \/ readString PROVE IInv'
<1>1. {"uint", "fixed", "string"} \subseteq Kinds /\ 1 \in Nat /\ FixedLen \in Nat
  BY FixedLenNat DEF Kinds, Written
<1> QED BY <1>1, ReadsInv DEF readUint, readFuint, readString

(* read() up to its loop: m_cur is null only when there is nothing to      *)
(* read.                                                                   *)
LEMMA ReadBeginsInv == ASSUME IInv, ReadBegins PROVE IInv'
<1> DEFINE c == [call EXCEPT !.op = "read", !.npos = Npos, !.ncap = Base - Npos]
<1>0. /\ Types /\ Geometry /\ call \in Calls /\ m_position \in Nat /\ m_size \in Nat
      /\ m_capacity \in Nat /\ m_nodes \in Nat /\ m_cur \in Int
  BY DEF IInv, Types
<1>1. /\ call.op = "back" /\ call.size <= m_size - m_position /\ call' = c /\ got' = << >>
      /\ crash' = (IF m_cur # null THEN crash
                   ELSE IF call.size = 0 THEN "empty" ELSE "read")
      /\ UNCHANGED <<ba, m_endian, mem, result>>
  BY DEF ReadBegins, getReadSize
<1>2. crash = "none" /\ result = NoResult
  BY <1>1 DEF IInv, Loop, Fresh
<1>3. call.size \in Nat
  BY <1>0 DEF Calls
<1>4. m_cur = null => crash' = "empty"
  <2> SUFFICES ASSUME m_cur = null PROVE call.size = 0
    BY <1>1
  <2>1. m_position = m_capacity /\ m_size <= m_capacity
    BY <1>0 DEF Geometry, BlockOf, InBlock, null
  <2> QED BY <2>1, <1>0, <1>1, <1>3
<1>5. /\ Npos \in 0 .. Base - 1
      /\ m_cur # null => /\ InBlock(m_nodes, m_position, m_cur)
                         /\ Npos = m_position - m_cur * Base
  <2>1. Npos \in 0 .. Base - 1
    BY <1>0, BaseNat DEF Npos
  <2>2. m_cur # null => InBlock(m_nodes, m_position, m_cur)
    BY <1>0 DEF Geometry, BlockOf
  <2> QED BY <2>1, <2>2, <1>0, Place DEF Npos
<1>6. /\ c \in Calls /\ c.op = "read" /\ c.npos = Npos /\ c.ncap = Base - Npos
      /\ c.size = call.size
  <2>1. Npos \in Nat /\ Base - Npos \in Nat
    BY <1>5, BaseNat
  <2> HIDE DEF Npos
  <2> QED BY <1>0, <2>1 DEF Calls, Ops
<1> HIDE DEF c
<1>7. Types'
  BY <1>0, <1>1, <1>2, <1>4, <1>6 DEF Types, ba
<1>8. Geometry'
  BY <1>0, <1>1 DEF Geometry, ba
<1>9. Loop'
  <2>1. m_position + call.size <= m_size
    BY <1>0, <1>1, <1>3
  <2>2. crash' = "none" => m_cur # null
    BY <1>1, <1>4
  <2> HIDE DEF Npos
  <2>3. m_position <= m_size
    BY <1>1 DEF IInv, Loop
  <2> QED BY <2>1, <2>2, <2>3, <1>1, <1>5, <1>6 DEF Loop, ba
<1>10. Progress' /\ Fresh'
  BY <1>1, <1>2, <1>6, IdleTyped DEF Progress, Fresh, Writing
<1> QED BY <1>7, <1>8, <1>9, <1>10 DEF IInv

LEMMA ReadThrowsInv == ASSUME IInv, ReadThrows PROVE IInv'
<1> USE DEF ReadThrows, ba
<1>1. Types' /\ Geometry'
  BY IdleTyped DEF IInv, Types, Geometry
<1>2. result' = NoResult /\ call'.op = "none"
  BY IdleTyped DEF IInv, Fresh
<1>3. Loop'
  BY <1>2 DEF IInv, Loop
<1>4. Progress' /\ Fresh'
  BY <1>2, IdleTyped DEF Progress, Fresh, Writing
<1> QED BY <1>1, <1>3, <1>4 DEF IInv

(* A turn of the reading loop delivers the next n bytes.                   *)
LEMMA Loads ==
  ASSUME IInv, call.op = "read", crash = "none", NEW n \in Nat, n <= call.ncap
  PROVE  LET s == Load(m_cur, call.npos, n) IN
         /\ s \in Seq(Byte) /\ Len(s) = n
         /\ \A k \in 1 .. n : s[k] = mem[m_position + k - 1]
<1>1. /\ mem \in [Cell -> Byte] /\ m_position \in Nat /\ m_nodes \in 1 .. MaxNodes
      /\ m_nodes \in Nat /\ m_cur \in Int
  BY DEF IInv, Types
<1>2. /\ InBlock(m_nodes, m_position, m_cur) /\ call.npos = m_position - m_cur * Base
      /\ call.ncap = Base - call.npos
  BY DEF IInv, Loop
<1>3. m_cur * Base \in Int /\ m_cur * Base + call.npos = m_position
  BY <1>1, <1>2, BaseNat
<1>4. Load(m_cur, call.npos, n) = [k \in 1 .. n |-> mem[m_position + k - 1]]
  BY <1>3 DEF Load
<1>5. ASSUME NEW k \in 1 .. n PROVE mem[m_position + k - 1] \in Byte
  <2>1. n <= Base - (m_position - m_cur * Base)
    BY <1>2
  <2>2. m_position + n <= m_nodes * Base
    BY <1>1, <1>2, <2>1, Advance
  <2>3. m_position + k - 1 \in Nat /\ m_position + k - 1 < m_nodes * Base
    BY <1>1, <2>2, BaseNat
  <2>4. m_position + k - 1 \in Cell
    BY <1>1, <2>3, CellOf
  <2> QED BY <2>4, <1>1
<1>6. Load(m_cur, call.npos, n) \in [1 .. n -> Byte]
  BY <1>4, <1>5
<1>7. Load(m_cur, call.npos, n) \in Seq(Byte) /\ Len(Load(m_cur, call.npos, n)) = n
  BY <1>6
<1> QED BY <1>4, <1>7

(* A block is read to its end and another one follows.                     *)
LEMMA ReadDrainsInv == ASSUME IInv, ReadDrains PROVE IInv'
<1> DEFINE n == call.ncap
           s == Load(m_cur, call.npos, n)
           c == [call EXCEPT !.size = @ - n, !.npos = 0, !.ncap = Base, !.out = @ \o s]
<1>0. /\ Types /\ Geometry /\ call \in Calls /\ m_position \in Nat /\ m_size \in Nat
      /\ m_capacity \in Nat /\ m_nodes \in Nat /\ m_cur \in Int
  BY DEF IInv, Types
<1>1. /\ call.op = "read" /\ n < call.size /\ crash = "none" /\ got' = s
      /\ m_position' = m_position + n /\ m_cur' = next(m_cur)
      /\ crash' = (IF next(m_cur) = null THEN "read" ELSE crash) /\ call' = c
      /\ UNCHANGED <<m_size, m_capacity, m_nodes, m_endian, mem, result>>
  BY DEF ReadDrains
<1>2. call.size \in Nat /\ n \in Nat /\ call.out \in Seq(Byte) /\ call.npos \in Nat
  BY <1>0 DEF Calls
<1>3. /\ InBlock(m_nodes, m_position, m_cur) /\ call.npos = m_position - m_cur * Base
      /\ n = Base - call.npos /\ m_position + call.size <= m_size
      /\ m_size <= m_capacity /\ m_capacity = m_nodes * Base
  BY <1>1 DEF IInv, Loop, Geometry
<1>4. s \in Seq(Byte)
  BY <1>1, <1>2, Loads
<1>5. call.out \o s \in Seq(Byte) /\ call.size - n \in Nat
  BY <1>1, <1>2, <1>4
<1>6. /\ c \in Calls /\ c.op = "read" /\ c.npos = 0 /\ c.ncap = Base
      /\ c.size = call.size - n
  <2> HIDE DEF s
  <2> QED BY <1>0, <1>1, <1>5, BaseNat DEF Calls
<1> HIDE DEF c, s
<1>7. m_position + n = m_cur * Base + Base /\ m_cur * Base \in Int
  BY <1>0, <1>3, BaseNat
<1>8. m_position + n < m_nodes * Base
  BY <1>0, <1>1, <1>2, <1>3
<1>9. next(m_cur) = nextOf(m_nodes, m_cur)
  BY DEF next, nextOf
<1>10. /\ m_cur' = m_cur + 1 /\ InBlock(m_nodes, m_position', m_cur') /\ m_cur' # null
       /\ m_position' = m_cur' * Base
  <2>1. InBlock(m_nodes, m_cur * Base + Base, m_cur + 1) /\ nextOf(m_nodes, m_cur) = m_cur + 1
    BY <1>0, <1>3, <1>7, <1>8, NextBlock
  <2>2. (m_cur + 1) * Base = m_cur * Base + Base
    BY <1>0, BaseNat
  <2> QED BY <2>1, <2>2, <1>1, <1>7, <1>9 DEF InBlock, null
<1>11. crash' = "none"
  BY <1>1, <1>10
<1>12. Types'
  <2>1. m_position' \in Nat /\ m_cur' \in Int
    BY <1>0, <1>1, <1>2, <1>10
  <2> QED BY <2>1, <1>0, <1>1, <1>4, <1>6, <1>11 DEF Types
<1>13. Geometry'
  BY <1>0, <1>1, <1>3, <1>8, <1>10 DEF Geometry, BlockOf
<1>14. Loop'
  <2>1. m_position' + c.size <= m_size /\ m_position' <= m_size
    <3>1. /\ m_position' = m_position + n /\ c.size = call.size - n /\ n < call.size
          /\ m_position + call.size <= m_size
      BY <1>1, <1>3, <1>6
    <3> HIDE DEF n
    <3> QED BY <3>1, <1>0, <1>2
  <2>2. m_position' - m_cur' * Base = 0 /\ Base - 0 = Base
    BY <1>0, <1>1, <1>2, <1>10, BaseNat
  <2> QED BY <2>1, <2>2, <1>1, <1>6, <1>10, <1>11 DEF Loop
<1>15. Progress' /\ Fresh'
  BY <1>1, <1>6, IdleTyped DEF IInv, Progress, Fresh, Writing
<1> QED BY <1>12, <1>13, <1>14, <1>15 DEF IInv

(* The last turn, and what the function reads next.                        *)
LEMMA ReadEndsInv == ASSUME IInv, ReadEnds PROVE IInv'
<1> DEFINE n == call.size
           s == Load(m_cur, call.npos, n)
           out == call.out \o s
<1>0. /\ Types /\ Geometry /\ call \in Calls /\ m_position \in Nat /\ m_size \in Nat
      /\ m_capacity \in Nat /\ m_nodes \in Nat /\ m_cur \in Int
  BY DEF IInv, Types
<1>1. /\ call.op = "read" /\ call.ncap >= n /\ crash = "none" /\ got' = s
      /\ m_position' = m_position + n
      /\ m_cur' = (IF n > 0 /\ Base = call.npos + n THEN next(m_cur) ELSE m_cur)
      /\ UNCHANGED <<m_size, m_capacity, m_nodes, m_endian, mem, crash>>
  BY DEF ReadEnds
<1>2. \/ call' = [call EXCEPT !.op = "back", !.out = out, !.size = 1] /\ UNCHANGED result
      \/ /\ call' = [call EXCEPT !.op = "back", !.kind = "bytes",
                                !.out = << >>, !.size = Decode(out)]
         /\ UNCHANGED result
      \/ call' = Idle /\ result' = [NoResult EXCEPT !.kind = "read", !.out = out]
  BY DEF ReadEnds
<1>3. n \in Nat /\ call.ncap \in Nat /\ call.out \in Seq(Byte) /\ call.npos \in Nat
  BY <1>0 DEF Calls
<1>4. /\ InBlock(m_nodes, m_position, m_cur) /\ call.npos = m_position - m_cur * Base
      /\ call.ncap = Base - call.npos /\ m_position + n <= m_size
      /\ m_size <= m_capacity /\ m_capacity = m_nodes * Base
  BY <1>1 DEF IInv, Loop, Geometry
<1>5. s \in Seq(Byte)
  BY <1>1, <1>3, Loads
<1>6. out \in Seq(Byte)
  BY <1>3, <1>5
<1>7. Decode(out) \in Nat
  <2> HIDE DEF out
  <2> QED BY <1>6, DecodeWord, WordNat
<1> HIDE DEF out, s
<1>8. BlockOf(m_nodes, m_position + n, m_cur') /\ m_cur' \in Int
  <2>1. next(m_cur) = nextOf(m_nodes, m_cur) /\ nextOf(m_nodes, m_cur) \in Int
    BY <1>0 DEF next, nextOf, null
  <2>2. n <= Base - (m_position - m_cur * Base)
    BY <1>1, <1>4
  <2>3. BlockOf(m_nodes, m_position + n,
          IF Base = (m_position - m_cur * Base) + n THEN nextOf(m_nodes, m_cur) ELSE m_cur)
    BY <1>0, <1>3, <1>4, <2>2, Advance
  <2>4. m_cur' = IF Base = call.npos + n THEN next(m_cur) ELSE m_cur
    <3>1. n = 0 => Base # call.npos + n
      BY <1>3, <1>4, BaseNat DEF InBlock
    <3> QED BY <3>1, <1>1, <1>3
  <2> QED BY <2>1, <2>3, <2>4, <1>0, <1>4
<1>9. /\ call' \in Calls /\ result' \in Results /\ call'.op \in {"back", "none"}
      /\ call'.op = "none" => call' = Idle /\ result'.kind = "read"
      /\ call'.op = "back" => result' = NoResult
  <2>0. result = NoResult
    BY <1>1 DEF IInv, Fresh
  <2>1. CASE call' = [call EXCEPT !.op = "back", !.out = out, !.size = 1] /\ UNCHANGED result
    BY <2>0, <2>1, <1>0, <1>6, IdleTyped DEF Calls, Ops
  <2>2. CASE /\ call' = [call EXCEPT !.op = "back", !.kind = "bytes",
                                !.out = << >>, !.size = Decode(out)]
             /\ UNCHANGED result
    <3>1. "bytes" \in Kinds /\ << >> \in Seq(Byte)
      BY DEF Kinds, Written
    <3> QED BY <2>0, <2>2, <3>1, <1>0, <1>7, IdleTyped DEF Calls, Ops
  <2>3. CASE call' = Idle /\ result' = [NoResult EXCEPT !.kind = "read", !.out = out]
    <3>1. "read" \in Kinds
      BY DEF Kinds
    <3> QED BY <2>3, <3>1, <1>6, IdleTyped DEF Results
  <2> QED BY <1>2, <2>1, <2>2, <2>3
<1>10. Types'
  <2>1. m_position' \in Nat
    BY <1>0, <1>1, <1>3
  <2> QED BY <2>1, <1>0, <1>1, <1>5, <1>8, <1>9 DEF Types
<1>11. Geometry'
  BY <1>0, <1>1, <1>3, <1>4, <1>8 DEF Geometry
<1>12. Loop'
  BY <1>0, <1>1, <1>4, <1>9 DEF Loop
<1>13. Progress' /\ Fresh'
  BY <1>9, IdleTyped DEF Progress, Fresh, Writing, Written
<1> QED BY <1>10, <1>11, <1>12, <1>13 DEF IInv

(* Every action preserves the invariant.                                   *)
LEMMA NextInv == ASSUME IInv, Next PROVE IInv'
BY EndianInv, SeekInv, ClearInv, WriteCallsInv, RoomInv, WriteBeginsInv, WriteNothingInv,
   WriteFillsInv, WriteEndsInv, WroteInv, ReadCallsInv, ReadBeginsInv, ReadThrowsInv,
   ReadDrainsInv, ReadEndsInv DEF Next

(* The inductive invariant: the blocks make up the capacity, m_cur is the  *)
(* block of the position and null just when the array is full, the locals  *)
(* of the loops of write() and read() are the place in that block, a       *)
(* writing function has stored the front of its code and has the rest at   *)
(* hand, and the last result still stands in front of the position         *)
(* (bytearray.cc).                                                         *)
THEOREM Invariant == Spec => []IInv
<1>1. IInv /\ [Next]_vars => IInv'
  BY NextInv, StutterInv
<1> QED BY InitInv, <1>1, PTL DEF Spec

(* write() and read() follow the null m_cur of a full array only for an    *)
(* empty read (bytearray.cc:339-409), for every size of the blocks, every  *)
(* number of them and all data.                                            *)
THEOREM NeverFollowsNull == Spec => []OnlyEmptyReadCrashes
<1>1. IInv => OnlyEmptyReadCrashes
  BY DEF IInv, Types, OnlyEmptyReadCrashes
<1> QED BY Invariant, <1>1, PTL

-----------------------------------------------------------------------------
(* What was written reads back.                                            *)

(* What a writing function has stored is its whole code.                   *)
LEMMA StoredIsCode ==
  ASSUME IInv, result.kind \in Written
  PROVE  LET code == Code(m_endian, result.kind, result.val) IN
         /\ Argument(result.kind, result.val)
         /\ code \in Seq(Byte)
         /\ Stored(result.from) = code
<1> DEFINE code == Code(m_endian, result.kind, result.val)
           from == result.from
           n == m_position - from
<1>1. /\ Argument(result.kind, result.val)
      /\ StoredUpTo(mem, m_position, from, code) /\ n = Len(code)
  BY DEF IInv, Fresh
<1>2. code \in Seq(Byte) /\ Len(code) \in Nat
  BY <1>1, CodeSeq
<1> HIDE DEF code, n, from
<1>3. \A k \in 1 .. n : mem[from + k - 1] = code[k]
  BY <1>1 DEF StoredUpTo, n
<1>4. code = [k \in 1 .. n |-> code[k]]
  BY <1>1, <1>2
<1>5. Stored(from) = [k \in 1 .. n |-> mem[from + k - 1]]
  BY DEF Stored, n
<1>6. Stored(from) = code
  BY <1>3, <1>4, <1>5
<1> QED BY <1>1, <1>2, <1>6 DEF code, from

LEMMA ReadsBack == IInv => WrittenReadsBack
<1> SUFFICES ASSUME IInv PROVE WrittenReadsBack
  OBVIOUS
<1> DEFINE s == Stored(result.from)
           v == result.val
           k == result.kind
           code == Code(m_endian, k, v)
<1>1. k \in Written => Argument(k, v) /\ code \in Seq(Byte) /\ s = code
  BY StoredIsCode
<1> HIDE DEF s, code
<1>2. k = "uint" => Number(s) /\ Decode(s) = v
  <2> SUFFICES ASSUME k = "uint" PROVE Number(s) /\ Decode(s) = v
    OBVIOUS
  <2>1. Argument(k, v) /\ s = code
    BY <1>1 DEF Written
  <2>2. v \in Word /\ s = Encode[v]
    BY <2>1 DEF Argument, code, Code
  <2> QED BY <2>2, UintReadsBack
<1>3. k = "int" => Number(s) /\ DecodeZigzag(Decode(s)) = v
  <2> SUFFICES ASSUME k = "int" PROVE Number(s) /\ DecodeZigzag(Decode(s)) = v
    OBVIOUS
  <2>1. Argument(k, v) /\ s = code
    BY <1>1 DEF Written
  <2>2. PICK w \in Word : v = Signed(w)
    BY <2>1 DEF Argument
  <2>3. s = Encode[EncodeZigzag(v)]
    BY <2>1 DEF code, Code
  <2>4. EncodeZigzag(v) \in Word /\ DecodeZigzag(EncodeZigzag(v)) = v
    BY <2>2, Zigzag
  <2> QED BY <2>3, <2>4, UintReadsBack
<1>4. k = "fixed" => Len(s) = FixedLen /\ Unfixed(s) = v
  <2> SUFFICES ASSUME k = "fixed" PROVE Len(s) = FixedLen /\ Unfixed(s) = v
    OBVIOUS
  <2>1. Argument(k, v) /\ s = code
    BY <1>1 DEF Written
  <2>2. v \in Word /\ s = Swap(m_endian, Bytes(v))
    BY <2>1 DEF Argument, code, Code
  <2>3. s = Fixed(v)
    BY <2>2, FixedSeq DEF Swap, byteswap
  <2> QED BY <2>2, <2>3, FixedReadsBack
<1>5. k = "bytes" => s = v
  BY <1>1 DEF Written, code, Code
<1>6. k = "string" =>
        \E n \in 1 .. Len(s) : /\ Number(SubSeq(s, 1, n))
                               /\ Decode(SubSeq(s, 1, n)) = Len(v)
                               /\ SubSeq(s, n + 1, Len(s)) = v
  <2> SUFFICES ASSUME k = "string"
               PROVE  \E n \in 1 .. Len(s) : /\ Number(SubSeq(s, 1, n))
                               /\ Decode(SubSeq(s, 1, n)) = Len(v)
                               /\ SubSeq(s, n + 1, Len(s)) = v
    OBVIOUS
  <2>1. Argument(k, v) /\ s = code
    BY <1>1 DEF Written
  <2>2. v \in Seq(Byte) /\ Len(v) \in Word /\ s = Encode[Len(v)] \o v
    BY <2>1 DEF Argument, code, Code
  <2> DEFINE e == Encode[Len(v)]
             n == Len(e)
  <2>3. e \in Seq(Byte) /\ n >= 1 /\ Number(e) /\ Decode(e) = Len(v)
    BY <2>2, UintReadsBack
  <2> HIDE DEF e
  <2>4. s = e \o v
    BY <2>2 DEF e
  <2>5. /\ n \in 1 .. Len(s) /\ SubSeq(s, 1, n) = e /\ SubSeq(s, n + 1, Len(s)) = v
    BY <2>2, <2>3, <2>4
  <2> HIDE DEF n
  <2> QED BY <2>3, <2>5
<1> QED BY <1>2, <1>3, <1>4, <1>5, <1>6 DEF WrittenReadsBack, s

(* The reading functions of bytearray.cc make of the stored bytes what the *)
(* writing functions were given, in all five encodings, for every width of *)
(* the integers and of the groups: variable-length numbers, zigzag numbers *)
(* down to the smallest, fixed ones in both orders of the bytes, strings   *)
(* and files over blocks.                                                  *)
THEOREM WhatIsWrittenReadsBack == Spec => []WrittenReadsBack
BY Invariant, ReadsBack, PTL

-----------------------------------------------------------------------------
(* The memory that is handed out.                                          *)

(* A view of the cells from the byte npos of the block cur on.             *)
LEMMA ViewFrom ==
  ASSUME IInv, NEW cur \in Int, NEW npos \in Int, NEW p \in Int, NEW len \in Nat,
         cur \in 0 .. m_nodes - 1, cur * Base + npos = p, p + len <= m_capacity
  PROVE  View(cur, npos, len) = From(p, len)
<1>1. m_capacity \in Nat
  BY DEF IInv, Types
<1>2. ~(cur * Base + npos + len > m_capacity)
  BY <1>1
<1>3. View(cur, npos, len) = [k \in 1 .. len |-> cur * Base + npos + k - 1]
  BY <1>2 DEF View
<1> QED BY <1>3 DEF From

LEMMA EmptyFrom == ASSUME NEW p PROVE From(p, 0) = << >>
BY DEF From

(* toString, readAt, the buffers to read and those to write.               *)
LEMMA ReadViews ==
  ASSUME IInv, Ready
  PROVE  /\ toString = From(m_position, getReadSize)
         /\ \A n \in 1 .. m_capacity :
              LET len == Smaller(n, getReadSize) IN
              /\ getReadBuffers(n) = From(m_position, len)
              /\ \A p \in 0 .. m_position : getReadBuffersAt(n, p) = From(p, len)
              /\ \A p \in 0 .. m_size - n :
                   p \div Base = m_cur => readAt(n, p) = From(p, n)
         /\ result.kind = "room" =>
              WriteBuffers(result.val) = From(m_position, result.val)
<1>1. /\ m_position \in Nat /\ m_size \in Nat /\ m_capacity \in Nat /\ m_cur \in Int
      /\ m_nodes \in Nat
  BY DEF IInv, Types
<1>2. /\ m_capacity = m_nodes * Base /\ m_size <= m_capacity
      /\ BlockOf(m_nodes, m_position, m_cur) /\ m_position <= m_size
  BY IdleTyped DEF IInv, Geometry, Loop, Ready
<1>3. getReadSize = m_size - m_position /\ getReadSize \in Nat
  BY <1>1, <1>2 DEF getReadSize
<1>4. ASSUME NEW len \in Nat \ {0}, m_position + len <= m_capacity
      PROVE  View(m_cur, Npos, len) = From(m_position, len)
  <2>1. m_position < m_nodes * Base
    BY <1>1, <1>2, <1>4
  <2>2. InBlock(m_nodes, m_position, m_cur)
    BY <2>1, <1>1, <1>2, BaseNat DEF BlockOf
  <2>3. Npos = m_position - m_cur * Base
    BY <1>1, <2>2, Place DEF Npos
  <2>4. m_cur * Base \in Int /\ Npos \in Int /\ m_cur * Base + Npos = m_position
    BY <2>3, <1>1, BaseNat
  <2>5. m_cur \in 0 .. m_nodes - 1
    BY <2>2 DEF InBlock
  <2> QED BY <2>4, <2>5, <1>1, <1>4, ViewFrom
<1>5. ASSUME NEW p \in Nat, NEW len \in Nat \ {0}, p + len <= m_capacity
      PROVE  View(p \div Base, p % Base, len) = From(p, len)
  <2> DEFINE q == p \div Base
             r == p % Base
  <2>1. p = Base * q + r /\ q \in Nat /\ r \in 0 .. Base - 1
    <3>1. Base \in Nat \ {0}
      BY BaseNat
    <3> QED BY <3>1, Divide
  <2> HIDE DEF q, r
  <2>2. Base * q = q * Base /\ q * Base \in Nat
    BY <2>1, BaseNat
  <2>3. q * Base < m_nodes * Base
    BY <2>1, <2>2, <1>1, <1>2, <1>5, BaseNat
  <2>4. q < m_nodes
    BY <2>1, <2>3, <1>1, MulBack
  <2>5. q \in 0 .. m_nodes - 1 /\ q * Base + r = p
    BY <2>1, <2>2, <2>4, <1>1, BaseNat
  <2>6. View(q, r, len) = From(p, len)
    BY <2>1, <2>5, <1>5, ViewFrom
  <2> QED BY <2>6 DEF q, r
<1>6. toString = From(m_position, getReadSize)
  <2>1. CASE getReadSize = 0
    BY <2>1, EmptyFrom DEF toString
  <2>2. CASE getReadSize # 0
    <3>1. getReadSize \in Nat \ {0} /\ m_position + getReadSize <= m_capacity
      BY <2>2, <1>1, <1>2, <1>3
    <3> HIDE DEF getReadSize
    <3>2. View(m_cur, Npos, getReadSize) = From(m_position, getReadSize)
      BY <3>1, <1>4
    <3> QED BY <3>2, <2>2 DEF toString
  <2> QED BY <2>1, <2>2
<1>7. ASSUME NEW n \in 1 .. m_capacity
      PROVE  LET len == Smaller(n, getReadSize) IN
              /\ getReadBuffers(n) = From(m_position, len)
              /\ \A p \in 0 .. m_position : getReadBuffersAt(n, p) = From(p, len)
              /\ \A p \in 0 .. m_size - n :
                   p \div Base = m_cur => readAt(n, p) = From(p, n)
  <2> DEFINE len == Smaller(n, getReadSize)
  <2>1. len \in Nat /\ len <= getReadSize
    BY <1>1, <1>3 DEF Smaller
  <2>2. m_position + len <= m_capacity
    <3> HIDE DEF len
    <3> QED BY <2>1, <1>1, <1>2, <1>3
  <2> HIDE DEF len
  <2>3. getReadBuffers(n) = From(m_position, len)
    <3>1. getReadBuffers(n) = IF len = 0 THEN << >> ELSE View(m_cur, Npos, len)
      BY DEF getReadBuffers, len
    <3>2. CASE len = 0
      BY <3>1, <3>2, EmptyFrom
    <3>3. CASE len # 0
      BY <3>1, <3>3, <2>1, <2>2, <1>4
    <3> QED BY <3>2, <3>3
  <2>4. ASSUME NEW p \in 0 .. m_position PROVE getReadBuffersAt(n, p) = From(p, len)
    <3>1. getReadBuffersAt(n, p) = IF len = 0 THEN << >>
                                   ELSE View(p \div Base, p % Base, len)
      BY DEF getReadBuffersAt, len
    <3>2. CASE len = 0
      BY <3>1, <3>2, EmptyFrom
    <3>3. CASE len # 0
      <4>1. p \in Nat /\ p + len <= m_capacity
        BY <2>1, <2>2, <1>1
      <4> QED BY <3>1, <3>3, <4>1, <2>1, <1>5
    <3> QED BY <3>2, <3>3
  <2>5. ASSUME NEW p \in 0 .. m_size - n, p \div Base = m_cur
        PROVE  readAt(n, p) = From(p, n)
    <3>1. p \in Nat /\ p + n <= m_capacity /\ n \in Nat \ {0}
      BY <1>1, <1>2
    <3>2. View(p \div Base, p % Base, n) = From(p, n)
      BY <3>1, <1>5
    <3> QED BY <3>2, <2>5 DEF readAt
  <2> QED BY <2>3, <2>4, <2>5 DEF len
<1>8. result.kind = "room" =>
        WriteBuffers(result.val) = From(m_position, result.val)
  <2> SUFFICES ASSUME result.kind = "room"
               PROVE  WriteBuffers(result.val) = From(m_position, result.val)
    OBVIOUS
  <2>1. result.val \in Nat \ {0} /\ m_position + result.val <= m_capacity
    BY DEF IInv, Fresh
  <2> QED BY <2>1, <1>4 DEF WriteBuffers
<1> QED BY <1>6, <1>7, <1>8

(* The turns of writeToFile.                                               *)
Files == [pos : Int, size : Int, good : BOOLEAN, out : Seq(Int)]
FileStart == [pos |-> m_position, size |-> getReadSize, good |-> TRUE, out |-> << >>]
Turns(n, file) ==
  file = [k \in 0 .. n |-> IF k = 0 THEN [pos |-> m_position, size |-> getReadSize,
                                           good |-> TRUE, out |-> << >>]
                           ELSE FileTurn(file[k - 1], m_cur + k - 1)]

LEMMA FileTurnTyped ==
  ASSUME IInv, NEW file \in Files, NEW cur \in Int
  PROVE  FileTurn(file, cur) \in Files
<1> DEFINE diff == file.pos % Base
           len == Share(file.size, diff)
           w == Within(cur, diff, len)
<1>1. file.pos \in Int /\ file.size \in Int /\ file.good \in BOOLEAN /\ file.out \in Seq(Int)
  BY DEF Files
<1>2. diff \in Int /\ len \in Int
  BY <1>1, BaseNat DEF Share, Smaller
<1> HIDE DEF diff
<1>3. len > 0 => w \in Seq(Int)
  <2> SUFFICES ASSUME len > 0 PROVE w \in Seq(Int)
    OBVIOUS
  <2> HIDE DEF len
  <2>1. Null \in Seq(Int)
    BY DEF Null, null
  <2>2. [k \in 1 .. len |-> cur * Base + diff + k - 1] \in Seq(Int)
    <3>1. cur * Base \in Int
      BY BaseNat
    <3>2. [k \in 1 .. len |-> cur * Base + diff + k - 1] \in [1 .. len -> Int]
      BY <3>1, <1>2
    <3>3. len \in Nat
      BY <1>2
    <3> QED BY <3>2, <3>3
  <2> QED BY <2>1, <2>2 DEF Within, View
<1> HIDE DEF len, w
<1>4. FileTurn(file, cur) =
        IF file.size <= 0 THEN file
        ELSE [pos |-> file.pos + len, size |-> file.size - len,
              good |-> file.good /\ len >= 0,
              out |-> IF file.good /\ len > 0 THEN file.out \o w ELSE file.out]
  BY DEF FileTurn, diff, len, w
<1>5. (IF file.good /\ len > 0 THEN file.out \o w ELSE file.out) \in Seq(Int)
  BY <1>1, <1>3
<1>6. (file.good /\ len >= 0) \in BOOLEAN
  OBVIOUS
<1>7. file.pos + len \in Int /\ file.size - len \in Int
  BY <1>1, <1>2
<1> QED BY <1>4, <1>5, <1>6, <1>7 DEF Files

(* The recursive function inside writeToFile exists ...                    *)
LEMMA TurnsExist ==
  ASSUME IInv, NEW n \in Nat
  PROVE  \E file : Turns(n, file)
<1> DEFINE h == [j \in 1 .. n |-> j - 1]
           step == [j \in 1 .. n |-> [x \in Files |-> FileTurn(x, m_cur + j - 1)]]
<1>0. m_position \in Int /\ m_size \in Int /\ m_cur \in Int
  BY DEF IInv, Types
<1>1. FileStart \in Files
  BY <1>0 DEF FileStart, Files, getReadSize
<1>2. h \in [1 .. n -> Nat] /\ Below(n, h)
  BY DEF Below
<1>3. step \in [1 .. n -> [Files -> Files]]
  <2> SUFFICES ASSUME NEW j \in 1 .. n, NEW x \in Files
               PROVE  FileTurn(x, m_cur + j - 1) \in Files
    OBVIOUS
  <2>1. m_cur + j - 1 \in Int
    BY <1>0
  <2> QED BY <2>1, FileTurnTyped
<1>4. PICK f \in [0 .. n -> Files] : Recurs(f, n, FileStart, h, step)
  <2> HIDE DEF h, step
  <2> QED BY <1>1, <1>2, <1>3, Recursion
<1>5. ASSUME NEW k \in 0 .. n
      PROVE  f[k] = IF k = 0 THEN FileStart ELSE FileTurn(f[k - 1], m_cur + k - 1)
  <2>1. CASE k = 0
    BY <2>1, <1>4 DEF Recurs
  <2>2. CASE k # 0
    <3>1. k \in 1 .. n /\ k - 1 \in 0 .. n
      BY <2>2
    <3>2. f[k] = step[k][f[h[k]]]
      <4> HIDE DEF h, step
      <4> QED BY <3>1, <1>4 DEF Recurs
    <3>3. h[k] = k - 1
      BY <3>1
    <3>4. f[k] = step[k][f[k - 1]]
      <4> HIDE DEF h, step
      <4> QED BY <3>2, <3>3
    <3>5. f[k - 1] \in Files
      BY <3>1
    <3> QED BY <3>1, <3>4, <3>5, <2>2
  <2> QED BY <2>1, <2>2
<1>6. f = [k \in 0 .. n |-> f[k]]
  OBVIOUS
<1>7. Turns(n, f)
  BY <1>5, <1>6 DEF Turns, FileStart
<1> QED BY <1>7

(* ... and writeToFile is what it has at the end.                          *)
LEMMA FileIs ==
  ASSUME IInv
  PROVE  \E file : /\ Turns(m_nodes - m_cur, file)
                   /\ writeToFile = LET end == file[m_nodes - m_cur]
                                    IN IF end.size > 0 THEN Null ELSE end.out
<1> DEFINE n == m_nodes - m_cur
           file == CHOOSE file : Turns(n, file)
<1>1. n \in Nat
  BY DEF IInv, Types, Geometry, BlockOf, InBlock, null
<1>2. \E x : Turns(n, x)
  <2> HIDE DEF n
  <2> QED BY <1>1, TurnsExist
<1>3. Turns(n, file)
  BY <1>2
<1>4. writeToFile = LET end == file[n] IN IF end.size > 0 THEN Null ELSE end.out
  BY Zenon DEF writeToFile, Turns
<1> HIDE DEF file
<1> QED BY <1>3, <1>4 DEF n

(* When two sequences make up a third.                                     *)
LEMMA Joined ==
  ASSUME NEW a \in Seq(Int), NEW b \in Seq(Int), NEW c \in Seq(Int),
         Len(c) = Len(a) + Len(b),
         \A k \in 1 .. Len(a) : c[k] = a[k],
         \A k \in 1 .. Len(b) : c[Len(a) + k] = b[k]
  PROVE  a \o b = c
<1>1. a \o b \in Seq(Int) /\ Len(a \o b) = Len(a) + Len(b)
  OBVIOUS
<1>2. ASSUME NEW k \in 1 .. Len(c) PROVE (a \o b)[k] = c[k]
  <2>1. CASE k <= Len(a)
    <3>1. k \in 1 .. Len(a)
      BY <2>1
    <3> QED BY <3>1
  <2>2. CASE k > Len(a)
    <3>1. k - Len(a) \in 1 .. Len(b) /\ k = Len(a) + (k - Len(a))
      BY <2>2
    <3>2. (a \o b)[k] = b[k - Len(a)]
      BY <2>2
    <3>3. c[Len(a) + (k - Len(a))] = b[k - Len(a)]
      BY <3>1
    <3> QED BY <3>1, <3>2, <3>3
  <2> QED BY <2>1, <2>2
<1> QED BY <1>1, <1>2, SeqEqual

LEMMA FromSeq ==
  ASSUME NEW p \in Int, NEW n \in Nat
  PROVE  /\ From(p, n) \in Seq(Int) /\ Len(From(p, n)) = n
         /\ \A k \in 1 .. n : From(p, n)[k] = p + k - 1
<1>1. From(p, n) \in [1 .. n -> Int]
  BY DEF From
<1>2. From(p, n) \in Seq(Int) /\ Len(From(p, n)) = n
  BY <1>1
<1>3. \A k \in 1 .. n : From(p, n)[k] = p + k - 1
  BY DEF From
<1> QED BY <1>2, <1>3

LEMMA FromGoesOn ==
  ASSUME NEW p \in Nat, NEW q \in Nat, p <= q, NEW b \in Nat
  PROVE  From(p, q - p) \o From(q, b) = From(p, (q + b) - p)
<1> DEFINE a == q - p
           n == (q + b) - p
<1>0. a \in Nat /\ n \in Nat /\ q = p + a /\ n = a + b
  OBVIOUS
<1> HIDE DEF a, n
<1>1. /\ From(p, a) \in Seq(Int) /\ Len(From(p, a)) = a
      /\ \A k \in 1 .. a : From(p, a)[k] = p + k - 1
  BY <1>0, FromSeq
<1>2. /\ From(q, b) \in Seq(Int) /\ Len(From(q, b)) = b
      /\ \A k \in 1 .. b : From(q, b)[k] = q + k - 1
  BY <1>0, FromSeq
<1>3. /\ From(p, n) \in Seq(Int) /\ Len(From(p, n)) = n
      /\ \A k \in 1 .. n : From(p, n)[k] = p + k - 1
  BY <1>0, FromSeq
<1>4. \A k \in 1 .. a : From(p, n)[k] = From(p, a)[k]
  <2> SUFFICES ASSUME NEW k \in 1 .. a PROVE From(p, n)[k] = From(p, a)[k]
    OBVIOUS
  <2>1. k \in 1 .. n
    BY <1>0
  <2> QED BY <2>1, <1>1, <1>3
<1>5. \A k \in 1 .. b : From(p, n)[a + k] = From(q, b)[k]
  <2> SUFFICES ASSUME NEW k \in 1 .. b PROVE From(p, n)[a + k] = From(q, b)[k]
    OBVIOUS
  <2>1. a + k \in 1 .. n
    BY <1>0
  <2>2. From(p, n)[a + k] = p + (a + k) - 1
    BY <2>1, <1>3
  <2>3. From(q, b)[k] = q + k - 1
    BY <1>2
  <2> QED BY <1>0, <2>2, <2>3
<1> DEFINE u == From(p, a)
           v == From(q, b)
           w == From(p, n)
<1>6. /\ u \in Seq(Int) /\ v \in Seq(Int) /\ w \in Seq(Int)
      /\ Len(u) = a /\ Len(v) = b /\ Len(w) = n
      /\ \A k \in 1 .. a : w[k] = u[k]
      /\ \A k \in 1 .. b : w[a + k] = v[k]
  BY <1>1, <1>2, <1>3, <1>4, <1>5
<1> HIDE DEF u, v, w
<1>7. /\ Len(w) = Len(u) + Len(v)
      /\ \A k \in 1 .. Len(u) : w[k] = u[k]
      /\ \A k \in 1 .. Len(v) : w[Len(u) + k] = v[k]
  BY <1>0, <1>6
<1>8. u \o v = w
  BY <1>6, <1>7, Joined
<1> QED BY <1>8 DEF u, v, w, a, n

(* A turn that has bytes left to write, from the byte diff of the block cur. *)
LEMMA FileTurnWrites ==
  ASSUME IInv, NEW p \in Nat, NEW pos \in Nat, p <= pos, NEW size \in Nat \ {0},
         NEW cur \in Int, InBlock(m_nodes, pos, cur), pos + size <= m_capacity,
         NEW len \in Nat \ {0}, len = Smaller(size, Base) - (pos - cur * Base),
         len <= Base - (pos - cur * Base)
  PROVE  FileTurn([pos |-> pos, size |-> size, good |-> TRUE, out |-> From(p, pos - p)], cur)
           = [pos |-> pos + len, size |-> size - len, good |-> TRUE,
              out |-> From(p, (pos + len) - p)]
<1> DEFINE file == [pos |-> pos, size |-> size, good |-> TRUE, out |-> From(p, pos - p)]
           diff == pos - cur * Base
<1>0. m_nodes \in Nat /\ m_capacity \in Nat /\ m_capacity = m_nodes * Base
  BY DEF IInv, Types, Geometry
<1>1. pos % Base = diff /\ diff \in 0 .. Base - 1 /\ cur * Base \in Int
      /\ cur \in 0 .. m_nodes - 1
  <2>1. cur \in 0 .. m_nodes - 1 /\ pos - cur * Base \in 0 .. Base - 1
    BY DEF InBlock
  <2>2. cur * Base \in Int
    BY BaseNat
  <2>3. pos % Base = pos - cur * Base
    BY <1>0, <2>1, Place
  <2> QED BY <2>1, <2>2, <2>3
<1>2. Share(size, diff) = len
  BY DEF Share
<1>3. Within(cur, diff, len) = From(pos, len)
  <2>1. ~(diff + len > Base)
    BY <1>1, BaseNat
  <2>2. pos + len <= m_capacity
    <3>1. pos + len <= m_nodes * Base
      BY <1>0, Advance
    <3> QED BY <3>1, <1>0
  <2>3. cur * Base + diff = pos /\ diff \in Int
    BY <1>1
  <2>4. View(cur, diff, len) = From(pos, len)
    <3> HIDE DEF diff
    <3> QED BY <1>1, <2>2, <2>3, ViewFrom
  <2> QED BY <2>1, <2>4 DEF Within
<1>4. From(p, pos - p) \o From(pos, len) = From(p, (pos + len) - p)
  BY FromGoesOn
<1> HIDE DEF diff
<1>5. FileTurn(file, cur) =
        [pos |-> pos + len, size |-> size - len, good |-> TRUE /\ len >= 0,
         out |-> IF TRUE /\ len > 0 THEN From(p, pos - p) \o Within(cur, diff, len)
                 ELSE From(p, pos - p)]
  <2>1. /\ file.pos = pos /\ file.size = size /\ file.good = TRUE
        /\ file.out = From(p, pos - p)
    OBVIOUS
  <2>2. ~(size <= 0)
    OBVIOUS
  <2> HIDE DEF file
  <2> QED BY <2>1, <2>2, <1>1, <1>2 DEF FileTurn
<1>6. (TRUE /\ len >= 0) = TRUE /\ len > 0
  OBVIOUS
<1> QED BY <1>3, <1>4, <1>5, <1>6

(* After k turns the file has everything up to the end of the k-th block:  *)
(* the share of a turn is right because it begins at the start of a block  *)
(* or leaves nothing over.                                                 *)
LEMMA FileExact ==
  ASSUME IInv, Ready, Npos = 0 \/ getReadSize >= Base
  PROVE  writeToFile = From(m_position, getReadSize)
<1> DEFINE n == m_nodes - m_cur
           p == m_position
           E == m_size
<1>1. /\ p \in Nat /\ E \in Nat /\ m_capacity \in Nat /\ m_cur \in Int /\ m_nodes \in Nat
  BY DEF IInv, Types
<1>2. /\ m_capacity = m_nodes * Base /\ E <= m_capacity
      /\ BlockOf(m_nodes, p, m_cur) /\ p <= E
  BY IdleTyped DEF IInv, Geometry, Loop, Ready
<1>3. PICK file : /\ Turns(n, file)
                  /\ writeToFile = LET end == file[n]
                                   IN IF end.size > 0 THEN Null ELSE end.out
  BY FileIs
<1>4. getReadSize = E - p /\ E - p \in Nat
  BY <1>1, <1>2 DEF getReadSize
<1>5. n \in Nat
  BY <1>1, <1>2 DEF BlockOf, InBlock, null
<1>6. /\ file[0] = [pos |-> p, size |-> E - p, good |-> TRUE, out |-> << >>]
      /\ \A k \in 1 .. n : file[k] = FileTurn(file[k - 1], m_cur + k - 1)
  <2>1. ASSUME NEW k \in 0 .. n
        PROVE  file[k] = IF k = 0 THEN [pos |-> p, size |-> getReadSize,
                                        good |-> TRUE, out |-> << >>]
                         ELSE FileTurn(file[k - 1], m_cur + k - 1)
    <3> HIDE DEF n
    <3> QED BY <1>3 DEF Turns
  <2> HIDE DEF n
  <2>2. file[0] = [pos |-> p, size |-> E - p, good |-> TRUE, out |-> << >>]
    <3>1. 0 \in 0 .. n
      BY <1>5
    <3>2. file[0] = [pos |-> p, size |-> getReadSize, good |-> TRUE, out |-> << >>]
      BY <3>1, <2>1
    <3> QED BY <3>2, <1>4
  <2>3. ASSUME NEW k \in 1 .. n PROVE file[k] = FileTurn(file[k - 1], m_cur + k - 1)
    <3>1. k \in 0 .. n /\ k # 0
      BY <1>5
    <3> QED BY <3>1, <2>1
  <2> QED BY <2>2, <2>3
<1> HIDE DEF n
<1>7. CASE E = p
  <2> DEFINE start == [pos |-> p, size |-> 0, good |-> TRUE, out |-> << >>]
             T == {k \in 0 .. n : file[k] = start}
  <2>1. 0 \in T
    <3>1. E - p = 0
      BY <1>1, <1>7
    <3>2. file[0] = start
      BY <3>1, <1>6
    <3> HIDE DEF start
    <3> QED BY <3>2, <1>5
  <2>2. ASSUME NEW k \in 0 .. n - 1, k \in T PROVE k + 1 \in T
    <3>1. k + 1 \in 1 .. n /\ (k + 1) - 1 = k /\ k + 1 \in 0 .. n
      BY <1>5
    <3>2. file[k + 1] = FileTurn(start, m_cur + (k + 1) - 1)
      BY <3>1, <2>2, <1>6
    <3>3. start.size <= 0
      OBVIOUS
    <3> HIDE DEF start
    <3>4. FileTurn(start, m_cur + (k + 1) - 1) = start
      BY <3>3 DEF FileTurn
    <3> QED BY <3>1, <3>2, <3>4
  <2>3. file[n] = start
    <3> HIDE DEF T
    <3>1. 0 .. n \subseteq T
      BY <2>1, <2>2, <1>5, UpTo
    <3>2. n \in T
      BY <3>1, <1>5
    <3> HIDE DEF start
    <3> QED BY <3>2 DEF T
  <2>4. writeToFile = << >>
    BY <2>3, <1>3
  <2>5. E - p = 0
    BY <1>1, <1>7
  <2> QED BY <2>4, <2>5, <1>4, EmptyFrom
<1>8. CASE E # p
  <2> DEFINE B(k) == (m_cur + k) * Base
             At(k) == IF k = 0 THEN p ELSE Smaller(E, B(k))
             Is(k) == [pos |-> At(k), size |-> E - At(k), good |-> TRUE,
                       out |-> From(p, At(k) - p)]
             T == {k \in 0 .. n : file[k] = Is(k)}
  <2>1. InBlock(m_nodes, p, m_cur) /\ m_cur \in 0 .. m_nodes - 1
    BY <1>1, <1>2, <1>8, BaseNat DEF BlockOf, InBlock
  <2>2. \A k \in 0 .. n : B(k) \in Int /\ B(k + 1) = B(k) + Base
    BY <1>1, <1>5, BaseNat
  <2>3. Npos = p - m_cur * Base /\ m_cur * Base \in Int /\ B(0) = m_cur * Base
        /\ Npos \in 0 .. Base - 1
    <3>1. p - m_cur * Base \in 0 .. Base - 1
      BY <2>1 DEF InBlock
    <3>2. p % Base = p - m_cur * Base
      BY <1>1, <2>1, Place
    <3>3. m_cur * Base \in Int
      BY <1>1, BaseNat
    <3>4. m_cur + 0 = m_cur
      BY <1>1
    <3> QED BY <3>1, <3>2, <3>3, <3>4 DEF Npos
  <2>4. 0 \in T
    <3>1. p - p = 0 /\ From(p, 0) = << >>
      BY <1>1, EmptyFrom
    <3>2. At(0) = p
      OBVIOUS
    <3> HIDE DEF At
    <3>3. file[0] = Is(0)
      BY <3>1, <3>2, <1>6
    <3> HIDE DEF Is
    <3> QED BY <3>3, <1>5
  <2>5. ASSUME NEW k \in 0 .. n - 1, k \in T PROVE k + 1 \in T
    <3> DEFINE c == m_cur + k
               pos == At(k)
    <3>1. k + 1 \in 1 .. n /\ (k + 1) - 1 = k /\ k + 1 \in 0 .. n /\ k \in Nat
          /\ m_cur + (k + 1) - 1 = c /\ c \in Int /\ k \in 0 .. n
      BY <1>1, <1>5
    <3>2. file[k + 1] = FileTurn(Is(k), c)
      BY <3>1, <2>5, <1>6
    <3>3. B(k) \in Int /\ B(k + 1) = B(k) + Base /\ B(k) = c * Base
      BY <3>1, <2>2
    <3> HIDE DEF B
    <3>4. CASE k = 0
      <4> DEFINE len == Smaller(E - p, Base) - Npos
      <4>1. c = m_cur /\ pos = p /\ c * Base = m_cur * Base /\ B(1) = m_cur * Base + Base
        BY <3>4, <1>1, <3>1, <3>3, <2>3
      <4>2. len \in Nat \ {0} /\ len <= Base - Npos /\ p + len = Smaller(E, B(1))
        <5>1. CASE E - p >= Base
          <6>1. Smaller(E - p, Base) = Base
            BY <5>1, <1>1, BaseNat DEF Smaller
          <6>2. len = Base - Npos /\ p + len = B(1) /\ B(1) <= E
            BY <6>1, <5>1, <4>1, <2>3, <1>1, BaseNat
          <6> QED BY <6>2, <4>1, <2>3, <1>1, BaseNat DEF Smaller
        <5>2. CASE ~(E - p >= Base)
          <6>1. Npos = 0 /\ Smaller(E - p, Base) = E - p
            BY <5>2, <1>1, <1>4, BaseNat DEF Smaller
          <6>2. len = E - p /\ B(1) > E
            BY <6>1, <5>2, <4>1, <2>3, <1>1, BaseNat
          <6> QED BY <6>1, <6>2, <5>2, <4>1, <2>3, <1>1, <1>2, <1>8, BaseNat DEF Smaller
        <5> QED BY <5>1, <5>2
      <4>3. len = Smaller(E - p, Base) - (p - c * Base) /\ len <= Base - (p - c * Base)
        BY <4>1, <4>2, <2>3
      <4>4. InBlock(m_nodes, p, c) /\ E - p \in Nat \ {0} /\ p + (E - p) <= m_capacity
        BY <4>1, <2>1, <1>1, <1>2, <1>8
      <4> HIDE DEF len, c
      <4>5. FileTurn([pos |-> p, size |-> E - p, good |-> TRUE, out |-> From(p, p - p)], c)
             = [pos |-> p + len, size |-> (E - p) - len, good |-> TRUE,
                out |-> From(p, (p + len) - p)]
        BY <4>2, <4>3, <4>4, <3>1, <1>1, FileTurnWrites
      <4>6. p + len = At(1) /\ (E - p) - len = E - At(1)
        <5>1. At(1) = Smaller(E, B(1))
          OBVIOUS
        <5>2. p + len = At(1)
          BY <5>1, <4>2
        <5> HIDE DEF At
        <5> QED BY <5>2, <4>2, <1>1
      <4>7. k + 1 = 1 /\ Is(k) = [pos |-> p, size |-> E - p, good |-> TRUE,
                                  out |-> From(p, p - p)]
        BY <3>4
      <4> QED BY <3>1, <3>2, <4>5, <4>6, <4>7
    <3>5. CASE k # 0 /\ E <= B(k)
      <4>1. At(k) = E /\ At(k + 1) = E
        BY <3>1, <3>3, <3>5, <1>1, BaseNat DEF Smaller
      <4>2. Is(k).size <= 0 /\ Is(k + 1) = Is(k)
        <5>1. Is(k).size = E - At(k) /\ E - At(k) = 0
          BY <4>1, <1>1
        <5> HIDE DEF At
        <5>2. Is(k + 1) = Is(k)
          BY <4>1
        <5> HIDE DEF Is
        <5> QED BY <5>1, <5>2
      <4> HIDE DEF Is
      <4>3. FileTurn(Is(k), c) = Is(k)
        BY <4>2 DEF FileTurn
      <4> QED BY <3>1, <3>2, <4>2, <4>3
    <3>6. CASE k # 0 /\ ~(E <= B(k))
      <4> DEFINE len == Smaller(E - B(k), Base)
                 b == B(k)
      <4>1. At(k) = b /\ b < E /\ b \in Int /\ B(k + 1) = b + Base
        BY <3>1, <3>3, <3>6, <1>1 DEF Smaller
      <4>2. p <= b /\ b \in Nat
        <5>1. m_cur < c /\ m_cur * Base + Base <= c * Base
          BY <3>1, <3>6, <1>1, Mul
        <5> QED BY <5>1, <3>3, <2>3, <1>1, BaseNat
      <4>3. c < m_nodes
        <5>1. c * Base < m_nodes * Base
          BY <4>1, <3>3, <1>1, <1>2
        <5> QED BY <5>1, <3>1, <1>1, MulBack
      <4>4. InBlock(m_nodes, b, c) /\ b - c * Base = 0
        BY <4>3, <4>1, <3>1, <3>3, <2>1, <1>1, BaseNat DEF InBlock
      <4> HIDE DEF b
      <4>5. len = Smaller(E - b, Base)
        BY DEF b
      <4> HIDE DEF len
      <4>6. len \in Nat \ {0} /\ len <= Base /\ b + len = Smaller(E, b + Base)
        BY <4>1, <4>2, <4>5, <1>1, BaseNat DEF Smaller
      <4>7. /\ len = Smaller(E - b, Base) - (b - c * Base) /\ len <= Base - (b - c * Base)
            /\ E - b \in Nat \ {0} /\ b + (E - b) <= m_capacity
        BY <4>1, <4>2, <4>4, <4>5, <4>6, <1>1, <1>2, BaseNat
      <4> HIDE DEF c
      <4>8. FileTurn([pos |-> b, size |-> E - b, good |-> TRUE, out |-> From(p, b - p)], c)
             = [pos |-> b + len, size |-> (E - b) - len, good |-> TRUE,
                out |-> From(p, (b + len) - p)]
        BY <4>2, <4>4, <4>6, <4>7, <3>1, <1>1, FileTurnWrites
      <4>9. b + len = At(k + 1) /\ (E - b) - len = E - At(k + 1)
        BY <4>1, <4>2, <4>6, <3>1, <1>1
      <4>10. Is(k) = [pos |-> b, size |-> E - b, good |-> TRUE, out |-> From(p, b - p)]
        BY <4>1
      <4> QED BY <3>1, <3>2, <4>8, <4>9, <4>10
    <3> QED BY <3>4, <3>5, <3>6
  <2>6. file[n] = Is(n)
    <3> HIDE DEF T
    <3>1. 0 .. n \subseteq T
      BY <2>4, <2>5, <1>5, UpTo
    <3>2. n \in T
      BY <3>1, <1>5
    <3> HIDE DEF Is
    <3> QED BY <3>2 DEF T
  <2>7. At(n) = E
    <3>1. n # 0 /\ m_cur + n = m_nodes
      BY <2>1, <1>1 DEF n
    <3>2. B(n) = m_capacity
      BY <3>1, <1>2
    <3> HIDE DEF B
    <3> QED BY <3>1, <3>2, <1>1, <1>2 DEF Smaller
  <2>8. Is(n).size = 0 /\ Is(n).out = From(p, E - p)
    BY <2>7, <1>1
  <2> HIDE DEF Is
  <2>9. writeToFile = Is(n).out
    BY <2>6, <2>8, <1>3
  <2> QED BY <2>8, <2>9, <1>4
<1> QED BY <1>7, <1>8

LEMMA Views == IInv => ViewsExact
<1> SUFFICES ASSUME IInv, Ready PROVE ViewsExact
  BY DEF ViewsExact
<1>1. Npos = 0 \/ getReadSize >= Base =>
         writeToFile = From(m_position, getReadSize)
  BY FileExact
<1> QED BY ReadViews, <1>1 DEF ViewsExact

(* toString, getReadBuffers, getWriteBuffers, the const read() and         *)
(* writeToFile (bytearray.cc:416-640) hand out the bytes from the asked    *)
(* position on, for every size of the blocks, where the code does not go   *)
(* wrong as ViewsExact says.                                               *)
THEOREM HandsOutTheRightBytes == Spec => []ViewsExact
BY Invariant, Views, PTL

-----------------------------------------------------------------------------
(* The array implements ByteTape.                                          *)

(* The tape of ByteTape: the first n cells of the memory m.                *)
Row(n, m) == [i \in 1 .. n |-> m[i - 1]]

LEMMA RowSeq ==
  ASSUME NEW n \in Nat, n <= MaxNodes * Base, NEW m \in [Cell -> Byte]
  PROVE  /\ Row(n, m) \in Seq(Byte) /\ Len(Row(n, m)) = n
         /\ \A i \in 1 .. n : Row(n, m)[i] = m[i - 1] /\ i - 1 \in Cell /\ m[i - 1] \in Byte
<1>0. MaxNodes * Base \in Nat
  BY BaseNat
<1>1. ASSUME NEW i \in 1 .. n PROVE i - 1 \in Cell /\ m[i - 1] \in Byte
  <2>1. i - 1 \in Cell
    BY <1>0 DEF Cell
  <2> QED BY <2>1
<1>2. Row(n, m) \in [1 .. n -> Byte]
  BY <1>1 DEF Row
<1>3. \A i \in 1 .. n : Row(n, m)[i] = m[i - 1]
  BY DEF Row
<1>4. Row(n, m) \in Seq(Byte) /\ Len(Row(n, m)) = n
  BY <1>2
<1> QED BY <1>1, <1>3, <1>4

(* The tape fits into the memory, before a step ...                        *)
LEMMA LengthFits ==
  ASSUME IInv
  PROVE  /\ Length \in Nat /\ Length <= MaxNodes * Base /\ MaxNodes * Base \in Nat
         /\ m_position <= Length /\ m_position \in Nat /\ mem \in [Cell -> Byte]
         /\ m_capacity <= MaxNodes * Base /\ m_capacity \in Nat
         /\ call.op # "write" => Length = m_size
<1>1. /\ m_position \in Nat /\ m_size \in Nat /\ m_capacity \in Nat /\ m_nodes \in 1 .. MaxNodes
      /\ mem \in [Cell -> Byte]
  BY DEF IInv, Types
<1>2. /\ m_capacity = m_nodes * Base /\ m_position <= m_capacity /\ m_size <= m_capacity
      /\ call.op # "write" => m_position <= m_size
  BY DEF IInv, Geometry, Loop
<1>3. MaxNodes \in Nat /\ MaxNodes * Base \in Nat
  BY BaseNat
<1>4. m_nodes * Base <= MaxNodes * Base
  BY <1>1, <1>3, BaseNat, Mul
<1> QED BY <1>1, <1>2, <1>3, <1>4 DEF Length

(* ... and after it.                                                       *)
LEMMA LengthFitsAfter ==
  ASSUME IInv'
  PROVE  Length' \in Nat /\ Length' <= MaxNodes * Base /\ mem' \in [Cell -> Byte]
<1>1. /\ m_position' \in Nat /\ m_size' \in Nat /\ m_nodes' \in 1 .. MaxNodes
      /\ mem' \in [Cell -> Byte] /\ m_capacity' = m_nodes' * Base
      /\ m_position' <= m_capacity' /\ m_size' <= m_capacity'
  BY DEF IInv, Types, Geometry
<1>2. m_nodes' * Base <= MaxNodes * Base /\ m_nodes' * Base \in Nat /\ MaxNodes * Base \in Nat
  <2>1. \A k \in 1 .. MaxNodes : k * Base <= MaxNodes * Base /\ k * Base \in Nat
    BY BaseNat, Mul
  <2>2. MaxNodes * Base \in Nat
    BY BaseNat
  <2> QED BY <1>1, <2>1, <2>2
<1> QED BY <1>1, <1>2 DEF Length

(* The steps of the tape, by what they do to the array.                    *)
LEMMA TapeWrites ==
  ASSUME IInv, IInv', NEW n \in 1 .. MaxNodes * Base,
         m_position' = m_position + n, got' = << >>,
         Length' = IF m_position + n > Length THEN m_position + n ELSE Length,
         \A i \in Cell : i \notin m_position .. m_position + n - 1 => mem'[i] = mem[i]
  PROVE  Tape!Write(n)
<1> DEFINE t == Row(Length, mem)
           u == Row(Length', mem')
           end == m_position + n
<1>1. /\ Length \in Nat /\ Length <= MaxNodes * Base /\ mem \in [Cell -> Byte]
      /\ m_position \in Nat /\ m_position <= Length /\ MaxNodes * Base \in Nat
  BY LengthFits
<1>2. /\ Length' \in Nat /\ Length' <= MaxNodes * Base /\ mem' \in [Cell -> Byte]
  BY LengthFitsAfter
<1>3. /\ Len(t) = Length
      /\ \A i \in 1 .. Length : t[i] = mem[i - 1]
  BY <1>1, RowSeq
<1>4. /\ Len(u) = Length'
      /\ \A i \in 1 .. Length' : u[i] = mem'[i - 1] /\ i - 1 \in Cell /\ mem'[i - 1] \in Byte
  BY <1>2, RowSeq
<1>5. ASSUME NEW i \in 1 .. Length'
      PROVE  IF i \in m_position + 1 .. end THEN u[i] \in Byte ELSE u[i] = t[i]
  <2>1. u[i] = mem'[i - 1] /\ i - 1 \in Cell /\ mem'[i - 1] \in Byte
    BY <1>4
  <2>2. CASE i \in m_position + 1 .. end
    BY <2>1, <2>2
  <2>3. CASE i \notin m_position + 1 .. end
    <3>1. i - 1 \notin m_position .. m_position + n - 1 /\ i \in 1 .. Length
      BY <2>3, <1>1, <1>2
    <3>2. mem'[i - 1] = mem[i - 1] /\ t[i] = mem[i - 1]
      BY <3>1, <2>1, <1>3
    <3> QED BY <2>1, <2>3, <3>2
  <2> QED BY <2>2, <2>3
<1>6. t = [i \in 1 .. Length |-> mem[i - 1]] /\ u = [i \in 1 .. Length' |-> mem'[i - 1]]
  BY DEF Row
<1> HIDE DEF t, u
<1>7. /\ Len(u) = IF end > Len(t) THEN end ELSE Len(t)
      /\ \A i \in 1 .. Len(u) : IF i \in m_position + 1 .. end THEN u[i] \in Byte
                                                          ELSE u[i] = t[i]
  BY <1>3, <1>4, <1>5
<1>8. /\ Len([i \in 1 .. Length' |-> mem'[i - 1]])
           = IF end > Len([i \in 1 .. Length |-> mem[i - 1]]) THEN end
             ELSE Len([i \in 1 .. Length |-> mem[i - 1]])
      /\ \A i \in 1 .. Len([i \in 1 .. Length' |-> mem'[i - 1]]) :
           IF i \in m_position + 1 .. end
           THEN [j \in 1 .. Length' |-> mem'[j - 1]][i] \in Byte
           ELSE [j \in 1 .. Length' |-> mem'[j - 1]][i] = [j \in 1 .. Length |-> mem[j - 1]][i]
  BY <1>6, <1>7, Zenon
<1> QED BY <1>8, Zenon DEF Tape!Write

LEMMA TapeReads ==
  ASSUME IInv, IInv', NEW n \in Nat, m_position + n <= Length,
         m_position' = m_position + n, mem' = mem, Length' = Length,
         got' \in Seq(Byte), Len(got') = n,
         \A k \in 1 .. n : got'[k] = mem[m_position + k - 1]
  PROVE  Tape!Read(n)
<1> DEFINE t == Row(Length, mem)
           u == Row(Length', mem')
           p == m_position
<1>1. /\ Length \in Nat /\ Length <= MaxNodes * Base /\ mem \in [Cell -> Byte]
      /\ p \in Nat
  BY LengthFits
<1>2. /\ t \in Seq(Byte) /\ Len(t) = Length
      /\ \A i \in 1 .. Length : t[i] = mem[i - 1]
  BY <1>1, RowSeq
<1>3. u = t
  OBVIOUS
<1>4. t = [i \in 1 .. Length |-> mem[i - 1]] /\ u = [i \in 1 .. Length' |-> mem'[i - 1]]
  BY DEF Row
<1> HIDE DEF t, u
<1> DEFINE s == SubSeq(t, p + 1, p + n)
<1>5. s \in Seq(Byte) /\ Len(s) = n
  <2>1. \A k \in 1 .. n : p + k \in 1 .. Len(t)
    BY <1>1, <1>2
  <2> QED BY <1>1, <1>2, <2>1
<1>6. ASSUME NEW k \in 1 .. n PROVE s[k] = got'[k]
  <2>1. p + k \in 1 .. Length /\ (p + k) - 1 = p + k - 1
    BY <1>1
  <2>2. s[k] = t[p + k]
    BY <1>1, <1>2, Piece
  <2>3. t[p + k] = mem[(p + k) - 1]
    BY <2>1, <1>2
  <2> QED BY <2>1, <2>2, <2>3
<1> HIDE DEF s
<1>7. got' = s
  BY <1>5, <1>6, SeqEqual
<1>8. /\ p + n <= Len(t) /\ got' = SubSeq(t, p + 1, p + n)
  BY <1>2, <1>7 DEF s
<1> QED BY <1>3, <1>4, <1>8, Zenon DEF Tape!Read

LEMMA TapeSeeks ==
  ASSUME IInv, IInv', NEW v \in Nat, m_position' = v, mem' = mem, got' = << >>,
         Length' = IF v > Length THEN v ELSE Length
  PROVE  Tape!Seek(v)
<1> DEFINE t == Row(Length, mem)
           u == Row(Length', mem')
<1>1. /\ Length \in Nat /\ Length <= MaxNodes * Base /\ mem \in [Cell -> Byte]
      /\ Length' \in Nat /\ Length' <= MaxNodes * Base /\ mem' \in [Cell -> Byte]
  BY LengthFits, LengthFitsAfter
<1>2. /\ t \in Seq(Byte) /\ Len(t) = Length
      /\ \A i \in 1 .. Length : t[i] = mem[i - 1]
  BY <1>1, RowSeq
<1>3. /\ u \in Seq(Byte) /\ Len(u) = Length'
      /\ \A i \in 1 .. Length' : u[i] = mem'[i - 1] /\ mem'[i - 1] \in Byte
  BY <1>1, RowSeq
<1>4. v <= Length => u = t
  BY <1>1
<1>5. t = [i \in 1 .. Length |-> mem[i - 1]] /\ u = [i \in 1 .. Length' |-> mem'[i - 1]]
  BY DEF Row
<1> HIDE DEF t, u
<1>6. CASE v <= Length
  <2>1. v <= Len(t) /\ u = t
    BY <1>2, <1>4, <1>6
  <2> QED BY <1>5, <2>1, Zenon DEF Tape!Seek
<1>7. CASE v > Length
  <2>1. v > Len(t) /\ Len(u) = v /\ \A i \in 1 .. v : u[i] \in Byte
    BY <1>1, <1>2, <1>3, <1>7
  <2> DEFINE s == SubSeq(u, 1, Len(t))
  <2>2. s \in Seq(Byte) /\ Len(s) = Len(t)
    BY <1>1, <1>2, <1>3, <2>1
  <2>3. ASSUME NEW k \in 1 .. Len(t) PROVE s[k] = t[k]
    <3>1. k \in 1 .. Length /\ k \in 1 .. Length'
      BY <1>1, <1>2, <1>7
    <3>2. s[k] = u[k]
      BY <3>1, <1>1, <1>2, <1>3, <2>1
    <3> QED BY <3>1, <3>2, <1>2, <1>3
  <2> HIDE DEF s
  <2>4. s = t
    BY <1>2, <2>2, <2>3, SeqEqual
  <2>5. SubSeq(u, 1, Len(t)) = t
    BY <2>4 DEF s
  <2> QED BY <1>5, <2>1, <2>5, Zenon DEF Tape!Seek
<1> QED BY <1>1, <1>6, <1>7

(* Every step of the array is a step of the tape or leaves it alone.       *)
TapeVars == <<[i \in 1 .. Length |-> mem[i - 1]], m_position, got>>

LEMMA TapeRests ==
  ASSUME UNCHANGED <<m_position, m_size, mem, got>>
  PROVE  UNCHANGED TapeVars
BY DEF TapeVars, Length

(* The start of a function and the steps around the loops deliver nothing: *)
(* they are reads of 0 bytes.                                              *)
LEMMA CallStep ==
  ASSUME IInv, IInv', call.op # "write", UNCHANGED <<m_position, m_size, mem>>, got' = << >>
  PROVE  Tape!Next
<1>1. /\ m_position \in Nat /\ m_position <= Length /\ MaxNodes * Base \in Nat
  BY LengthFits
<1>2. Length' = Length /\ mem' = mem
  BY DEF Length
<1>3. m_position + 0 = m_position /\ << >> \in Seq(Byte) /\ Len(<< >>) = 0
  BY <1>1
<1>4. \A k \in 1 .. 0 : got'[k] = mem[m_position + k - 1]
  OBVIOUS
<1>5. /\ 0 \in Nat /\ m_position + 0 <= Length /\ m_position' = m_position + 0
      /\ got' \in Seq(Byte) /\ Len(got') = 0
  BY <1>1, <1>3
<1>6. Tape!Read(0)
  BY <1>2, <1>4, <1>5, TapeReads
<1>7. 0 \in 0 .. MaxNodes * Base
  BY <1>1
<1> QED BY <1>6, <1>7, Zenon DEF Tape!Next

(* A turn of the writing loop is a Write.                                  *)
LEMMA WriteStep == ASSUME IInv, IInv', WriteFills \/ WriteEnds PROVE Tape!Next
<1>1. call.op = "write" /\ crash = "none"
  BY DEF WriteFills, WriteEnds
<1>2. /\ call \in Calls /\ m_position \in Nat /\ m_size \in Nat /\ m_capacity \in Nat
      /\ call.todo \in Seq(Byte) /\ call.ncap \in Nat /\ m_cur \in Int
  BY DEF IInv, Types, Calls
<1>3. /\ InBlock(m_nodes, m_position, m_cur) /\ call.npos = m_position - m_cur * Base
      /\ call.ncap = Base - call.npos /\ call.todo # << >> /\ got = << >>
  BY <1>1 DEF IInv, Loop, Progress, Writing
<1>4. call.ncap > 0 /\ Len(call.todo) > 0 /\ Len(call.todo) \in Nat
  BY <1>2, <1>3, BaseNat DEF InBlock
<1> DEFINE Copies(n) ==
             /\ n <= Len(call.todo) /\ n <= call.ncap /\ Store(n)
             /\ m_position' = m_position + n /\ got' = << >>
             /\ \/ m_size' = m_size
                \/ m_size' = IF m_position + n > m_size THEN m_position + n ELSE m_size
<1>5. PICK n \in Nat \ {0} : Copies(n)
  <2>1. CASE WriteFills
    <3>1. call.ncap \in Nat \ {0} /\ Copies(call.ncap)
      BY <2>1, <1>2, <1>3, <1>4 DEF WriteFills
    <3> QED BY <3>1
  <2>2. CASE WriteEnds
    <3>1. Len(call.todo) \in Nat \ {0} /\ Copies(Len(call.todo))
      BY <2>2, <1>2, <1>3, <1>4 DEF WriteEnds
    <3> QED BY <3>1
  <2> QED BY <2>1, <2>2
<1>6. /\ \A i \in Cell : i \notin m_position .. m_position + n - 1 => mem'[i] = mem[i]
      /\ m_position + n <= m_capacity
  BY <1>1, <1>5, Stores
<1>7. Length' = IF m_position + n > Length THEN m_position + n ELSE Length
  <2>1. Length' = IF m_position + n > m_size' THEN m_position + n ELSE m_size'
    BY <1>5 DEF Length
  <2>2. Length' = IF m_position + n > m_size THEN m_position + n ELSE m_size
    BY <2>1, <1>2, <1>5
  <2>3. Length = IF m_position > m_size THEN m_position ELSE m_size
    BY DEF Length
  <2> HIDE DEF Copies
  <2> QED BY <2>2, <2>3, <1>2
<1>8. n \in 1 .. MaxNodes * Base
  <2>1. m_capacity <= MaxNodes * Base /\ MaxNodes * Base \in Nat
    BY LengthFits
  <2> QED BY <2>1, <1>2, <1>5, <1>6
<1>9. Tape!Write(n)
  BY <1>5, <1>6, <1>7, <1>8, TapeWrites
<1> QED BY <1>8, <1>9, Zenon DEF Tape!Next

(* A turn of the reading loop is a Read.                                   *)
LEMMA ReadStep == ASSUME IInv, IInv', ReadDrains \/ ReadEnds PROVE Tape!Next
<1>1. call.op = "read" /\ crash = "none"
  BY DEF ReadDrains, ReadEnds
<1>2. /\ call \in Calls /\ m_position \in Nat /\ m_size \in Nat
      /\ call.size \in Nat /\ call.ncap \in Nat
  BY DEF IInv, Types, Calls
<1>3. m_position + call.size <= m_size
  BY <1>1 DEF IInv, Loop
<1> DEFINE Copies(n) ==
             /\ n <= call.size /\ n <= call.ncap
             /\ m_position' = m_position + n /\ got' = Load(m_cur, call.npos, n)
             /\ m_size' = m_size /\ mem' = mem
<1>4. PICK n \in Nat : Copies(n)
  <2>1. CASE ReadDrains
    <3>1. Copies(call.ncap)
      BY <2>1, <1>2 DEF ReadDrains
    <3> QED BY <3>1, <1>2
  <2>2. CASE ReadEnds
    <3>1. Copies(call.size)
      BY <2>2, <1>2 DEF ReadEnds
    <3> QED BY <3>1, <1>2
  <2> QED BY <2>1, <2>2
<1>5. /\ got' \in Seq(Byte) /\ Len(got') = n
      /\ \A k \in 1 .. n : got'[k] = mem[m_position + k - 1]
  <2>1. LET s == Load(m_cur, call.npos, n) IN
        /\ s \in Seq(Byte) /\ Len(s) = n
        /\ \A k \in 1 .. n : s[k] = mem[m_position + k - 1]
    BY <1>1, <1>4, Loads
  <2> QED BY <1>4, <2>1
<1>6. Length' = Length /\ m_position + n <= Length
  BY <1>2, <1>3, <1>4 DEF Length
<1>7. n \in 0 .. MaxNodes * Base
  <2>1. Length <= MaxNodes * Base /\ MaxNodes * Base \in Nat /\ Length \in Nat
    BY LengthFits
  <2> QED BY <2>1, <1>2, <1>4, <1>6
<1>8. Tape!Read(n)
  BY <1>4, <1>5, <1>6, TapeReads
<1> QED BY <1>7, <1>8, Zenon DEF Tape!Next

LEMMA SeekStep ==
  ASSUME IInv, IInv', NEW v \in 0 .. MaxNodes * Base, setPosition(v)
  PROVE  Tape!Next
<1>1. v \in Nat /\ m_size \in Nat /\ m_position \in Nat /\ call.op # "write"
  BY BaseNat, IdleTyped DEF IInv, Types, setPosition, Ready
<1>2. Length = m_size
  BY <1>1, LengthFits
<1>3. /\ m_position' = v /\ mem' = mem /\ got' = << >>
      /\ m_size' = IF v > m_size THEN v ELSE m_size
  BY DEF setPosition
<1>4. Length' = IF v > Length THEN v ELSE Length
  <2>1. Length' = IF v > m_size' THEN v ELSE m_size'
    BY <1>3 DEF Length
  <2> QED BY <2>1, <1>1, <1>2, <1>3
<1>5. Tape!Seek(v)
  BY <1>1, <1>3, <1>4, TapeSeeks
<1> QED BY <1>5, Zenon DEF Tape!Next

LEMMA ClearStep == ASSUME clear PROVE Tape!Next
<1>1. m_position' = 0 /\ got' = << >> /\ Length' = 0
  BY DEF clear, Length
<1>2. [i \in 1 .. Length' |-> mem'[i - 1]] = << >>
  BY <1>1
<1> QED BY <1>1, <1>2, Zenon DEF Tape!Next, Tape!Clear

(* Every action is a step of the tape or leaves it as it is.               *)
LEMMA TapeStep == ASSUME IInv, IInv', Next PROVE [Tape!Next]_TapeVars
<1>1. ASSUME NEW kind, NEW v, NEW s, NEW rest, Writes(kind, v, s, rest) PROVE Tape!Next
  BY <1>1, CallStep, IdleTyped DEF Writes, Ready, ba
<1>2. ASSUME NEW kind, NEW n, Reads(kind, n) PROVE Tape!Next
  BY <1>2, CallStep, IdleTyped DEF Reads, Ready, ba
<1>3. ASSUME ReadBegins \/ ReadThrows PROVE Tape!Next
  BY <1>3, CallStep DEF ReadBegins, ReadThrows, ba
<1>4. ASSUME NEW n \in 1 .. Base, getWriteBuffers(n) PROVE Tape!Next
  BY <1>4, CallStep, IdleTyped DEF getWriteBuffers, Ready
<1>5. ASSUME setIsLittleEndian \/ WriteBegins \/ WriteNothing \/ Wrote
      PROVE  UNCHANGED TapeVars
  BY <1>5, TapeRests DEF setIsLittleEndian, WriteBegins, WriteNothing, Wrote, ba
<1>6. ASSUME NEW v, writeUint(v) \/ writeInt(v) \/ writeFuint(v) \/ writeString(v)
                    \/ writeStringWithoutLength(v) \/ readFromFile(v)
      PROVE  Tape!Next
  BY <1>1, <1>6 DEF writeUint, writeInt, writeFuint, writeString, writeStringWithoutLength,
                    readFromFile
<1>7. ASSUME readUint \/ readFuint \/ readString PROVE Tape!Next
  BY <1>2, <1>7 DEF readUint, readFuint, readString
<1> QED BY <1>3, <1>4, <1>5, <1>6, <1>7, WriteStep, ReadStep, SeekStep, ClearStep DEF Next

(* The list of blocks implements the tape of ByteTape: every turn of the   *)
(* loops of write() and read() replaces, appends or delivers the next      *)
(* bytes at the position and touches no other (bytearray.cc:339-409),      *)
(* setPosition() keeps the bytes and clear() drops them.                   *)
THEOREM ImplementsByteTape == Spec => ByteTapeSpec
<1>1. Init => Tape!Init
  <2> SUFFICES ASSUME Init PROVE Tape!Init
    OBVIOUS
  <2>1. Length = 0 /\ m_position = 0 /\ got = << >>
    BY DEF Init, Length
  <2>2. [i \in 1 .. Length |-> mem[i - 1]] = << >>
    BY <2>1
  <2> QED BY <2>1, <2>2, Zenon DEF Tape!Init
<1>2. IInv /\ IInv' /\ [Next]_vars
        => [Tape!Next]_<<[i \in 1 .. Length |-> mem[i - 1]], m_position, got>>
  <2>1. CASE UNCHANGED vars
    BY <2>1, TapeRests DEF vars, ba, TapeVars
  <2>2. CASE Next
    BY <2>2, TapeStep DEF TapeVars
  <2> QED BY <2>1, <2>2
<1> QED BY Invariant, <1>1, <1>2, PTL DEF Spec, ByteTapeSpec, Tape!Spec
=============================================================================
