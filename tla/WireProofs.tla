------------------------------ MODULE WireProofs ------------------------------
(***************************************************************************)
(* What protobuf-c.h promises of the wire format, for all values and all   *)
(* tables.                                                                 *)
(*                                                                         *)
(* A value is packed into the bytes that are read back to it, and skipped  *)
(* as a whole (Varint).  The argument: the packers, whatever they shift    *)
(* and in how many pieces, write the groups of seven bits of one word,     *)
(* lowest first (IsVarint), which is the value, or a number that stands    *)
(* for it (WordOf); a reader that has read i bytes has the lower 7 * i     *)
(* bits of that word; the sizes count its groups.                          *)
(*                                                                         *)
(* The two searches in a descriptor find the field that is there           *)
(* (FieldLookup).                                                          *)
(***************************************************************************)
EXTENDS Varint, FieldLookup, WellFoundedInduction, SequenceTheorems, TLAPS

(* The least of a set of numbers. *)
LEMMA LeastNumber ==
  ASSUME NEW T, T \subseteq Nat, T # {}
  PROVE  Min(T) \in T /\ \A y \in T : Min(T) <= y
<1>. DEFINE Below == OpToRel(<, Nat)
<1>1. PICK x \in T : \A y \in T : ~ (<<y, x>> \in Below)
  BY NatLessThanWellFounded, WFMin
<1>2. ASSUME NEW y \in T PROVE x <= y
  <2>1. x \in Nat /\ y \in Nat
    OBVIOUS
  <2>2. ~ (y < x)
    BY <1>1, <2>1 DEF OpToRel
  <2> QED BY <2>1, <2>2
<1> QED BY <1>2 DEF Min

(* Two sizes are equal when they are the least numbers of one set. *)
LEMMA SameSet ==
  ASSUME NEW A, NEW B, \A k : k \in A <=> k \in B
  PROVE  A = B
OBVIOUS
-----------------------------------------------------------------------------
(* The bits of a word. *)
LEMMA ShrBit ==
  ASSUME NEW v \in SUBSET Nat, NEW d \in Nat, NEW b
  PROVE  b \in Shr(v, d) <=> b \in Nat /\ b + d \in v
<1>1. ASSUME b \in Shr(v, d) PROVE b \in Nat /\ b + d \in v
  <2>1. PICK c \in v : c >= d /\ b = c - d
    BY <1>1 DEF Shr
  <2>. QED
    BY <2>1
<1>2. ASSUME b \in Nat, b + d \in v PROVE b \in Shr(v, d)
  <2>1. b + d >= d /\ b = (b + d) - d
    BY <1>2
  <2>. QED
    BY <1>2, <2>1 DEF Shr
<1>. QED
  BY <1>1, <1>2

LEMMA ShlBit ==
  ASSUME NEW v \in SUBSET Nat, NEW d \in Nat, NEW width \in Nat, NEW b
  PROVE  b \in Shl(v, d, width) <=> b \in 0 .. width - 1 /\ b - d \in v
<1>1. ASSUME b \in Shl(v, d, width) PROVE b \in 0 .. width - 1 /\ b - d \in v
  <2>1. PICK c \in v : b = c + d
    BY <1>1 DEF Shl
  <2>2. b - d = c
    BY <2>1
  <2>. QED
    BY <1>1, <2>2 DEF Shl
<1>2. ASSUME b \in 0 .. width - 1, b - d \in v PROVE b \in Shl(v, d, width)
  <2>1. b = (b - d) + d
    BY <1>2
  <2>. QED
    BY <1>2, <2>1 DEF Shl
<1>. QED
  BY <1>1, <1>2

(* Of a value below zero, all but the sign moves up and turns over. *)
LEMMA ZigzagNegative ==
  ASSUME NEW width \in Nat \ {0}, NEW v \in SUBSET (0 .. width - 1), width - 1 \in v
  PROVE  zigzag(v, width) = {b \in 0 .. width - 1 : b = 0 \/ b - 1 \notin v}
<1>. DEFINE last == width - 1
            low == Min(v)
            opposite == Minus(v, width)
            twice == Shl(opposite, 1, width)
<1>1. low \in v /\ (\A c \in v : low <= c) /\ low \in 0 .. last
  <2>1. v \subseteq Nat /\ v # {}
    OBVIOUS
  <2>. QED
    BY <2>1, LeastNumber
<1>. HIDE DEF low
<1>2. \A b \in 0 .. last : (\A c \in 0 .. b - 1 : c \in Not(v, width)) <=> b <= low
  <2>. SUFFICES ASSUME NEW b \in 0 .. last
                PROVE  (\A c \in 0 .. b - 1 : c \in Not(v, width)) <=> b <= low
    OBVIOUS
  <2>1. ASSUME b <= low, NEW c \in 0 .. b - 1 PROVE c \in Not(v, width)
    BY <1>1, <2>1 DEF Not
  <2>2. ASSUME b > low PROVE low \in 0 .. b - 1 /\ low \notin Not(v, width)
    BY <1>1, <2>2 DEF Not
  <2>3. b <= low \/ b > low
    BY <1>1
  <2>. QED
    BY <1>1, <2>1, <2>2, <2>3
<1>3. ASSUME NEW b
      PROVE  b \in opposite <=> b \in 0 .. last /\ (b = low \/ (b > low /\ b \notin v))
  <2>1. b \in opposite <=>
          b \in Xor(Not(v, width), {c \in 0 .. last : c <= low})
    BY <1>2, SameSet DEF Minus, Plus1
  <2>2. CASE b \in 0 .. last
    BY <1>1, <2>1, <2>2 DEF Xor, Not
  <2>3. CASE b \notin 0 .. last
    BY <2>1, <2>3 DEF Xor, Not
  <2>. QED
    BY <2>2, <2>3
<1>4. opposite \in SUBSET Nat
  BY <1>3
<1>. HIDE DEF opposite
<1>5. ASSUME NEW b
      PROVE  b \in twice <=>
               b \in 1 .. last /\ (b = low + 1 \/ (b > low + 1 /\ b - 1 \notin v))
  <2>1. b \in twice <=> b \in 0 .. last /\ b - 1 \in opposite
    BY <1>4, ShlBit
  <2>2. CASE b \in 0 .. last
    BY <1>1, <1>3, <2>1, <2>2
  <2>. QED
    BY <2>1, <2>2
<1>. HIDE DEF twice
<1>6. \A b \in 0 .. last : (\A c \in 0 .. b - 1 : c \notin twice) <=> b <= low + 1
  <2>. SUFFICES ASSUME NEW b \in 0 .. last
                PROVE  (\A c \in 0 .. b - 1 : c \notin twice) <=> b <= low + 1
    OBVIOUS
  <2>1. ASSUME b <= low + 1, NEW c \in 0 .. b - 1 PROVE c \notin twice
    BY <1>1, <1>5, <2>1
  <2>2. ASSUME b > low + 1 PROVE low + 1 \in 0 .. b - 1 /\ low + 1 \in twice
    BY <1>1, <1>5, <2>2
  <2>3. b <= low + 1 \/ b > low + 1
    BY <1>1
  <2>. QED
    BY <1>1, <2>1, <2>2, <2>3
<1>7. zigzag(v, width) = Xor(twice, {b \in 0 .. last : b <= low + 1})
  <2>1. zigzag(v, width) = Minus1(twice, width)
    BY DEF zigzag, twice, opposite
  <2>2. {b \in 0 .. width - 1 : \A c \in 0 .. b - 1 : c \notin twice}
          = {b \in 0 .. last : b <= low + 1}
    BY <1>6
  <2>. QED
    BY <2>1, <2>2 DEF Minus1
<1>8. ASSUME NEW b
      PROVE  b \in zigzag(v, width) <=> b \in 0 .. last /\ (b = 0 \/ b - 1 \notin v)
  <2>1. CASE b \in 0 .. last
    <3>1. b \in zigzag(v, width) <=>
            IF b <= low + 1 THEN b \notin twice ELSE b \in twice
      BY <1>7, <2>1 DEF Xor
    <3>2. b - 1 \in v => low <= b - 1
      BY <1>1
    <3>. QED
      BY <1>1, <1>5, <2>1, <3>1, <3>2
  <2>2. CASE b \notin 0 .. last
    BY <1>5, <1>7, <2>2 DEF Xor
  <2>. QED
    BY <2>1, <2>2
<1>. QED
  BY <1>8

(* Zigzag loses nothing. *)
LEMMA ZigzagBack ==
  ASSUME NEW width \in Nat \ {0}, NEW v \in SUBSET (0 .. width - 1)
  PROVE  /\ zigzag(v, width) \in SUBSET (0 .. width - 1)
         /\ UnZigzag(zigzag(v, width), width) = v
<1>. DEFINE w == zigzag(v, width)
<1>1. CASE width - 1 \in v
  <2>1. w = {b \in 0 .. width - 1 : b = 0 \/ b - 1 \notin v}
    BY <1>1, ZigzagNegative
  <2>2. w \in SUBSET (0 .. width - 1) /\ 0 \in w
    BY <2>1
  <2>3. ASSUME NEW b PROVE b \in UnZigzag(w, width) <=> b \in v
    <3>1. b \in Shr(w, 1) <=> b \in Nat /\ b + 1 \in w
      BY <2>2, ShrBit
    <3>2. b \in UnZigzag(w, width) <=> b \in Xor(Shr(w, 1), 0 .. width - 1)
      BY <2>2 DEF UnZigzag
    <3>3. CASE b \in 0 .. width - 1
      <4>1. b \in UnZigzag(w, width) <=> b + 1 \notin w
        BY <3>1, <3>2, <3>3 DEF Xor
      <4>2. b + 1 \in w <=> b + 1 \in 0 .. width - 1 /\ b \notin v
        BY <2>1, <3>3
      <4>3. b = width - 1 \/ b + 1 \in 0 .. width - 1
        BY <3>3
      <4>. QED
        BY <1>1, <3>3, <4>1, <4>2, <4>3
    <3>4. CASE b \notin 0 .. width - 1
      <4>1. b \notin Shr(w, 1)
        BY <2>2, <3>1, <3>4
      <4>. QED
        BY <3>2, <3>4, <4>1 DEF Xor
    <3>. QED
      BY <3>3, <3>4
  <2>. QED
    BY <2>2, <2>3, SameSet
<1>2. CASE width - 1 \notin v
  <2>1. w = Shl(v, 1, width)
    BY <1>2 DEF zigzag
  <2>2. \A b : b \in w <=> b \in 0 .. width - 1 /\ b - 1 \in v
    BY <2>1, ShlBit
  <2>3. w \in SUBSET (0 .. width - 1) /\ 0 \notin w
    BY <2>2
  <2>4. ASSUME NEW b PROVE b \in UnZigzag(w, width) <=> b \in v
    <3>1. b \in Shr(w, 1) <=> b \in Nat /\ b + 1 \in w
      BY <2>3, ShrBit
    <3>2. b \in UnZigzag(w, width) <=> b \in Shr(w, 1)
      BY <2>3 DEF UnZigzag, Xor
    <3>3. b \in Nat => (b + 1 \in w <=> b + 1 \in 0 .. width - 1 /\ b \in v)
      BY <2>2
    <3>4. b \in v => b \in Nat /\ b # width - 1 /\ b + 1 \in 0 .. width - 1
      BY <1>2
    <3>. QED
      BY <3>1, <3>2, <3>3, <3>4
  <2>. QED
    BY <2>3, <2>4, SameSet
<1>. QED
  BY <1>1, <1>2
-----------------------------------------------------------------------------
(* The bits of w that byte k of a varint has, and the byte, with its top bit *)
(* set when more follow.                                                     *)
Group(w, k) == {b \in 0 .. 6 : b + (7 * k - 7) \in w}

IsVarint(packed, w, size) ==
  /\ size \in Nat \ {0}
  /\ packed \in Seq(SUBSET (0 .. 7))
  /\ Len(packed) = size
  /\ \A k \in 1 .. size : packed[k] = Group(w, k) \union (IF k < size THEN {7} ELSE {})
  /\ \A b \in w : b < 7 * size

LEMMA GroupType ==
  ASSUME NEW w, NEW k
  PROVE  Group(w, k) \in SUBSET (0 .. 7) /\ 7 \notin Group(w, k)
BY DEF Group

(* The elements of two sequences, one after the other. *)
LEMMA Joined ==
  ASSUME NEW S, NEW s \in Seq(S), NEW t \in Seq(S), NEW both, both = s \o t
  PROVE  /\ both \in Seq(S) /\ Len(both) = Len(s) + Len(t)
         /\ Len(s) \in Nat /\ Len(t) \in Nat
         /\ \A k \in 1 .. Len(s) : both[k] = s[k]
         /\ \A k \in 1 .. Len(t) : both[k + Len(s)] = t[k]
<1>1. Len(s) \in Nat /\ Len(t) \in Nat
  BY LenProperties
<1>2. /\ both \in Seq(S) /\ Len(both) = Len(s) + Len(t)
      /\ \A k \in 1 .. Len(s) + Len(t) : both[k] = IF k <= Len(s) THEN s[k] ELSE t[k - Len(s)]
  BY ConcatProperties
<1>3. \A k \in 1 .. Len(s) : k \in 1 .. Len(s) + Len(t) /\ k <= Len(s)
  BY <1>1
<1>4. \A k \in 1 .. Len(t) : /\ k + Len(s) \in 1 .. Len(s) + Len(t) /\ ~ (k + Len(s) <= Len(s))
                             /\ (k + Len(s)) - Len(s) = k
  BY <1>1
<1>. QED
  BY <1>1, <1>2, <1>3, <1>4

(* A part of a sequence. *)
LEMMA PartOf ==
  ASSUME NEW S, NEW s \in Seq(S), NEW first \in Nat \ {0}, NEW last \in Nat,
         first <= last + 1, last <= Len(s), NEW part, part = SubSeq(s, first, last)
  PROVE  /\ part \in Seq(S) /\ Len(part) = last - first + 1
         /\ \A k \in 1 .. Len(part) : part[k] = s[k + (first - 1)]
<1>1. \A k \in first .. last : s[k] \in S
  BY ElementOfSeq, LenProperties
<1>2. /\ part \in Seq(S)
      /\ Len(part) = IF first <= last THEN last - first + 1 ELSE 0
      /\ \A k \in 1 .. last - first + 1 : part[k] = s[first + k - 1]
  BY <1>1, SubSeqProperties
<1>3. Len(part) = last - first + 1
  BY <1>2
<1>4. \A k \in 1 .. last - first + 1 : first + k - 1 = k + (first - 1)
  OBVIOUS
<1>. QED
  BY <1>2, <1>3, <1>4

(* A function on 1 .. size is a sequence of that length. *)
LEMMA FunctionIsSeq ==
  ASSUME NEW S, NEW size \in Nat, NEW f \in [1 .. size -> S]
  PROVE  f \in Seq(S) /\ Len(f) = size /\ \A k \in 1 .. size : f[k] \in S
<1>1. f \in Seq(S)
  BY IsASeq
<1>. QED
  BY <1>1, LenProperties

LEMMA GroupsAreVarint ==
  ASSUME NEW w, NEW size \in Nat \ {0}, \A b \in w : b < 7 * size, NEW packed,
         packed = [k \in 1 .. size |-> Group(w, k) \union (IF k < size THEN {7} ELSE {})]
  PROVE  IsVarint(packed, w, size)
<1>1. packed \in [1 .. size -> SUBSET (0 .. 7)]
  BY GroupType
<1>2. packed \in Seq(SUBSET (0 .. 7)) /\ Len(packed) = size
  BY <1>1, FunctionIsSeq
<1>. QED
  BY <1>2 DEF IsVarint

(* The bytes that the packers put together by shifts are the groups. *)
LEMMA ShiftedGroup ==
  ASSUME NEW w \in SUBSET Nat, NEW k \in Nat \ {0}
  PROVE  /\ Low8(Shr(w, 7 * k - 7)) \ {7} = Group(w, k)
         /\ More(Shr(w, 7 * k - 7)) = Group(w, k) \union {7}
         /\ IsBelow(Shr(w, 7 * k - 7), 7) <=> \A b \in w : b < 7 * k
<1>. DEFINE d == 7 * k - 7
<1>1. d \in Nat /\ d + 7 = 7 * k
  OBVIOUS
<1>. HIDE DEF d
<1>2. \A b : b \in Shr(w, d) <=> b \in Nat /\ b + d \in w
  BY <1>1, ShrBit
<1>3. Group(w, k) = {b \in 0 .. 6 : b + d \in w}
  BY DEF Group, d
<1>4. ASSUME NEW b PROVE b \in Low8(Shr(w, d)) \ {7} <=> b \in Group(w, k)
  BY <1>2, <1>3 DEF Low8
<1>5. Low8(Shr(w, d)) \ {7} = Group(w, k)
  BY <1>4, SameSet
<1>6. More(Shr(w, d)) = Group(w, k) \union {7}
  BY <1>5 DEF More
<1>7. ASSUME IsBelow(Shr(w, d), 7), NEW b \in w PROVE b < 7 * k
  <2>1. CASE b < d
    BY <1>1, <2>1
  <2>2. CASE b >= d
    <3>1. b - d \in Nat /\ (b - d) + d = b
      BY <1>1, <2>2
    <3>2. b - d < 7
      BY <1>2, <1>7, <3>1 DEF IsBelow
    <3>. QED
      BY <1>1, <3>2
  <2>. QED
    BY <1>1, <2>1, <2>2
<1>8. ASSUME \A b \in w : b < 7 * k, NEW c \in Shr(w, d) PROVE c < 7
  BY <1>1, <1>2, <1>8
<1>9. IsBelow(Shr(w, d), 7) <=> \A b \in w : b < 7 * k
  BY <1>7, <1>8 DEF IsBelow
<1>. QED
  BY <1>5, <1>6, <1>9 DEF d

(* How many groups a word has, of `most' at most. *)
Sizes(w, most) == {k \in 1 .. most : k = most \/ \A b \in w : b < 7 * k}

LEMMA SizeFacts ==
  ASSUME NEW w, NEW most \in Nat \ {0}
  PROVE  /\ Min(Sizes(w, most)) \in Sizes(w, most)
         /\ \A k \in Sizes(w, most) : Min(Sizes(w, most)) <= k
<1>1. most \in Sizes(w, most) /\ Sizes(w, most) \subseteq Nat
  BY DEF Sizes
<1>. QED
  BY <1>1, LeastNumber

LEMMA GroupsPack ==
  ASSUME NEW most \in Nat \ {0}, NEW w \in SUBSET (0 .. 7 * most - 1)
  PROVE  IsVarint(Groups(w, most), w, Min(Sizes(w, most)))
<1>. DEFINE size == Min(Sizes(w, most))
<1>1. w \in SUBSET Nat
  OBVIOUS
<1>2. ASSUME NEW k \in 1 .. most
      PROVE  IsBelow(Shr(w, 7 * k - 7), 7) <=> \A b \in w : b < 7 * k
  <2>1. k \in Nat \ {0}
    OBVIOUS
  <2>. QED
    BY <1>1, <2>1, ShiftedGroup
<1>3. {k \in 1 .. most : k = most \/ IsBelow(Shr(w, 7 * k - 7), 7)} = Sizes(w, most)
  BY <1>2 DEF Sizes
<1>4. Groups(w, most) =
        [k \in 1 .. size |->
           IF k < size THEN More(Shr(w, 7 * k - 7)) ELSE Low8(Shr(w, 7 * k - 7))]
  BY <1>3 DEF Groups
<1>5. size \in Sizes(w, most)
  BY SizeFacts
<1>. HIDE DEF size
<1>6. size \in Nat \ {0} /\ \A b \in w : b < 7 * size
  <2>1. size \in 1 .. most /\ (size = most \/ \A b \in w : b < 7 * size)
    BY <1>5 DEF Sizes
  <2>2. \A b \in w : b < 7 * most
    OBVIOUS
  <2>. QED
    BY <2>1, <2>2
<1>7. ASSUME NEW k \in 1 .. size
      PROVE  (IF k < size THEN More(Shr(w, 7 * k - 7)) ELSE Low8(Shr(w, 7 * k - 7)))
               = Group(w, k) \union (IF k < size THEN {7} ELSE {})
  <2>1. k \in Nat \ {0}
    BY <1>6
  <2>2. CASE k < size
    BY <1>1, <2>1, <2>2, ShiftedGroup
  <2>3. CASE k = size
    <3>1. 7 \notin Low8(Shr(w, 7 * k - 7))
      <4>1. 7 * k - 7 \in Nat /\ ~ (7 + (7 * k - 7) < 7 * k)
        BY <2>1
      <4>2. 7 + (7 * k - 7) \notin w
        BY <1>6, <2>3, <4>1
      <4>. QED
        BY <1>1, <4>1, <4>2, ShrBit DEF Low8
    <3>2. Low8(Shr(w, 7 * k - 7)) \ {7} = Group(w, k)
      BY <1>1, <2>1, ShiftedGroup
    <3>. QED
      BY <1>6, <2>3, <3>1, <3>2
  <2>. QED
    BY <1>6, <2>2, <2>3
<1>8. Groups(w, most) = [k \in 1 .. size |-> Group(w, k) \union (IF k < size THEN {7} ELSE {})]
  BY <1>4, <1>7
<1>9. IsVarint(Groups(w, most), w, size)
  BY <1>6, <1>8, GroupsAreVarint
<1>. QED
  BY <1>9 DEF size

LEMMA Pack32 ==
  ASSUME NEW v \in SUBSET (0 .. 31)
  PROVE  IsVarint(uint32_pack(v), v, uint32_size(v))
<1>1. v \in SUBSET (0 .. 7 * 5 - 1)
  OBVIOUS
<1>2. uint32_size(v) = Min(Sizes(v, 5))
  BY DEF uint32_size, Sizes, IsBelow
<1>3. IsVarint(Groups(v, 5), v, Min(Sizes(v, 5)))
  BY <1>1, GroupsPack
<1>. QED
  BY <1>2, <1>3 DEF uint32_pack

(* A 32 bit value below zero is packed as one of 64 bits. *)
LEMMA PackNegative ==
  ASSUME NEW v \in SUBSET (0 .. 31), IsNegative(v)
  PROVE  IsVarint(int32_pack(v), v \union 32 .. 63, 10)
<1>. DEFINE w == v \union 32 .. 63
<1>1. int32_pack(v) =
        [k \in 1 .. 10 |->
           IF k <= 5 THEN More(ShrSigned(v, 7 * k - 7))
           ELSE IF k <= 9 THEN 0 .. 7 ELSE {0}]
  BY DEF int32_pack
<1>2. ASSUME NEW k \in 1 .. 5
      PROVE  More(ShrSigned(v, 7 * k - 7)) = Group(w, k) \union {7}
  <2>. DEFINE d == 7 * k - 7
  <2>1. d \in 0 .. 28
    OBVIOUS
  <2>. HIDE DEF d
  <2>2. \A b : b \in Shr(v, d) <=> b \in Nat /\ b + d \in v
    BY <2>1, ShrBit
  <2>3. ASSUME NEW b \in 0 .. 6 PROVE b \in ShrSigned(v, d) <=> b + d \in w
    BY <2>1, <2>2 DEF ShrSigned
  <2>4. Group(w, k) = {b \in 0 .. 6 : b + d \in w}
    BY DEF Group, d
  <2>5. ASSUME NEW b PROVE b \in More(ShrSigned(v, d)) <=> b \in Group(w, k) \union {7}
    <3>1. CASE b \in 0 .. 6
      BY <2>3, <2>4, <3>1 DEF More, Low8
    <3>2. CASE b \notin 0 .. 6
      BY <2>4, <3>2 DEF More, Low8
    <3>. QED
      BY <3>1, <3>2
  <2>6. More(ShrSigned(v, d)) = Group(w, k) \union {7}
    BY <2>5, SameSet
  <2>. QED
    BY <2>6 DEF d
<1>3. ASSUME NEW k \in 6 .. 9 PROVE Group(w, k) \union {7} = 0 .. 7
  <2>1. \A b \in 0 .. 6 : b + (7 * k - 7) \in w
    OBVIOUS
  <2>. QED
    BY <2>1 DEF Group
<1>4. Group(w, 10) = {0}
  BY DEF Group
<1>5. \A b \in w : b < 7 * 10
  OBVIOUS
<1>. HIDE DEF w
<1>6. ASSUME NEW k \in 1 .. 10
      PROVE  (IF k <= 5 THEN More(ShrSigned(v, 7 * k - 7))
              ELSE IF k <= 9 THEN 0 .. 7 ELSE {0})
               = Group(w, k) \union (IF k < 10 THEN {7} ELSE {})
  <2>1. CASE k \in 1 .. 5
    BY <1>2, <2>1
  <2>2. CASE k \in 6 .. 9
    BY <1>3, <2>2
  <2>3. CASE k = 10
    BY <1>4, <2>3
  <2>. QED
    BY <2>1, <2>2, <2>3
<1>7. int32_pack(v) = [k \in 1 .. 10 |-> Group(w, k) \union (IF k < 10 THEN {7} ELSE {})]
  BY <1>1, <1>6
<1>8. 10 \in Nat \ {0}
  OBVIOUS
<1>9. IsVarint(int32_pack(v), w, 10)
  BY <1>5, <1>7, <1>8, GroupsAreVarint
<1>. QED
  BY <1>9 DEF w

(* Two sets of sizes, one five above the other. *)
LEMMA SizeOfUpper ==
  ASSUME NEW v \in SUBSET (0 .. 63), Shr(v, 32) # {}
  PROVE  uint64_size(v) = IF IsBelow(Shr(v, 32), 3) THEN 5
                          ELSE 5 + Min(Sizes(Shr(Shr(v, 32), 3), 5))
<1>. DEFINE hi == Shr(v, 32)
            top == Shr(hi, 3)
            sizes == {k \in 5 .. 10 : k = 10 \/ IsBelow(hi, 7 * k - 32)}
<1>1. uint64_size(v) = Min(sizes)
  BY DEF uint64_size
<1>2. hi \in SUBSET Nat
  BY ShrBit
<1>3. \A b : b \in top <=> b \in Nat /\ b + 3 \in hi
  BY <1>2, ShrBit
<1>4. 10 \in sizes /\ sizes \subseteq Nat
  OBVIOUS
<1>5. Min(sizes) \in sizes /\ \A k \in sizes : Min(sizes) <= k
  BY <1>4, LeastNumber
<1>6. ASSUME IsBelow(hi, 3) PROVE Min(sizes) = 5
  <2>1. 5 \in sizes
    BY <1>6
  <2>. QED
    BY <1>5, <2>1
<1>7. ASSUME ~ IsBelow(hi, 3) PROVE Min(sizes) = 5 + Min(Sizes(top, 5))
  <2>1. PICK h \in hi : ~ (h < 3)
    BY <1>7 DEF IsBelow
  <2>2. ASSUME NEW k \in 6 .. 10
        PROVE  IsBelow(hi, 7 * k - 32) <=> \A b \in top : b < 7 * (k - 5)
    <3>1. ASSUME IsBelow(hi, 7 * k - 32), NEW b \in top PROVE b < 7 * (k - 5)
      BY <1>3, <3>1 DEF IsBelow
    <3>2. ASSUME \A b \in top : b < 7 * (k - 5), NEW c \in hi PROVE c < 7 * k - 32
      <4>1. c \in Nat
        BY <1>2
      <4>2. CASE c < 3
        BY <4>1, <4>2
      <4>3. CASE c >= 3
        <5>1. c - 3 \in Nat /\ (c - 3) + 3 = c
          BY <4>1, <4>3
        <5>2. c - 3 < 7 * (k - 5)
          BY <1>3, <3>2, <5>1
        <5>. QED
          BY <4>1, <5>2
      <4>. QED
        BY <4>1, <4>2, <4>3
    <3>. QED
      BY <3>1, <3>2 DEF IsBelow
  <2>. HIDE DEF hi, top
  <2>3. 5 \notin sizes
    BY <1>2, <2>1 DEF IsBelow
  <2>4. \A k \in 6 .. 10 : k \in sizes <=> k - 5 \in Sizes(top, 5)
    BY <2>2 DEF Sizes
  <2>. HIDE DEF sizes
  <2>. DEFINE a == Min(sizes)
              c == Min(Sizes(top, 5))
  <2>5. c \in Sizes(top, 5) /\ \A k \in Sizes(top, 5) : c <= k
    BY SizeFacts
  <2>6. a \in 6 .. 10
    BY <1>5, <2>3 DEF sizes
  <2>7. c \in 1 .. 5
    BY <2>5 DEF Sizes
  <2>. HIDE DEF a, c
  <2>8. a - 5 \in Sizes(top, 5)
    BY <1>5, <2>4, <2>6 DEF a
  <2>9. c <= a - 5
    BY <2>5, <2>8
  <2>10. c + 5 \in 6 .. 10 /\ (c + 5) - 5 = c
    BY <2>7
  <2>11. c + 5 \in sizes
    BY <2>4, <2>5, <2>10
  <2>12. a <= c + 5
    BY <1>5, <2>11 DEF a
  <2>13. a = 5 + c
    BY <2>6, <2>7, <2>9, <2>12
  <2>. QED
    BY <2>13 DEF a, c
<1>. QED
  BY <1>1, <1>6, <1>7

(* The lower 28 bits of a 64 bit value are in four bytes. *)
LEMMA FirstFour ==
  ASSUME NEW v \in SUBSET (0 .. 63)
  PROVE  LET four == [k \in 1 .. 4 |-> More(Shr(v \intersect 0 .. 31, 7 * k - 7))]
         IN  /\ four \in Seq(SUBSET (0 .. 7)) /\ Len(four) = 4
             /\ \A k \in 1 .. 4 : four[k] = Group(v, k) \union {7}
<1>. DEFINE lo == v \intersect 0 .. 31
            four == [k \in 1 .. 4 |-> More(Shr(lo, 7 * k - 7))]
<1>1. ASSUME NEW k \in 1 .. 4 PROVE More(Shr(lo, 7 * k - 7)) = Group(v, k) \union {7}
  <2>1. lo \in SUBSET Nat /\ k \in Nat \ {0}
    OBVIOUS
  <2>2. More(Shr(lo, 7 * k - 7)) = Group(lo, k) \union {7}
    BY <2>1, ShiftedGroup
  <2>3. \A b \in 0 .. 6 : b + (7 * k - 7) \in 0 .. 31
    OBVIOUS
  <2>4. Group(lo, k) = Group(v, k)
    BY <2>3 DEF Group
  <2>. QED
    BY <2>2, <2>4
<1>2. four \in [1 .. 4 -> SUBSET (0 .. 7)]
  BY <1>1, GroupType
<1>3. \A k \in 1 .. 4 : four[k] = More(Shr(lo, 7 * k - 7))
  OBVIOUS
<1>. HIDE DEF four
<1>4. four \in Seq(SUBSET (0 .. 7)) /\ Len(four) = 4
  <2>1. PICK size \in Nat : size = 4
    OBVIOUS
  <2>2. four \in [1 .. size -> SUBSET (0 .. 7)]
    BY <1>2, <2>1
  <2>3. four \in Seq(SUBSET (0 .. 7)) /\ Len(four) = size
    BY <2>2, FunctionIsSeq
  <2>. QED
    BY <2>1, <2>3
<1>. QED
  BY <1>1, <1>3, <1>4 DEF four

(* The fifth byte has the upper bits of the lower half and the lower of the  *)
(* upper.                                                                    *)
LEMMA FifthByte ==
  ASSUME NEW v \in SUBSET (0 .. 63)
  PROVE  Shl(Shr(v, 32) \intersect 0 .. 2, 4, 8) \union Shr(v \intersect 0 .. 31, 28)
           = Group(v, 5)
<1>. DEFINE low == Shr(v, 32) \intersect 0 .. 2
            lo == v \intersect 0 .. 31
<1>1. \A b : b \in low <=> b \in 0 .. 2 /\ b + 32 \in v
  BY ShrBit
<1>2. low \in SUBSET Nat
  BY <1>1
<1>. HIDE DEF low
<1>3. \A b : b \in Shl(low, 4, 8) <=> b \in 0 .. 7 /\ b - 4 \in low
  BY <1>2, ShlBit
<1>4. \A b : b \in Shr(lo, 28) <=> b \in Nat /\ b + 28 \in lo
  BY ShrBit
<1>5. ASSUME NEW b PROVE b \in Shl(low, 4, 8) <=> b \in 4 .. 6 /\ b + 28 \in v
  <2>1. CASE b \in 4 .. 6
    <3>1. b - 4 \in 0 .. 2 /\ (b - 4) + 32 = b + 28
      BY <2>1
    <3>. QED
      BY <1>1, <1>3, <2>1, <3>1
  <2>2. CASE b \notin 4 .. 6
    BY <1>1, <1>3, <2>2
  <2>. QED
    BY <2>1, <2>2
<1>6. ASSUME NEW b PROVE b \in Shr(lo, 28) <=> b \in 0 .. 3 /\ b + 28 \in v
  BY <1>4
<1>7. Group(v, 5) = {b \in 0 .. 6 : b + 28 \in v}
  BY DEF Group
<1>8. Shl(low, 4, 8) \union Shr(lo, 28) = Group(v, 5)
  BY <1>5, <1>6, <1>7
<1>. QED
  BY <1>8 DEF low

LEMMA Pack64 ==
  ASSUME NEW v \in SUBSET (0 .. 63)
  PROVE  IsVarint(uint64_pack(v), v, uint64_size(v))
<1>. DEFINE hi == Shr(v, 32)
            lo == v \intersect 0 .. 31
            four == [k \in 1 .. 4 |-> More(Shr(lo, 7 * k - 7))]
            fifth(h) == Shl(h, 4, 8) \union Shr(lo, 28)
            top == Shr(hi, 3)
            size == uint64_size(v)
            packed == uint64_pack(v)
<1>1. hi \in SUBSET Nat /\ \A b : b \in hi <=> b \in Nat /\ b + 32 \in v
  BY ShrBit
<1>2. \A b \in v : b \in lo \/ b - 32 \in hi
  BY <1>1
<1>3. CASE hi = {}
  <2>1. v = lo
    BY <1>2, <1>3
  <2>2. packed = uint32_pack(v) /\ size = uint32_size(v)
    BY <1>3, <2>1 DEF uint64_pack, uint64_size
  <2>3. v \in SUBSET (0 .. 31)
    BY <2>1
  <2>. QED
    BY <2>2, <2>3, Pack32
<1>4. four \in Seq(SUBSET (0 .. 7)) /\ Len(four) = 4
      /\ \A k \in 1 .. 4 : four[k] = Group(v, k) \union {7}
  BY FirstFour
<1>5. fifth(hi \intersect 0 .. 2) = Group(v, 5)
  BY FifthByte
<1>6. CASE hi # {} /\ IsBelow(hi, 3)
  <2>1. hi \intersect 0 .. 2 = hi
    BY <1>1, <1>6 DEF IsBelow
  <2>2. packed = four \o <<Group(v, 5)>>
    BY <1>5, <1>6, <2>1 DEF uint64_pack
  <2>3. size = 5
    BY <1>6, SizeOfUpper
  <2>4. ASSUME NEW b \in v PROVE b < 7 * 5
    BY <1>2, <1>6 DEF IsBelow
  <2>. HIDE DEF four, size, packed
  <2>5. Group(v, 5) \in SUBSET (0 .. 7)
    BY GroupType
  <2>6. /\ <<Group(v, 5)>> \in Seq(SUBSET (0 .. 7)) /\ Len(<<Group(v, 5)>>) = 1
        /\ <<Group(v, 5)>>[1] = Group(v, 5)
    BY <2>5
  <2>7. /\ packed \in Seq(SUBSET (0 .. 7)) /\ Len(packed) = 5
        /\ \A k \in 1 .. 4 : packed[k] = four[k]
        /\ packed[5] = Group(v, 5)
    <3>. DEFINE last == <<Group(v, 5)>>
    <3>1. /\ last \in Seq(SUBSET (0 .. 7)) /\ four \in Seq(SUBSET (0 .. 7))
          /\ packed = four \o last
      BY <1>4, <2>2, <2>6
    <3>2. Len(last) = 1 /\ last[1] = Group(v, 5) /\ Len(four) = 4
      BY <1>4, <2>6
    <3>. HIDE DEF last
    <3>3. /\ packed \in Seq(SUBSET (0 .. 7)) /\ Len(packed) = Len(four) + Len(last)
          /\ \A k \in 1 .. Len(four) : packed[k] = four[k]
          /\ \A k \in 1 .. Len(last) : packed[k + Len(four)] = last[k]
      BY <3>1, Joined
    <3>. QED
      BY <3>2, <3>3
  <2>8. ASSUME NEW k \in 1 .. 5
        PROVE  packed[k] = Group(v, k) \union (IF k < 5 THEN {7} ELSE {})
    <3>1. k \in 1 .. 4 \/ k = 5
      OBVIOUS
    <3>. QED
      BY <1>4, <2>7, <3>1
  <2>9. IsVarint(packed, v, 5)
    BY <2>4, <2>7, <2>8 DEF IsVarint
  <2>. QED
    BY <2>3, <2>9 DEF size, packed
<1>7. CASE hi # {} /\ ~ IsBelow(hi, 3)
  <2>. DEFINE rest == Groups(top, 5)
              more == Min(Sizes(top, 5))
              byte == Group(v, 5) \union {7}
  <2>1. \A b : b \in top <=> b \in Nat /\ b + 3 \in hi
    BY <1>1, ShrBit
  <2>2. \A b : b \in top <=> b \in Nat /\ b + 35 \in v
    <3>1. \A b \in Nat : (b + 3) + 32 = b + 35
      OBVIOUS
    <3>. QED
      BY <1>1, <2>1, <3>1
  <2>3. top \in SUBSET (0 .. 7 * 5 - 1)
    BY <2>2
  <2>4. packed = four \o (<<byte>> \o rest)
    BY <1>5, <1>7 DEF uint64_pack
  <2>5. size = 5 + more
    BY <1>7, SizeOfUpper
  <2>6. IsVarint(rest, top, more)
    <3>1. 5 \in Nat \ {0}
      OBVIOUS
    <3>. HIDE DEF top
    <3>. QED
      BY <2>3, <3>1, GroupsPack
  <2>. HIDE DEF hi, four, top, rest, more, size, packed
  <2>7. /\ more \in Nat \ {0}
        /\ rest \in Seq(SUBSET (0 .. 7)) /\ Len(rest) = more
        /\ \A k \in 1 .. more : rest[k] = Group(top, k) \union (IF k < more THEN {7} ELSE {})
        /\ \A b \in top : b < 7 * more
    BY <2>6 DEF IsVarint
  <2>8. byte \in SUBSET (0 .. 7)
    BY GroupType
  <2>. HIDE DEF byte
  <2>9. /\ <<byte>> \in Seq(SUBSET (0 .. 7)) /\ Len(<<byte>>) = 1 /\ <<byte>>[1] = byte
    BY <2>8
  <2>10. /\ <<byte>> \o rest \in Seq(SUBSET (0 .. 7)) /\ Len(<<byte>> \o rest) = 1 + more
         /\ (<<byte>> \o rest)[1] = byte
         /\ \A k \in 1 .. more : (<<byte>> \o rest)[k + 1] = rest[k]
    <3>. DEFINE tail == <<byte>> \o rest
    <3>. DEFINE one == <<byte>>
    <3>1. /\ one \in Seq(SUBSET (0 .. 7)) /\ rest \in Seq(SUBSET (0 .. 7))
          /\ tail = one \o rest
      BY <2>7, <2>9
    <3>2. Len(one) = 1 /\ one[1] = byte /\ Len(rest) = more
      BY <2>7, <2>9
    <3>. HIDE DEF tail, one
    <3>3. /\ tail \in Seq(SUBSET (0 .. 7)) /\ Len(tail) = Len(one) + Len(rest)
          /\ \A k \in 1 .. Len(one) : tail[k] = one[k]
          /\ \A k \in 1 .. Len(rest) : tail[k + Len(one)] = rest[k]
      BY <3>1, Joined
    <3>4. tail[1] = byte
      BY <3>2, <3>3
    <3>5. Len(tail) = 1 + more /\ \A k \in 1 .. more : tail[k + 1] = rest[k]
      BY <3>2, <3>3
    <3>. QED
      BY <3>3, <3>4, <3>5 DEF tail
  <2>11. /\ packed \in Seq(SUBSET (0 .. 7)) /\ Len(packed) = 5 + more
         /\ \A k \in 1 .. 4 : packed[k] = four[k]
         /\ packed[5] = byte
         /\ \A k \in 1 .. more : packed[k + 5] = rest[k]
    <3>. DEFINE tail == <<byte>> \o rest
    <3>. HIDE DEF tail
    <3>1. /\ tail \in Seq(SUBSET (0 .. 7)) /\ Len(tail) = 1 + more
          /\ tail[1] = byte /\ \A k \in 1 .. more : tail[k + 1] = rest[k]
      BY <2>10 DEF tail
    <3>2. /\ four \in Seq(SUBSET (0 .. 7)) /\ tail \in Seq(SUBSET (0 .. 7))
          /\ packed = four \o tail
      BY <1>4, <2>4, <3>1 DEF tail
    <3>3. /\ packed \in Seq(SUBSET (0 .. 7)) /\ Len(packed) = Len(four) + Len(tail)
          /\ \A k \in 1 .. Len(four) : packed[k] = four[k]
          /\ \A k \in 1 .. Len(tail) : packed[k + Len(four)] = tail[k]
      BY <3>2, Joined
    <3>4. Len(four) = 4
      BY <1>4
    <3>5. /\ packed \in Seq(SUBSET (0 .. 7)) /\ Len(packed) = 4 + (1 + more)
          /\ \A k \in 1 .. 4 : packed[k] = four[k]
          /\ \A k \in 1 .. 1 + more : packed[k + 4] = tail[k]
      BY <3>1, <3>3, <3>4
    <3>6. /\ \A k \in 1 .. more : k + 1 \in 1 .. 1 + more /\ (k + 1) + 4 = k + 5
          /\ 1 \in 1 .. 1 + more /\ 1 + 4 = 5 /\ 4 + (1 + more) = 5 + more
      BY <2>7
    <3>7. packed[5] = byte
      BY <3>1, <3>5, <3>6
    <3>8. ASSUME NEW k \in 1 .. more PROVE packed[k + 5] = rest[k]
      BY <3>1, <3>5, <3>6
    <3>. QED
      BY <3>5, <3>6, <3>7, <3>8
  <2>12. ASSUME NEW k \in 1 .. more PROVE Group(top, k) = Group(v, k + 5)
    <3>1. \A b \in 0 .. 6 : /\ b + (7 * k - 7) \in Nat
                            /\ (b + (7 * k - 7)) + 35 = b + (7 * (k + 5) - 7)
      BY <2>7
    <3>. QED
      BY <2>2, <3>1 DEF Group
  <2>13. ASSUME NEW k \in 1 .. 5 + more
         PROVE  packed[k] = Group(v, k) \union (IF k < 5 + more THEN {7} ELSE {})
    <3>1. CASE k \in 1 .. 4
      BY <1>4, <2>7, <2>11, <3>1
    <3>2. CASE k = 5
      BY <2>7, <2>11, <3>2 DEF byte
    <3>3. CASE k > 5
      <4>1. k - 5 \in 1 .. more /\ (k - 5) + 5 = k /\ (k - 5 < more <=> k < 5 + more)
        BY <2>7, <3>3
      <4>2. packed[k] = rest[k - 5]
        BY <2>11, <4>1
      <4>3. rest[k - 5] = Group(top, k - 5) \union (IF k - 5 < more THEN {7} ELSE {})
        BY <2>7, <4>1
      <4>4. Group(top, k - 5) = Group(v, k)
        BY <2>12, <4>1
      <4>. QED
        BY <4>1, <4>2, <4>3, <4>4
    <3>4. k \in 1 .. 4 \/ k = 5 \/ k > 5
      BY <2>7
    <3>. QED
      BY <3>1, <3>2, <3>3, <3>4
  <2>14. ASSUME NEW b \in v PROVE b < 7 * (5 + more)
    <3>1. b < 35 \/ (b - 35 \in Nat /\ (b - 35) + 35 = b)
      OBVIOUS
    <3>2. ASSUME b - 35 \in Nat, (b - 35) + 35 = b PROVE b - 35 < 7 * more
      BY <2>2, <2>7, <3>2
    <3>3. b \in Nat
      OBVIOUS
    <3>. QED
      BY <2>7, <3>1, <3>2, <3>3
  <2>15. 5 + more \in Nat \ {0}
    BY <2>7
  <2>16. IsVarint(packed, v, 5 + more)
    BY <2>11, <2>13, <2>14, <2>15 DEF IsVarint
  <2>. QED
    BY <2>5, <2>16 DEF size, packed
<1>. QED
  BY <1>3, <1>6, <1>7
-----------------------------------------------------------------------------
(* The word that stands for a value on the wire. *)
WordOf(t, v) ==
  CASE t \in {"sint32", "sint64"} -> zigzag(v, Width(t))
    [] t = "int32" /\ IsNegative(v) -> v \union 32 .. 63
    [] t \in Types \ {"sint32", "sint64"} /\ ~ (t = "int32" /\ IsNegative(v)) -> v

LEMMA PackBoolean ==
  ASSUME NEW v \in {{}, {0}}
  PROVE  IsVarint(boolean_pack(v), v, 1)
<1>1. Group(v, 1) = v
  BY DEF Group
<1>2. boolean_pack(v) = <<Group(v, 1)>>
  BY <1>1 DEF boolean_pack
<1>3. boolean_pack(v) \in Seq(SUBSET (0 .. 7)) /\ Len(boolean_pack(v)) = 1
      /\ boolean_pack(v)[1] = Group(v, 1)
  BY <1>2, GroupType
<1>4. \A b \in v : b < 7 * 1
  OBVIOUS
<1>5. \A k \in 1 .. 1 : k = 1
  OBVIOUS
<1>. QED
  BY <1>3, <1>4, <1>5 DEF IsVarint

(* Every varint that is packed is the groups of a word, which is the value   *)
(* that is assigned in the end.                                              *)
LEMMA PackIsVarint ==
  ASSUME NEW t \in Types \ Fixed, NEW v \in Values(t)
  PROVE  /\ IsVarint(PackOf(t, v), WordOf(t, v), SizeOf(t, v))
         /\ WordOf(t, v) \in SUBSET (0 .. Width(t) - 1)
         /\ ValueOf(t, WordOf(t, v)) = v
<1>1. /\ t \in {"uint32", "int32", "sint32"} => v \in SUBSET (0 .. 31)
      /\ t \in {"uint64", "sint64"} => v \in SUBSET (0 .. 63)
      /\ t = "bool" => v \in {{}, {0}}
  BY Words32Assumption, Words64Assumption DEF Values
<1>2. CASE t = "uint32"
  <2>1. WordOf(t, v) = v /\ Width(t) = 32 /\ ValueOf(t, v) = v
    BY <1>2 DEF WordOf, Types, Width, ValueOf
  <2>2. PackOf(t, v) = uint32_pack(v) /\ SizeOf(t, v) = uint32_size(v)
    BY <1>2 DEF PackOf, SizeOf
  <2>. QED
    BY <1>1, <1>2, <2>1, <2>2, Pack32
<1>3. CASE t = "int32"
  <2>1. Width(t) = 64
    BY <1>3 DEF Width
  <2>2. CASE IsNegative(v)
    <3>1. PackOf(t, v) = int32_pack(v) /\ SizeOf(t, v) = 10
      BY <1>3, <2>2 DEF PackOf, SizeOf, int32_size
    <3>2. WordOf(t, v) = v \union 32 .. 63
      BY <1>3, <2>2 DEF WordOf, Types
    <3>3. ValueOf(t, v \union 32 .. 63) = (v \union 32 .. 63) \intersect 0 .. 31
      BY <1>3 DEF ValueOf, Types
    <3>4. (v \union 32 .. 63) \intersect 0 .. 31 = v
      BY <1>1, <1>3
    <3>5. v \union 32 .. 63 \in SUBSET (0 .. 63)
      BY <1>1, <1>3
    <3>. QED
      BY <1>1, <1>3, <2>1, <2>2, <3>1, <3>2, <3>3, <3>4, <3>5, PackNegative
  <2>3. CASE ~ IsNegative(v)
    <3>1. PackOf(t, v) = uint32_pack(v) /\ SizeOf(t, v) = uint32_size(v)
      BY <1>3, <2>3 DEF PackOf, SizeOf, int32_size, int32_pack
    <3>2. WordOf(t, v) = v
      BY <1>3, <2>3 DEF WordOf, Types
    <3>3. ValueOf(t, v) = v \intersect 0 .. 31
      BY <1>3 DEF ValueOf, Types
    <3>4. v \intersect 0 .. 31 = v /\ v \in SUBSET (0 .. 63)
      BY <1>1, <1>3
    <3>. QED
      BY <1>1, <1>3, <2>1, <3>1, <3>2, <3>3, <3>4, Pack32
  <2>. QED
    BY <2>2, <2>3
<1>4. CASE t = "sint32"
  <2>1. WordOf(t, v) = zigzag(v, 32) /\ Width(t) = 32
    BY <1>4 DEF WordOf, Types, Width
  <2>2. \A w : ValueOf(t, w) = UnZigzag(w, 32)
    BY <1>4 DEF ValueOf, Types, Width
  <2>3. PackOf(t, v) = uint32_pack(zigzag(v, 32)) /\ SizeOf(t, v) = uint32_size(zigzag(v, 32))
    BY <1>4 DEF PackOf, SizeOf
  <2>4. PICK width \in Nat \ {0} : width = 32
    OBVIOUS
  <2>5. v \in SUBSET (0 .. width - 1)
    BY <1>1, <1>4, <2>4
  <2>6. zigzag(v, width) \in SUBSET (0 .. width - 1) /\ UnZigzag(zigzag(v, width), width) = v
    BY <2>5, ZigzagBack
  <2>7. zigzag(v, 32) \in SUBSET (0 .. 31)
    BY <2>4, <2>6
  <2>8. IsVarint(uint32_pack(zigzag(v, 32)), zigzag(v, 32), uint32_size(zigzag(v, 32)))
    BY <2>7, Pack32
  <2>. QED
    BY <2>1, <2>2, <2>3, <2>4, <2>6, <2>8
<1>5. CASE t = "uint64"
  <2>1. WordOf(t, v) = v /\ Width(t) = 64 /\ ValueOf(t, v) = v
    BY <1>5 DEF WordOf, Types, Width, ValueOf
  <2>2. PackOf(t, v) = uint64_pack(v) /\ SizeOf(t, v) = uint64_size(v)
    BY <1>5 DEF PackOf, SizeOf
  <2>. QED
    BY <1>1, <1>5, <2>1, <2>2, Pack64
<1>6. CASE t = "sint64"
  <2>1. WordOf(t, v) = zigzag(v, 64) /\ Width(t) = 64
    BY <1>6 DEF WordOf, Types, Width
  <2>2. \A w : ValueOf(t, w) = UnZigzag(w, 64)
    BY <1>6 DEF ValueOf, Types, Width
  <2>3. PackOf(t, v) = uint64_pack(zigzag(v, 64)) /\ SizeOf(t, v) = uint64_size(zigzag(v, 64))
    BY <1>6 DEF PackOf, SizeOf
  <2>4. PICK width \in Nat \ {0} : width = 64
    OBVIOUS
  <2>5. v \in SUBSET (0 .. width - 1)
    BY <1>1, <1>6, <2>4
  <2>6. zigzag(v, width) \in SUBSET (0 .. width - 1) /\ UnZigzag(zigzag(v, width), width) = v
    BY <2>5, ZigzagBack
  <2>7. zigzag(v, 64) \in SUBSET (0 .. 63)
    BY <2>4, <2>6
  <2>8. IsVarint(uint64_pack(zigzag(v, 64)), zigzag(v, 64), uint64_size(zigzag(v, 64)))
    BY <2>7, Pack64
  <2>. QED
    BY <2>1, <2>2, <2>3, <2>4, <2>6, <2>8
<1>7. CASE t = "bool"
  <2>1. WordOf(t, v) = v /\ Width(t) = 64 /\ ValueOf(t, v) = v
    BY <1>7 DEF WordOf, Types, Width, ValueOf
  <2>2. PackOf(t, v) = boolean_pack(v) /\ SizeOf(t, v) = 1
    BY <1>7 DEF PackOf, SizeOf
  <2>3. v \in {{}, {0}}
    BY <1>1, <1>7
  <2>4. v \in SUBSET (0 .. 63)
    BY <2>3
  <2>5. IsVarint(boolean_pack(v), v, 1)
    BY <2>3, PackBoolean
  <2>. QED
    BY <2>1, <2>2, <2>4, <2>5
<1>. QED
  BY <1>2, <1>3, <1>4, <1>5, <1>6, <1>7 DEF Types, Fixed

(* The bytes of a fixed value, put together again. *)
LEMMA FixedPack ==
  ASSUME NEW size \in {4, 8}, NEW v \in SUBSET (0 .. 8 * size - 1)
  PROVE  /\ fixed_pack(v, size) \in Seq(SUBSET (0 .. 7)) /\ Len(fixed_pack(v, size)) = size
         /\ UNION {Shl(fixed_pack(v, size)[k], 8 * k - 8, 64) : k \in 1 .. size} = v
<1>. DEFINE packed == fixed_pack(v, size)
<1>1. packed = [k \in 1 .. size |-> Low8(Shr(v, 8 * k - 8))]
  BY DEF fixed_pack
<1>2. packed \in [1 .. size -> SUBSET (0 .. 7)] /\ size \in Nat
  BY <1>1 DEF Low8
<1>3. packed \in Seq(SUBSET (0 .. 7)) /\ Len(packed) = size
  BY <1>2, FunctionIsSeq
<1>4. ASSUME NEW k \in 1 .. size, NEW b
      PROVE  b \in Shl(packed[k], 8 * k - 8, 64) <=> b \in v /\ 8 * k - 8 <= b /\ b < 8 * k
  <2>. DEFINE d == 8 * k - 8
  <2>1. d \in Nat /\ d + 8 = 8 * k /\ d + 8 <= 64
    BY <1>2
  <2>2. v \in SUBSET Nat
    OBVIOUS
  <2>. HIDE DEF d, packed
  <2>3. packed[k] = Shr(v, d) \intersect 0 .. 7
    BY <1>1 DEF Low8, d
  <2>4. packed[k] \in SUBSET Nat /\ \A c : c \in packed[k] <=> c \in 0 .. 7 /\ c + d \in v
    BY <2>1, <2>2, <2>3, ShrBit
  <2>5. b \in Shl(packed[k], d, 64) <=> b \in 0 .. 63 /\ b - d \in packed[k]
    <3>1. PICK width \in Nat : width = 64
      OBVIOUS
    <3>2. b \in Shl(packed[k], d, width) <=> b \in 0 .. width - 1 /\ b - d \in packed[k]
      BY <2>1, <2>4, ShlBit
    <3>. QED
      BY <3>1, <3>2
  <2>6. CASE b \in 0 .. 63
    <3>1. (b - d) + d = b /\ (b - d \in 0 .. 7 <=> d <= b /\ b < d + 8)
      BY <2>1, <2>6
    <3>. QED
      BY <2>4, <2>5, <2>6, <3>1, <2>1 DEF d
  <2>7. CASE b \notin 0 .. 63
    <3>1. b \in v => b \in Nat
      BY <2>2
    <3>2. b \in Nat => ~ (b < 8 * k)
      BY <2>1, <2>7
    <3>. QED
      BY <2>5, <2>7, <3>1, <3>2 DEF d
  <2>. QED
    BY <2>6, <2>7
<1>. HIDE DEF packed
<1>5. ASSUME NEW b \in v PROVE \E k \in 1 .. size : 8 * k - 8 <= b /\ b < 8 * k
  <2>1. CASE size = 4
    <3>1. b \in 0 .. 31
      BY <2>1
    <3>2. 1 \in 1 .. size /\ 2 \in 1 .. size /\ 3 \in 1 .. size /\ 4 \in 1 .. size
      BY <2>1
    <3>. QED
      BY <3>1, <3>2
  <2>2. CASE size = 8
    <3>1. b \in 0 .. 63
      BY <2>2
    <3>2. /\ 1 \in 1 .. size /\ 2 \in 1 .. size /\ 3 \in 1 .. size /\ 4 \in 1 .. size
          /\ 5 \in 1 .. size /\ 6 \in 1 .. size /\ 7 \in 1 .. size /\ 8 \in 1 .. size
      BY <2>2
    <3>. QED
      BY <3>1, <3>2
  <2>. QED
    BY <2>1, <2>2
<1>6. UNION {Shl(packed[k], 8 * k - 8, 64) : k \in 1 .. size} = v
  BY <1>4, <1>5
<1>. QED
  BY <1>3, <1>6 DEF packed
-----------------------------------------------------------------------------
(* The bytes that arrived are the first of those that were packed. *)
HasArrived(packed, some) ==
  /\ some \in Seq(SUBSET (0 .. 7))
  /\ Len(some) \in Nat /\ Len(some) <= Len(packed)
  /\ \A k \in 1 .. Len(some) : some[k] = packed[k]

Sent ==
  phase # "idle" =>
    /\ type \in Types
    /\ value \in Values(type)
    /\ HasArrived(PackOf(type, value), bytes)

(* The lower bits of the word were read, as many as i bytes have. *)
Reading ==
  phase = "read" /\ type \notin Fixed =>
    /\ i \in Nat /\ i <= Len(bytes) /\ i < SizeOf(type, value)
    /\ tmp = {b \in WordOf(type, value) : b < 7 * i}

WireInv ==
  /\ phase \in {"idle", "read", "done", "null"}
  /\ phase = "idle" => i = 0 /\ tmp = {}
  /\ Sent
  /\ Reading
  /\ ReadsBack

(* What both kinds of packed values have in common. *)
LEMMA PackedTyping ==
  ASSUME NEW t \in Types, NEW v \in Values(t)
  PROVE  /\ PackOf(t, v) \in Seq(SUBSET (0 .. 7))
         /\ SizeOf(t, v) \in Nat \ {0} /\ Len(PackOf(t, v)) = SizeOf(t, v)
<1>1. CASE t \in Types \ Fixed
  BY <1>1, PackIsVarint DEF IsVarint
<1>2. CASE t = "fixed32"
  <2>0. Values(t) = Words32 /\ 8 * 4 - 1 = 31
    BY <1>2 DEF Values
  <2>1. v \in SUBSET (0 .. 8 * 4 - 1)
    BY <2>0, Words32Assumption
  <2>2. PackOf(t, v) = fixed_pack(v, 4) /\ SizeOf(t, v) = 4
    BY <1>2 DEF PackOf, SizeOf
  <2>. QED
    BY <2>1, <2>2, FixedPack
<1>3. CASE t = "fixed64"
  <2>0. v \in SUBSET (0 .. 63) /\ 8 * 8 - 1 = 63
    BY <1>3, Words64Assumption DEF Values
  <2>1. v \in SUBSET (0 .. 8 * 8 - 1)
    BY <2>0
  <2>2. PackOf(t, v) = fixed_pack(v, 8) /\ SizeOf(t, v) = 8
    BY <1>3 DEF PackOf, SizeOf
  <2>. QED
    BY <2>1, <2>2, FixedPack
<1>. QED
  BY <1>1, <1>2, <1>3 DEF Fixed

LEMMA WireInit == Init => WireInv
BY DEF Init, WireInv, Sent, Reading, ReadsBack

LEMMA SendKeeps ==
  ASSUME WireInv, NEW t \in Types, NEW v \in Values(t), Send(t, v)
  PROVE  WireInv'
<1>. DEFINE packed == PackOf(t, v)
<1>1. packed \in Seq(SUBSET (0 .. 7)) /\ SizeOf(t, v) \in Nat \ {0} /\ Len(packed) = SizeOf(t, v)
  BY PackedTyping
<1>2. PICK most \in 0 .. Len(packed) : bytes' = SubSeq(packed, 1, most)
  BY DEF Send
<1>3. /\ phase' = "read" /\ type' = t /\ value' = v
      /\ i' = 0 /\ tmp' = {}
  BY DEF Send, WireInv
<1>. HIDE DEF packed
<1>4. HasArrived(packed, bytes')
  <2>1. PICK first \in Nat \ {0} : first = 1
    OBVIOUS
  <2>2. /\ most \in Nat /\ first <= most + 1 /\ most <= Len(packed)
        /\ bytes' = SubSeq(packed, first, most)
    BY <1>1, <1>2, <2>1
  <2>3. /\ bytes' \in Seq(SUBSET (0 .. 7)) /\ Len(bytes') = most - first + 1
        /\ \A k \in 1 .. Len(bytes') : bytes'[k] = packed[k + (first - 1)]
    BY <1>1, <2>2, PartOf
  <2>4. Len(bytes') = most /\ \A k \in 1 .. most : k + (first - 1) = k
    BY <2>1, <2>2, <2>3
  <2>. QED
    BY <2>2, <2>3, <2>4 DEF HasArrived
<1>5. Sent'
  BY <1>3, <1>4 DEF Sent, packed
<1>6. Reading'
  <2>1. WordOf(t, v) \in SUBSET Nat \/ t \in Fixed
    BY PackIsVarint DEF Width
  <2>2. t \notin Fixed => {b \in WordOf(t, v) : b < 7 * 0} = {}
    BY <2>1
  <2>3. Len(bytes') \in Nat
    BY <1>4 DEF HasArrived
  <2>. QED
    BY <1>1, <1>3, <2>2, <2>3 DEF Reading
<1>. QED
  BY <1>3, <1>5, <1>6 DEF WireInv, ReadsBack

(* A byte has the next seven bits of the word. *)
LEMMA NextBits ==
  ASSUME NEW w \in SUBSET Nat, NEW j \in Nat, NEW width \in Nat, w \in SUBSET (0 .. width - 1),
         NEW byte, byte \intersect 0 .. 6 = Group(w, j + 1)
  PROVE  {b \in w : b < 7 * j} \union Shl(byte \intersect 0 .. 6, 7 * j, width)
           = {b \in w : b < 7 * (j + 1)}
<1>. DEFINE bits == byte \intersect 0 .. 6
<1>1. bits = {b \in 0 .. 6 : b + 7 * j \in w}
  <2>1. \A b \in 0 .. 6 : b + (7 * (j + 1) - 7) = b + 7 * j
    OBVIOUS
  <2>. QED
    BY <2>1 DEF Group
<1>2. bits \in SUBSET Nat /\ 7 * j \in Nat
  OBVIOUS
<1>. HIDE DEF bits
<1>3. \A b : b \in Shl(bits, 7 * j, width) <=> b \in 0 .. width - 1 /\ b - 7 * j \in bits
  BY <1>2, ShlBit
<1>4. ASSUME NEW b
      PROVE  b \in Shl(bits, 7 * j, width) <=> b \in w /\ 7 * j <= b /\ b < 7 * (j + 1)
  <2>1. CASE b \in 0 .. width - 1
    <3>1. (b - 7 * j) + 7 * j = b /\ (b - 7 * j \in 0 .. 6 <=> 7 * j <= b /\ b < 7 * (j + 1))
      BY <2>1
    <3>. QED
      BY <1>1, <1>3, <2>1, <3>1
  <2>2. CASE b \notin 0 .. width - 1
    BY <1>3, <2>2
  <2>. QED
    BY <2>1, <2>2
<1>5. \A b \in w : b \in Nat /\ (b < 7 * (j + 1) <=> b < 7 * j \/ (7 * j <= b /\ b < 7 * (j + 1)))
  OBVIOUS
<1>6. {b \in w : b < 7 * j} \union Shl(bits, 7 * j, width) = {b \in w : b < 7 * (j + 1)}
  BY <1>4, <1>5
<1>. QED
  BY <1>6 DEF bits

LEMMA ReadByteKeeps ==
  ASSUME WireInv, ReadByte
  PROVE  WireInv'
<1>. DEFINE w == WordOf(type, value)
            size == SizeOf(type, value)
            byte == bytes[i + 1]
<1>1. /\ phase = "read" /\ type \in Types \ Fixed /\ value \in Values(type)
      /\ i \in Nat /\ i < Len(bytes) /\ i < size
      /\ tmp = {b \in w : b < 7 * i}
  BY DEF WireInv, Sent, Reading, ReadByte
<1>2. /\ IsVarint(PackOf(type, value), w, size)
      /\ w \in SUBSET (0 .. Width(type) - 1)
      /\ ValueOf(type, w) = value
  BY <1>1, PackIsVarint
<1>3. HasArrived(PackOf(type, value), bytes)
  BY <1>1 DEF WireInv, Sent
<1>4. /\ tmp' = tmp \union Shl(byte \intersect 0 .. 6, 7 * i, Width(type))
      /\ i' = i + 1
      /\ phase' = IF 7 \in byte THEN "read" ELSE "done"
      /\ type' = type /\ value' = value /\ bytes' = bytes
  BY DEF ReadByte
<1>5. Len(bytes) \in Nat /\ size \in Nat /\ Width(type) \in Nat /\ Len(bytes) <= size
  BY <1>2, <1>3 DEF HasArrived, IsVarint, Width
<1>6. i + 1 \in 1 .. Len(bytes) /\ i + 1 \in 1 .. size
  BY <1>1, <1>5
<1>7. byte = Group(w, i + 1) \union (IF i + 1 < size THEN {7} ELSE {})
  BY <1>2, <1>3, <1>6 DEF HasArrived, IsVarint
<1>8. byte \intersect 0 .. 6 = Group(w, i + 1) /\ (7 \in byte <=> i + 1 < size)
  BY <1>7, GroupType DEF Group
<1>. HIDE DEF w, size, byte
<1>9. tmp' = {b \in w : b < 7 * (i + 1)}
  <2>1. PICK width \in Nat : width = Width(type)
    BY <1>5
  <2>2. w \in SUBSET Nat /\ w \in SUBSET (0 .. width - 1) /\ i \in Nat
    BY <1>1, <1>2, <2>1
  <2>3. byte \intersect 0 .. 6 = Group(w, i + 1)
    BY <1>8
  <2>4. {b \in w : b < 7 * i} \union Shl(byte \intersect 0 .. 6, 7 * i, width)
          = {b \in w : b < 7 * (i + 1)}
    BY <2>2, <2>3, NextBits
  <2>. QED
    BY <1>1, <1>4, <2>1, <2>4
<1>10. Sent'
  BY <1>4, <1>1 DEF WireInv, Sent
<1>11. CASE i + 1 < size
  <2>1. phase' = "read"
    BY <1>4, <1>8, <1>11
  <2>2. WordOf(type', value') = w /\ SizeOf(type', value') = size
    BY <1>4 DEF w, size
  <2>3. i' \in Nat /\ i' <= Len(bytes') /\ i' < SizeOf(type', value')
    BY <1>1, <1>4, <1>5, <1>11, <2>2
  <2>4. tmp' = {b \in WordOf(type', value') : b < 7 * i'}
    BY <1>4, <1>9, <2>2
  <2>5. Reading'
    BY <2>3, <2>4 DEF Reading
  <2>. QED
    BY <1>10, <2>1, <2>5 DEF WireInv, ReadsBack
<1>12. CASE ~ (i + 1 < size)
  <2>1. phase' = "done"
    BY <1>4, <1>8, <1>12
  <2>2. i + 1 = size /\ i + 1 = Len(bytes)
    BY <1>5, <1>6, <1>12
  <2>3. {b \in w : b < 7 * (i + 1)} = w
    BY <1>2, <2>2 DEF IsVarint
  <2>4. ValueOf(type, tmp') = value
    BY <1>2, <1>9, <2>3
  <2>5. ReadsBack'
    BY <1>4, <2>1, <2>2, <2>4 DEF ReadsBack, size
  <2>. QED
    BY <1>10, <2>1, <2>5 DEF WireInv, Reading
<1>. QED
  BY <1>11, <1>12

LEMMA ReadFixedKeeps ==
  ASSUME WireInv, ReadFixed
  PROVE  WireInv'
<1>. DEFINE size == SizeOf(type, value)
<1>1. /\ phase = "read" /\ type \in Fixed /\ type \in Types /\ value \in Values(type)
      /\ HasArrived(PackOf(type, value), bytes)
  BY DEF WireInv, Sent, ReadFixed
<1>2. /\ size <= Len(bytes)
      /\ tmp' = UNION {Shl(bytes[k], 8 * k - 8, 64) : k \in 1 .. size}
      /\ i' = size
      /\ phase' = "done" /\ type' = type /\ value' = value /\ bytes' = bytes
  BY DEF ReadFixed
<1>3. /\ size \in {4, 8} /\ value \in SUBSET (0 .. 8 * size - 1)
      /\ PackOf(type, value) = fixed_pack(value, size)
  BY <1>1, Words32Assumption, Words64Assumption DEF Fixed, SizeOf, PackOf, Values
<1>. HIDE DEF size
<1>4. /\ Len(fixed_pack(value, size)) = size
      /\ UNION {Shl(fixed_pack(value, size)[k], 8 * k - 8, 64) : k \in 1 .. size} = value
  BY <1>3, FixedPack
<1>5. Len(bytes) = size /\ \A k \in 1 .. size : bytes[k] = fixed_pack(value, size)[k]
  BY <1>1, <1>2, <1>3, <1>4 DEF HasArrived
<1>6. tmp' = value
  BY <1>2, <1>4, <1>5
<1>7. ValueOf(type, value) = value
  BY <1>1 DEF ValueOf, Types, Fixed
<1>8. ReadsBack'
  BY <1>2, <1>5, <1>6, <1>7 DEF ReadsBack, size
<1>9. Sent'
  BY <1>1, <1>2 DEF Sent
<1>. QED
  BY <1>2, <1>8, <1>9 DEF WireInv, Reading

LEMMA RunOutKeeps ==
  ASSUME WireInv, RunOut
  PROVE  WireInv'
<1>1. /\ phase = "read" /\ phase' = "null"
      /\ type' = type /\ value' = value /\ bytes' = bytes
  BY DEF RunOut
<1>2. type \in Types /\ value \in Values(type) /\ Len(bytes) \in Nat
  BY <1>1 DEF WireInv, Sent, HasArrived
<1>3. SizeOf(type, value) \in Nat
  BY <1>2, PackedTyping
<1>4. Len(bytes) < SizeOf(type, value)
  BY <1>1, <1>2, <1>3 DEF RunOut, WireInv, Reading
<1>5. ReadsBack' /\ Reading'
  BY <1>1, <1>4 DEF ReadsBack, Reading
<1>6. Sent'
  BY <1>1 DEF WireInv, Sent
<1>. QED
  BY <1>1, <1>5, <1>6 DEF WireInv

LEMMA WireStep == WireInv /\ [Next]_vars => WireInv'
<1>. SUFFICES ASSUME WireInv, [Next]_vars PROVE WireInv'
  OBVIOUS
<1>1. ASSUME NEW t \in Types, NEW v \in Values(t), Send(t, v) PROVE WireInv'
  BY <1>1, SendKeeps
<1>2. CASE ReadByte
  BY <1>2, ReadByteKeeps
<1>3. CASE ReadFixed
  BY <1>3, ReadFixedKeeps
<1>4. CASE RunOut
  BY <1>4, RunOutKeeps
<1>5. CASE Forget
  BY <1>5 DEF Forget, WireInv, Sent, Reading, ReadsBack
<1>6. CASE UNCHANGED vars
  BY <1>6 DEF vars, WireInv, Sent, Reading, ReadsBack
<1>. QED
  BY <1>1, <1>2, <1>3, <1>4, <1>5, <1>6 DEF Next

(* What a client packs of any value of any type is what the server reads     *)
(* (read_uint32 and the others, protobuf-c.h), and of a value cut short it   *)
(* reads nothing.                                                            *)
THEOREM RoundTrip == Spec => []ReadsBack
<1>1. WireInv => ReadsBack
  BY DEF WireInv
<1>. QED
  BY <1>1, WireInit, WireStep, PTL DEF Spec
-----------------------------------------------------------------------------
(* A varint is skipped up to the first byte without the top bit, *)
LEMMA SkipVarint ==
  ASSUME NEW s \in Seq(SUBSET (0 .. 7)), NEW size \in Nat \ {0}, size <= Len(s),
         7 \notin s[size], \A k \in 1 .. size : k < size => 7 \in s[k]
  PROVE  skip_varint(s) = size
<1>. DEFINE ends == {k \in DOMAIN s : 7 \notin s[k]}
<1>1. DOMAIN s = 1 .. Len(s) /\ Len(s) \in Nat
  BY LenProperties
<1>2. size \in ends /\ ends \subseteq Nat /\ ends # {}
  BY <1>1
<1>3. Min(ends) \in ends /\ Min(ends) <= size
  BY <1>2, LeastNumber
<1>4. \A k \in ends : ~ (k < size)
  BY <1>1
<1>. HIDE DEF ends
<1>5. PICK least \in Nat : least = Min(ends)
  BY <1>2, <1>3
<1>6. least <= size /\ ~ (least < size)
  BY <1>3, <1>4, <1>5
<1>7. Min(ends) = size
  BY <1>5, <1>6
<1>. QED
  BY <1>2, <1>7 DEF skip_varint, ends

(* and not at all where there is none. *)
LEMMA SkipNoVarint ==
  ASSUME NEW s \in Seq(SUBSET (0 .. 7)), \A k \in 1 .. Len(s) : 7 \in s[k]
  PROVE  skip_varint(s) = 0
<1>1. DOMAIN s = 1 .. Len(s)
  BY LenProperties
<1>. QED
  BY <1>1 DEF skip_varint

(* Behind the two bytes of the tag, the value is skipped by its wire type. *)
LEMMA SkipField ==
  ASSUME NEW wire \in {{}, {0}, {0, 2}},
         NEW s \in Seq(SUBSET (0 .. 7)), NEW rest \in Seq(SUBSET (0 .. 7)),
         Len(s) = 2 + Len(rest), s[1] = wire \union {7}, s[2] = {3},
         \A k \in 1 .. Len(rest) : s[k + 2] = rest[k]
  PROVE  skip_field(s) = IF skip_value(wire, rest) = 0 THEN 0 ELSE 2 + skip_value(wire, rest)
<1>1. Len(s) \in Nat /\ Len(rest) \in Nat
  BY LenProperties
<1>2. PICK size \in Nat \ {0} : size = 2
  OBVIOUS
<1>3. skip_varint(s) = size
  <2>1. \A k \in 1 .. size : k < size => 7 \in s[k]
    BY <1>2
  <2>2. 7 \notin s[size] /\ size <= Len(s)
    BY <1>1, <1>2
  <2>. QED
    BY <2>1, <2>2, SkipVarint
<1>4. skip_varint(s) = 2
  BY <1>2, <1>3
<1>5. SubSeq(s, 3, Len(s)) = rest
  <2>. DEFINE part == SubSeq(s, 3, Len(s))
  <2>1. PICK first \in Nat \ {0} : first = 3
    OBVIOUS
  <2>2. first <= Len(s) + 1 /\ Len(s) <= Len(s) /\ part = SubSeq(s, first, Len(s))
    BY <1>1, <2>1
  <2>. HIDE DEF part
  <2>3. /\ part \in Seq(SUBSET (0 .. 7)) /\ Len(part) = Len(s) - first + 1
        /\ \A k \in 1 .. Len(part) : part[k] = s[k + (first - 1)]
    BY <1>1, <2>2, PartOf
  <2>4. Len(part) = Len(rest)
    BY <1>1, <2>1, <2>3
  <2>5. \A k \in 1 .. Len(rest) : part[k] = rest[k]
    BY <2>1, <2>3, <2>4
  <2>6. part = rest
    BY <2>3, <2>4, <2>5, SeqEqual
  <2>. QED
    BY <2>6 DEF part
<1>6. s[1] \intersect 0 .. 2 = wire
  OBVIOUS
<1>7. SubSeq(s, 2 + 1, Len(s)) = rest
  BY <1>5
<1>8. skip_value(s[1] \intersect 0 .. 2, SubSeq(s, 2 + 1, Len(s))) = skip_value(wire, rest)
  BY <1>6, <1>7
<1>. QED
  BY <1>4, <1>8 DEF skip_field

Wire(t) == CASE t = "fixed32" -> {0, 2} [] t = "fixed64" -> {0} [] t \notin Fixed -> {}

LEMMA SkipFixed ==
  ASSUME NEW rest
  PROVE  /\ skip_value({0, 2}, rest) = IF Len(rest) >= 4 THEN 4 ELSE 0
         /\ skip_value({0}, rest) = IF Len(rest) >= 8 THEN 8 ELSE 0
<1>1. {0, 2} # {} /\ {0, 2} # {0} /\ {0, 2} # {1} /\ {0} # {} /\ {0} # {1}
  OBVIOUS
<1>. QED
  BY <1>1 DEF skip_value

(* Of a value that has arrived, as many bytes are skipped as it has, whatever *)
(* follows it; of a part of it, none.                                         *)
LEMMA SkipWhole ==
  ASSUME NEW t \in Types, NEW v \in Values(t), NEW rest \in Seq(SUBSET (0 .. 7)),
         SizeOf(t, v) <= Len(rest), \A k \in 1 .. SizeOf(t, v) : rest[k] = PackOf(t, v)[k]
  PROVE  skip_value(Wire(t), rest) = SizeOf(t, v)
<1>1. CASE t = "fixed32"
  <2>1. Wire(t) = {0, 2} /\ SizeOf(t, v) = 4
    BY <1>1 DEF Wire, SizeOf, Fixed
  <2>. QED
    BY <2>1, SkipFixed
<1>2. CASE t = "fixed64"
  <2>1. Wire(t) = {0} /\ SizeOf(t, v) = 8
    BY <1>2 DEF Wire, SizeOf, Fixed
  <2>. QED
    BY <2>1, SkipFixed
<1>3. CASE t \notin Fixed
  <2>. DEFINE size == SizeOf(t, v)
  <2>1. IsVarint(PackOf(t, v), WordOf(t, v), size)
    BY <1>3, PackIsVarint
  <2>2. size \in Nat \ {0} /\ size \in 1 .. size
    BY <2>1 DEF IsVarint
  <2>3. \A k \in 1 .. size : 7 \in rest[k] <=> k < size
    <3>1. ASSUME NEW k \in 1 .. size PROVE 7 \in rest[k] <=> k < size
      <4>1. rest[k] = Group(WordOf(t, v), k) \union (IF k < size THEN {7} ELSE {})
        BY <2>1 DEF IsVarint
      <4>. QED
        BY <4>1, GroupType
    <3>. QED
      BY <3>1
  <2>. HIDE DEF size
  <2>4. size <= Len(rest)
    BY DEF size
  <2>5. 7 \notin rest[size] /\ \A k \in 1 .. size : k < size => 7 \in rest[k]
    BY <2>2, <2>3
  <2>6. skip_varint(rest) = size
    BY <2>2, <2>4, <2>5, SkipVarint
  <2>7. Wire(t) = {}
    BY <1>3 DEF Wire, Fixed
  <2>. QED
    BY <2>6, <2>7 DEF skip_value, size
<1>. QED
  BY <1>1, <1>2, <1>3 DEF Fixed

LEMMA SkipPart ==
  ASSUME NEW t \in Types, NEW v \in Values(t), NEW rest \in Seq(SUBSET (0 .. 7)),
         Len(rest) < SizeOf(t, v), \A k \in 1 .. Len(rest) : rest[k] = PackOf(t, v)[k]
  PROVE  skip_value(Wire(t), rest) = 0
<1>0. Len(rest) \in Nat
  BY LenProperties
<1>1. CASE t = "fixed32"
  <2>1. Wire(t) = {0, 2} /\ SizeOf(t, v) = 4
    BY <1>1 DEF Wire, SizeOf, Fixed
  <2>. QED
    BY <1>0, <2>1, SkipFixed
<1>2. CASE t = "fixed64"
  <2>1. Wire(t) = {0} /\ SizeOf(t, v) = 8
    BY <1>2 DEF Wire, SizeOf, Fixed
  <2>. QED
    BY <1>0, <2>1, SkipFixed
<1>3. CASE t \notin Fixed
  <2>. DEFINE size == SizeOf(t, v)
  <2>1. IsVarint(PackOf(t, v), WordOf(t, v), size)
    BY <1>3, PackIsVarint
  <2>2. \A k \in 1 .. Len(rest) : 7 \in rest[k]
    <3>1. ASSUME NEW k \in 1 .. Len(rest) PROVE 7 \in rest[k]
      <4>1. k \in 1 .. size /\ k < size
        BY <1>0, <2>1 DEF IsVarint
      <4>2. rest[k] = Group(WordOf(t, v), k) \union {7}
        BY <2>1, <4>1 DEF IsVarint
      <4>. QED
        BY <4>2
    <3>. QED
      BY <3>1
  <2>3. skip_varint(rest) = 0
    BY <2>2, SkipNoVarint
  <2>4. Wire(t) = {}
    BY <1>3 DEF Wire, Fixed
  <2>. QED
    BY <2>3, <2>4 DEF skip_value
<1>. QED
  BY <1>1, <1>2, <1>3 DEF Fixed

LEMMA SkipsInvariant == WireInv => SkipsWhatItReads
<1>. DEFINE wire == Wire(type)
            tag == <<wire \union {7}, {3}>>
            field == tag \o bytes
            longer == field \o <<{1}>>
            shorter == SubSeq(field, 1, Len(field) - 1)
            Octets == SUBSET (0 .. 7)
            size == SizeOf(type, value)
<1>. SUFFICES ASSUME WireInv, phase = "done"
              PROVE  skip_field(longer) = Len(field) /\ skip_field(shorter) = 0
  BY DEF SkipsWhatItReads, Wire
<1>1. type \in Types /\ value \in Values(type) /\ HasArrived(PackOf(type, value), bytes)
  BY DEF WireInv, Sent
<1>2. Len(bytes) = size /\ size \in Nat \ {0} /\ bytes \in Seq(Octets)
  BY <1>1, PackedTyping DEF WireInv, ReadsBack, HasArrived
<1>3. \A k \in 1 .. size : bytes[k] = PackOf(type, value)[k]
  BY <1>1, <1>2 DEF HasArrived
<1>4. wire \in {{}, {0}, {0, 2}}
  BY <1>1 DEF Wire, Fixed
<1>5. tag \in Seq(Octets) /\ Len(tag) = 2 /\ tag[1] = wire \union {7} /\ tag[2] = {3}
  <2>1. wire \union {7} \in Octets /\ {3} \in Octets
    BY <1>4
  <2>. HIDE DEF Octets
  <2>. QED
    BY <2>1
<1>6. {1} \in Octets /\ <<{1}>> \in Seq(Octets) /\ Len(<<{1}>>) = 1
  OBVIOUS
<1>. HIDE DEF wire, tag, field, longer, shorter, size, Octets
<1>7. /\ field \in Seq(Octets) /\ Len(field) = 2 + size
      /\ \A k \in 1 .. 2 : field[k] = tag[k]
      /\ \A k \in 1 .. size : field[k + 2] = bytes[k]
  <2>1. field = tag \o bytes /\ tag \in Seq(Octets) /\ bytes \in Seq(Octets)
    BY <1>2, <1>5 DEF field
  <2>2. /\ field \in Seq(Octets) /\ Len(field) = Len(tag) + Len(bytes)
        /\ \A k \in 1 .. Len(tag) : field[k] = tag[k]
        /\ \A k \in 1 .. Len(bytes) : field[k + Len(tag)] = bytes[k]
    BY <2>1, Joined
  <2>. QED
    BY <1>2, <1>5, <2>2
<1>8. field[1] = wire \union {7} /\ field[2] = {3}
  BY <1>5, <1>7
<1>9. skip_field(longer) = Len(field)
  <2>. DEFINE rest == bytes \o <<{1}>>
  <2>1. /\ longer \in Seq(Octets) /\ Len(longer) = 2 + size + 1
        /\ \A k \in 1 .. 2 + size : longer[k] = field[k]
        /\ longer[1 + (2 + size)] = {1}
    <3>1. longer = field \o <<{1}>> /\ <<{1}>>[1] = {1} /\ 1 \in 1 .. 1
      BY DEF longer
    <3>. QED
      BY <1>6, <1>7, <3>1, Joined
  <2>2. /\ rest \in Seq(Octets) /\ Len(rest) = size + 1
        /\ \A k \in 1 .. size : rest[k] = bytes[k]
        /\ rest[1 + size] = {1}
    <3>1. rest = bytes \o <<{1}>> /\ <<{1}>>[1] = {1} /\ 1 \in 1 .. 1
      OBVIOUS
    <3>. HIDE DEF rest
    <3>. QED
      BY <1>2, <1>6, <3>1, Joined
  <2>. HIDE DEF rest
  <2>3. \A k \in 1 .. Len(rest) : longer[k + 2] = rest[k]
    <3>1. ASSUME NEW k \in 1 .. size PROVE longer[k + 2] = rest[k]
      <4>1. k + 2 \in 1 .. 2 + size
        BY <1>2
      <4>. QED
        BY <1>7, <2>1, <2>2, <4>1
    <3>2. longer[(1 + size) + 2] = rest[1 + size]
      <4>1. (1 + size) + 2 = 1 + (2 + size)
        BY <1>2
      <4>. QED
        BY <2>1, <2>2, <4>1
    <3>3. \A k \in 1 .. Len(rest) : k \in 1 .. size \/ k = 1 + size
      BY <1>2, <2>2
    <3>. QED
      BY <3>1, <3>2, <3>3
  <2>4. Len(longer) = 2 + Len(rest) /\ size <= Len(rest)
    BY <1>2, <2>1, <2>2
  <2>5. longer[1] = wire \union {7} /\ longer[2] = {3}
    <3>1. 1 \in 1 .. 2 + size /\ 2 \in 1 .. 2 + size
      BY <1>2
    <3>. QED
      BY <1>8, <2>1, <3>1
  <2>6. skip_value(wire, rest) = size
    <3>1. \A k \in 1 .. size : rest[k] = PackOf(type, value)[k]
      BY <1>3, <2>2
    <3>. QED
      BY <1>1, <2>2, <2>4, <3>1, SkipWhole DEF size, wire, Octets
  <2>7. skip_field(longer) = IF skip_value(wire, rest) = 0 THEN 0 ELSE 2 + skip_value(wire, rest)
    BY <1>4, <2>1, <2>2, <2>3, <2>4, <2>5, SkipField DEF Octets
  <2>. QED
    BY <1>2, <1>7, <2>6, <2>7
<1>10. skip_field(shorter) = 0
  <2>. DEFINE rest == SubSeq(bytes, 1, size - 1)
  <2>1. PICK first \in Nat \ {0} : first = 1
    OBVIOUS
  <2>2. /\ shorter \in Seq(Octets) /\ Len(shorter) = 2 + size - 1
        /\ \A k \in 1 .. 2 + size - 1 : shorter[k] = field[k]
    <3>1. PICK last \in Nat : last = 2 + size - 1
      BY <1>2
    <3>2. shorter = SubSeq(field, first, last) /\ first <= last + 1 /\ last <= Len(field)
      BY <1>2, <1>7, <2>1, <3>1 DEF shorter
    <3>3. /\ shorter \in Seq(Octets) /\ Len(shorter) = last - first + 1
          /\ \A k \in 1 .. Len(shorter) : shorter[k] = field[k + (first - 1)]
      BY <1>7, <3>2, PartOf
    <3>4. Len(shorter) = last /\ \A k \in 1 .. last : k + (first - 1) = k
      BY <2>1, <3>3
    <3>5. \A k \in 1 .. last : shorter[k] = field[k]
      BY <3>3, <3>4
    <3>. QED
      BY <3>1, <3>3, <3>4, <3>5
  <2>3. /\ rest \in Seq(Octets) /\ Len(rest) = size - 1
        /\ \A k \in 1 .. size - 1 : rest[k] = bytes[k]
    <3>1. PICK last \in Nat : last = size - 1
      BY <1>2
    <3>2. rest = SubSeq(bytes, first, last) /\ first <= last + 1 /\ last <= Len(bytes)
      BY <1>2, <2>1, <3>1
    <3>. HIDE DEF rest
    <3>3. /\ rest \in Seq(Octets) /\ Len(rest) = last - first + 1
          /\ \A k \in 1 .. Len(rest) : rest[k] = bytes[k + (first - 1)]
      BY <1>2, <3>2, PartOf
    <3>4. Len(rest) = last /\ \A k \in 1 .. last : k + (first - 1) = k
      BY <2>1, <3>3
    <3>5. \A k \in 1 .. last : rest[k] = bytes[k]
      BY <3>3, <3>4
    <3>. QED
      BY <3>1, <3>3, <3>4, <3>5
  <2>. HIDE DEF rest
  <2>4. \A k \in 1 .. Len(rest) : shorter[k + 2] = rest[k]
    <3>1. ASSUME NEW k \in 1 .. size - 1 PROVE shorter[k + 2] = rest[k]
      <4>1. k + 2 \in 1 .. 2 + size - 1 /\ k \in 1 .. size
        BY <1>2
      <4>. QED
        BY <1>7, <2>2, <2>3, <4>1
    <3>. QED
      BY <2>3, <3>1
  <2>5. Len(shorter) = 2 + Len(rest) /\ Len(rest) < size
    BY <1>2, <2>2, <2>3
  <2>6. shorter[1] = wire \union {7} /\ shorter[2] = {3}
    <3>1. 1 \in 1 .. 2 + size - 1 /\ 2 \in 1 .. 2 + size - 1
      BY <1>2
    <3>. QED
      BY <1>8, <2>2, <3>1
  <2>7. skip_value(wire, rest) = 0
    <3>1. \A k \in 1 .. Len(rest) : k \in 1 .. size
      BY <1>2, <2>3
    <3>2. \A k \in 1 .. Len(rest) : rest[k] = PackOf(type, value)[k]
      BY <1>3, <2>3, <3>1
    <3>. QED
      BY <1>1, <2>3, <2>5, <3>2, SkipPart DEF size, wire, Octets
  <2>8. skip_field(shorter) = IF skip_value(wire, rest) = 0 THEN 0 ELSE 2 + skip_value(wire, rest)
    BY <1>4, <2>2, <2>3, <2>4, <2>5, <2>6, SkipField DEF Octets
  <2>. QED
    BY <2>7, <2>8
<1>. QED
  BY <1>9, <1>10

(* A reader that does not know a field skips all of it, whatever its value,  *)
(* and none of it when the datagram cuts it short (skip_varint and the       *)
(* others, protobuf-c.h).                                                    *)
THEOREM SkipsTheSame == Spec => []SkipsWhatItReads
<1>. QED
  BY WireInit, WireStep, SkipsInvariant, PTL DEF Spec
-----------------------------------------------------------------------------
(* What holds of a search in a table of either kind: the entries left are    *)
(* entries of the table, the one that has what is wanted is among them, and  *)
(* a result is the field of that entry, or there is none.                    *)
Typing ==
  /\ by \in {"number", "name"}
  /\ by = "number" => IsRangeTable(table)
  /\ by = "name" => IsNameTable(table)
  /\ table.n \in Nat
  /\ wanted \in Int
  /\ start \in Nat
  /\ n \in Nat
  /\ start + n <= table.n
  /\ done \in BOOLEAN

Left == start .. start + n - 1

Searching ==
  ~done => \A k \in 0 .. table.n - 1 : Has(k) => k \in Left

LookupInv == Typing /\ Searching /\ FindsTheField

(* The middle of two entries or more is one of them, and not the first. *)
LEMMA MidIsInside ==
  ASSUME Typing, n > 1
  PROVE  mid \in Int /\ start < mid /\ mid < start + n /\ mid \in 0 .. table.n - 1
BY DEF Typing, mid

(* A range of the table begins and ends with numbers. *)
LEMMA RangeTyping ==
  ASSUME NEW t, IsRangeTable(t), NEW k \in 0 .. t.n - 1
  PROVE  /\ t.start_value[k] \in Int
         /\ t.orig_index[k] \in Nat
         /\ RangeSize(t, k) \in Int
         /\ RangeEnd(t, k) \in Int
         /\ t.start_value[k] < RangeEnd(t, k)
<1>1. t.n \in Nat /\ k \in 0 .. t.n /\ k + 1 \in 0 .. t.n
  BY DEF IsRangeTable
<1>2. t.start_value[k] \in Int /\ t.orig_index[k] \in Nat /\ t.orig_index[k + 1] \in Nat
  BY <1>1 DEF IsRangeTable
<1>3. RangeSize(t, k) \in Int /\ RangeSize(t, k) > 0
  BY <1>2 DEF IsRangeTable, RangeSize
<1>. QED
  BY <1>2, <1>3 DEF RangeEnd

(* At most one range has a number. *)
LEMMA OneRange ==
  ASSUME Typing, by = "number",
         NEW j \in 0 .. table.n - 1, NEW k \in 0 .. table.n - 1,
         IsInRange(j), IsInRange(k)
  PROVE  j = k
<1>1. IsRangeTable(table) /\ wanted \in Int
  BY DEF Typing
<1>2. /\ table.start_value[j] \in Int /\ RangeEnd(table, j) \in Int
      /\ table.start_value[k] \in Int /\ RangeEnd(table, k) \in Int
  BY <1>1, RangeTyping
<1>3. ~ (j < k)
  BY <1>1, <1>2 DEF IsRangeTable, IsInRange
<1>4. ~ (k < j)
  BY <1>1, <1>2 DEF IsRangeTable, IsInRange
<1>. QED
  BY <1>3, <1>4 DEF Typing

LEMMA OneName ==
  ASSUME Typing, by = "name",
         NEW j \in 0 .. table.n - 1, NEW k \in 0 .. table.n - 1,
         table.name[j] = wanted, table.name[k] = wanted
  PROVE  j = k
<1>1. ~ (j < k) /\ ~ (k < j)
  BY DEF Typing, IsNameTable
<1>. QED
  BY <1>1 DEF Typing

(* A search starts with every entry of its table. *)
LEMMA InitLookupInv == LookupInit => LookupInv
<1>. SUFFICES ASSUME LookupInit PROVE LookupInv
  OBVIOUS
<1>0. wanted \in Int /\ start = 0 /\ n = table.n /\ done \in BOOLEAN
  BY TablesAssumption DEF LookupInit
<1>1. Typing
  <2>1. CASE by = "number" /\ table \in RangeTables
    <3>1. IsRangeTable(table) /\ by \in {"number", "name"} /\ by # "name"
      BY <2>1, TablesAssumption
    <3>2. table.n \in Nat
      BY <3>1 DEF IsRangeTable
    <3>3. start \in Nat /\ n \in Nat /\ start + n <= table.n
      BY <1>0, <3>2
    <3>. QED
      BY <1>0, <3>1, <3>2, <3>3 DEF Typing
  <2>2. CASE by = "name" /\ table \in NameTables
    <3>1. IsNameTable(table) /\ by \in {"number", "name"} /\ by # "number"
      BY <2>2, TablesAssumption
    <3>2. table.n \in Nat
      BY <3>1 DEF IsNameTable
    <3>3. start \in Nat /\ n \in Nat /\ start + n <= table.n
      BY <1>0, <3>2
    <3>. QED
      BY <1>0, <3>1, <3>2, <3>3 DEF Typing
  <2>. QED
    BY <2>1, <2>2 DEF LookupInit
<1>2. Searching
  BY <1>1 DEF LookupInit, Searching, Left, Typing
<1>3. FindsTheField
  BY DEF LookupInit, FindsTheField
<1>. QED
  BY <1>1, <1>2, <1>3 DEF LookupInv
-----------------------------------------------------------------------------
(* Whatever is returned for entry k is right when k has what is wanted.      *)
LEMMA ReturnFound ==
  ASSUME LookupInv, NEW k \in 0 .. table.n - 1, Has(k), Return(FieldOf(k))
  PROVE  LookupInv'
<1>1. Typing'
  BY DEF LookupInv, Typing, Return
<1>2. Searching'
  BY DEF Searching, Return
<1>3. \A j \in 0 .. table.n - 1 : Has(j) => j = k
  <2>1. CASE by = "number"
    BY <2>1, OneRange DEF LookupInv, Has
  <2>2. CASE by = "name"
    BY <2>2, OneName DEF LookupInv, Has
  <2>. QED
    BY <2>1, <2>2 DEF LookupInv, Typing
<1>4. /\ result' = FieldOf(k)
      /\ table' = table
      /\ \A j : Has(j)' = Has(j) /\ FieldOf(j)' = FieldOf(j)
  BY DEF Return, Has, FieldOf, IsInRange, Index, RangeEnd, RangeSize
<1>5. FindsTheField'
  BY <1>3, <1>4 DEF FindsTheField
<1>. QED
  BY <1>1, <1>2, <1>5 DEF LookupInv

LEMMA ReturnNotFound ==
  ASSUME LookupInv, \A k \in 0 .. table.n - 1 : ~Has(k), Return(NotFound)
  PROVE  LookupInv'
<1>1. Typing'
  BY DEF LookupInv, Typing, Return
<1>2. Searching'
  BY DEF Searching, Return
<1>3. /\ result' = NotFound
      /\ table' = table
      /\ \A j : Has(j)' = Has(j)
  BY DEF Return, Has, IsInRange, RangeEnd, RangeSize
<1>4. FindsTheField'
  BY <1>3 DEF FindsTheField
<1>. QED
  BY <1>1, <1>2, <1>4 DEF LookupInv

(* The half above the middle, or below it, is searched when what is wanted   *)
(* is in none of the others.                                                 *)
LEMMA UpperKeeps ==
  ASSUME LookupInv, ~done, n > 1, Upper,
         \A k \in 0 .. table.n - 1 : Has(k) => k > mid
  PROVE  LookupInv'
<1>1. mid \in Int /\ start < mid /\ mid < start + n
  BY MidIsInside DEF LookupInv
<1>2. Typing'
  BY <1>1 DEF LookupInv, Typing, Upper
<1>3. table' = table /\ \A k : Has(k)' = Has(k)
  BY DEF Upper, Has, IsInRange, RangeEnd, RangeSize
<1>4. \A k \in 0 .. table.n - 1 : Has(k) => k \in Left'
  BY <1>1 DEF LookupInv, Searching, Left, Typing, Upper
<1>5. Searching' /\ FindsTheField'
  BY <1>3, <1>4 DEF Searching, FindsTheField, Upper
<1>. QED
  BY <1>2, <1>5 DEF LookupInv

LEMMA LowerKeeps ==
  ASSUME LookupInv, ~done, n > 1, Lower,
         \A k \in 0 .. table.n - 1 : Has(k) => k < mid
  PROVE  LookupInv'
<1>1. mid \in Int /\ start < mid /\ mid < start + n
  BY MidIsInside DEF LookupInv
<1>2. Typing'
  BY <1>1 DEF LookupInv, Typing, Lower
<1>3. table' = table /\ \A k : Has(k)' = Has(k)
  BY DEF Lower, Has, IsInRange, RangeEnd, RangeSize
<1>4. \A k \in 0 .. table.n - 1 : Has(k) => k \in Left'
  BY <1>1 DEF LookupInv, Searching, Left, Typing, Lower
<1>5. Searching' /\ FindsTheField'
  BY <1>3, <1>4 DEF Searching, FindsTheField, Lower
<1>. QED
  BY <1>2, <1>5 DEF LookupInv

(* When at most one entry is left it is the first, or there is none. *)
LEMMA OneLeft ==
  ASSUME LookupInv, ~done, n <= 1
  PROVE  /\ n > 0 => start \in 0 .. table.n - 1
         /\ \A k \in 0 .. table.n - 1 : Has(k) => n > 0 /\ k = start
<1>1. n > 0 => start \in 0 .. table.n - 1
  BY DEF LookupInv, Typing
<1>2. \A k \in 0 .. table.n - 1 : Has(k) => n > 0 /\ k = start
  BY DEF LookupInv, Typing, Searching, Left
<1>. QED
  BY <1>1, <1>2
-----------------------------------------------------------------------------
LEMMA HalveRangesKeeps ==
  ASSUME LookupInv, HalveRanges
  PROVE  LookupInv'
<1>1. by = "number" /\ ~done /\ n > 1 /\ IsRangeTable(table) /\ wanted \in Int
  BY DEF HalveRanges, LookupInv, Typing
<1>2. mid \in 0 .. table.n - 1
  BY <1>1, MidIsInside DEF LookupInv
<1>3. \A k \in 0 .. table.n - 1 :
        /\ table.start_value[k] \in Int /\ RangeEnd(table, k) \in Int
        /\ table.start_value[k] < RangeEnd(table, k)
  BY <1>1, RangeTyping
<1>4. CASE wanted < table.start_value[mid] /\ Lower
  <2>1. \A k \in 0 .. table.n - 1 : Has(k) => ~(mid < k) /\ k # mid
    BY <1>1, <1>2, <1>3, <1>4 DEF Has, IsInRange, IsRangeTable
  <2>2. \A k \in 0 .. table.n - 1 : Has(k) => k < mid
    BY <1>2, <2>1 DEF LookupInv, Typing
  <2>. QED
    BY <1>1, <1>4, <2>2, LowerKeeps
<1>5. CASE wanted >= RangeEnd(table, mid) /\ Upper
  <2>1. \A k \in 0 .. table.n - 1 : Has(k) => ~(k < mid) /\ k # mid
    BY <1>1, <1>2, <1>3, <1>5 DEF Has, IsInRange, IsRangeTable
  <2>2. \A k \in 0 .. table.n - 1 : Has(k) => k > mid
    BY <1>2, <2>1 DEF LookupInv, Typing
  <2>. QED
    BY <1>1, <1>5, <2>2, UpperKeeps
<1>6. CASE IsInRange(mid) /\ Return(Index(mid))
  <2>1. Has(mid) /\ FieldOf(mid) = Index(mid)
    BY <1>1, <1>6 DEF Has, FieldOf
  <2>. QED
    BY <1>2, <1>6, <2>1, ReturnFound
<1>. QED
  BY <1>4, <1>5, <1>6 DEF HalveRanges

LEMMA HalveNamesKeeps ==
  ASSUME LookupInv, HalveNames
  PROVE  LookupInv'
<1>1. by = "name" /\ ~done /\ n > 1 /\ IsNameTable(table) /\ wanted \in Int
  BY DEF HalveNames, LookupInv, Typing
<1>2. mid \in 0 .. table.n - 1
  BY <1>1, MidIsInside DEF LookupInv
<1>3. \A k \in 0 .. table.n - 1 : table.name[k] \in Int
  BY <1>1 DEF IsNameTable
<1>4. CASE table.name[mid] < wanted /\ Upper
  <2>1. \A k \in 0 .. table.n - 1 : Has(k) => k > mid
    BY <1>1, <1>2, <1>3, <1>4 DEF Has, IsNameTable
  <2>. QED
    BY <1>1, <1>4, <2>1, UpperKeeps
<1>5. CASE table.name[mid] > wanted /\ Lower
  <2>1. \A k \in 0 .. table.n - 1 : Has(k) => k < mid
    BY <1>1, <1>2, <1>3, <1>5 DEF Has, IsNameTable
  <2>. QED
    BY <1>1, <1>5, <2>1, LowerKeeps
<1>6. CASE table.name[mid] = wanted /\ Return(table.field[mid])
  <2>1. Has(mid) /\ FieldOf(mid) = table.field[mid]
    BY <1>1, <1>6 DEF Has, FieldOf
  <2>. QED
    BY <1>2, <1>6, <2>1, ReturnFound
<1>. QED
  BY <1>4, <1>5, <1>6 DEF HalveNames

LEMMA LastRangeKeeps ==
  ASSUME LookupInv, LastRange
  PROVE  LookupInv'
<1>1. by = "number" /\ ~done /\ n <= 1
  BY DEF LastRange
<1>2. CASE n > 0 /\ IsInRange(start)
  <2>1. start \in 0 .. table.n - 1
    BY <1>1, <1>2, OneLeft
  <2>2. Has(start) /\ Return(FieldOf(start))
    BY <1>1, <1>2 DEF Has, FieldOf, LastRange
  <2>. QED
    BY <2>1, <2>2, ReturnFound
<1>3. CASE ~ (n > 0 /\ IsInRange(start))
  <2>1. \A k \in 0 .. table.n - 1 : ~Has(k)
    BY <1>1, <1>3, OneLeft DEF Has
  <2>2. Return(NotFound)
    BY <1>3 DEF LastRange
  <2>. QED
    BY <2>1, <2>2, ReturnNotFound
<1>. QED
  BY <1>2, <1>3

LEMMA LastNameKeeps ==
  ASSUME LookupInv, LastName
  PROVE  LookupInv'
<1>1. by = "name" /\ ~done /\ n <= 1
  BY DEF LastName
<1>2. CASE n > 0 /\ table.name[start] = wanted
  <2>1. start \in 0 .. table.n - 1
    BY <1>1, <1>2, OneLeft
  <2>2. Has(start) /\ Return(FieldOf(start))
    BY <1>1, <1>2 DEF Has, FieldOf, LastName
  <2>. QED
    BY <2>1, <2>2, ReturnFound
<1>3. CASE ~ (n > 0 /\ table.name[start] = wanted)
  <2>1. \A k \in 0 .. table.n - 1 : ~Has(k)
    BY <1>1, <1>3, OneLeft DEF Has
  <2>2. Return(NotFound)
    BY <1>3 DEF LastName
  <2>. QED
    BY <2>1, <2>2, ReturnNotFound
<1>. QED
  BY <1>2, <1>3

(* In every table, with any number of ranges or of names, the search finds   *)
(* the field that is there and no other (protobuf-c.h).                      *)
THEOREM LookupFinds == LookupSpec => []FindsTheField
<1>1. LookupInit => LookupInv
  BY InitLookupInv
<1>2. LookupInv /\ [LookupNext]_lookup_vars => LookupInv'
  <2>. SUFFICES ASSUME LookupInv, [LookupNext]_lookup_vars PROVE LookupInv'
    OBVIOUS
  <2>1. CASE UNCHANGED lookup_vars
    BY <2>1 DEF lookup_vars, LookupInv, Typing, Searching, Left, FindsTheField, Has, FieldOf,
                IsInRange, Index, RangeEnd, RangeSize
  <2>. QED
    BY <2>1, HalveRangesKeeps, LastRangeKeeps, HalveNamesKeeps, LastNameKeeps DEF LookupNext
<1>3. LookupInv => FindsTheField
  BY DEF LookupInv
<1>. QED
  BY <1>1, <1>2, <1>3, PTL DEF LookupSpec
=============================================================================
