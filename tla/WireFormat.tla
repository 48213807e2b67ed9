------------------------------ MODULE WireFormat ------------------------------
(***************************************************************************)
(* The wire format of one value (protobuf-c.h): how many bytes it takes,   *)
(* how it is packed, and how many bytes a reader skips of it.              *)
(*                                                                         *)
(* A word is the set of the positions of its 1 bits, at its true width, so *)
(* that nothing overflows here that does not overflow in C; a byte is a    *)
(* word of 8 bits.  The order of the bytes of a float in memory is not     *)
(* modelled: fixed32_pack and read_fixed32 agree on little-endian.         *)
(***************************************************************************)
EXTENDS Integers, Sequences, FiniteSetsExt

Shr(v, n) == {b - n : b \in {c \in v : c >= n}}

Shl(v, n, width) == {b + n : b \in v} \intersect 0 .. width - 1
IsBelow(v, n) == \A b \in v : b < n   (* v < (1 << n) *)
IsNegative(v) == 31 \in v
Not(v, width) == (0 .. width - 1) \ v
Xor(v, u) == (v \ u) \union (u \ v)
Low8(v) == v \intersect 0 .. 7        (* assigned to a uint8_t *)

(* Adding 1 turns the lowest 0 and the 1s below it; subtracting 1, the      *)
(* lowest 1 and the 0s below it.                                            *)
Plus1(v, width) ==
  LET carry == {b \in 0 .. width - 1 : \A c \in 0 .. b - 1 : c \in v}
  IN  Xor(v, carry)
Minus1(v, width) ==
  LET borrow == {b \in 0 .. width - 1 : \A c \in 0 .. b - 1 : c \notin v}
  IN  Xor(v, borrow)
Minus(v, width) == Plus1(Not(v, width), width)
-----------------------------------------------------------------------------
uint32_size(v) == Min({k \in 1 .. 5 : k = 5 \/ IsBelow(v, 7 * k)})

int32_size(v) == IF IsNegative(v) THEN 10 ELSE uint32_size(v)

(* zigzag32 and zigzag64: 2 (-v) - 1 for a negative value, 2 v otherwise. *)
zigzag(v, width) ==
  IF width - 1 \in v
  THEN Minus1(Shl(Minus(v, width), 1, width), width)
  ELSE Shl(v, 1, width)

(* Mutant: the bounds are those of 32 bit groups, one bit late. *)
uint64_size_late(v) ==
  LET upper == Shr(v, 32)
  IN  IF upper = {}
      THEN uint32_size(v)
      ELSE Min({k \in 5 .. 10 : k = 10 \/ IsBelow(upper, 7 * k - 31)})

uint64_size(v) ==
  LET upper == Shr(v, 32)
  IN  IF upper = {}
      THEN uint32_size(v)
      ELSE Min({k \in 5 .. 10 : k = 10 \/ IsBelow(upper, 7 * k - 32)})
-----------------------------------------------------------------------------
(* The groups of 7 bits, lowest first; all but the last have the top bit.   *)
More(v) == Low8(v) \union {7}

Groups(v, most) ==
  LET n == Min({k \in 1 .. most : k = most \/ IsBelow(Shr(v, 7 * k - 7), 7)})
  IN  [i \in 1 .. n |->
         IF i < n THEN More(Shr(v, 7 * i - 7)) ELSE Low8(Shr(v, 7 * i - 7))]

uint32_pack(v) == Groups(v, 5)

(* value >> n of a negative int32_t: the sign comes in from above. *)
ShrSigned(v, n) == Shr(v, n) \union (32 - n .. 31)

(* A negative one is packed as the 64 bit number. *)
int32_pack(v) ==
  IF IsNegative(v)
  THEN [i \in 1 .. 10 |->
          IF i <= 5 THEN More(ShrSigned(v, 7 * i - 7))
          ELSE IF i <= 9 THEN 0 .. 7 ELSE {0}]
  ELSE uint32_pack(v)

uint64_pack(v) ==
  LET hi == Shr(v, 32)
      lo == v \intersect 0 .. 31
      fifth(h) == Shl(h, 4, 8) \union Shr(lo, 28)
  IN  IF hi = {}
      THEN uint32_pack(lo)
      ELSE [i \in 1 .. 4 |-> More(Shr(lo, 7 * i - 7))]
             \o (IF IsBelow(hi, 3)
                 THEN <<fifth(hi)>>
                 ELSE <<fifth(hi \intersect 0 .. 2) \union {7}>> \o Groups(Shr(hi, 3), 5))

(* fixed32_pack and fixed64_pack, of 4 and of 8 bytes. *)
fixed_pack(v, n) == [i \in 1 .. n |-> Low8(Shr(v, 8 * i - 8))]

boolean_pack(v) == IF v # {} THEN <<{0}>> ELSE <<{}>>
-----------------------------------------------------------------------------
(* The length in front of a string, of bytes or of a nested message. *)
Word(n) ==
  LET half[b \in 0 .. 32] == IF b = 0 THEN n ELSE half[b - 1] \div 2   (* n >> b *)
  IN  {b \in 0 .. 31 : half[b] % 2 = 1}

Number(v) ==
  LET upper[k \in 0 .. 32] ==   (* the number that the k highest bits are *)
        IF k = 0 THEN 0 ELSE 2 * upper[k - 1] + (IF 32 - k \in v THEN 1 ELSE 0)
  IN  upper[32]

(* string_size, bytes_size, submessage_size *)
delimited_size(len) == uint32_size(Word(len)) + len

(* string_pack, binary_data_pack *)
delimited_pack(data) == uint32_pack(Word(Len(data))) \o data
-----------------------------------------------------------------------------
(* skip_varint, skip_fixed32, skip_fixed64, skip_bytes: how many bytes of s  *)
(* the value of wire type w takes; 0 is NULL.                               *)
skip_varint(s) ==
  LET ends == {k \in DOMAIN s : 7 \notin s[k]}
  IN  IF ends = {} THEN 0 ELSE Min(ends)

skip_bytes(s) ==
  LET n == skip_varint(s)
      length == Number(UNION {Shl(s[k] \intersect 0 .. 6, 7 * k - 7, 32) : k \in 1 .. n})
  IN  IF n > 0 /\ n + length <= Len(s) THEN n + length ELSE 0

(* Mutant: the fixed types are taken for one another. *)
skip_value_swapped(w, s) ==
  CASE w = {} -> skip_varint(s)
    [] w = {0} -> IF Len(s) >= 4 THEN 4 ELSE 0
    [] w = {1} -> skip_bytes(s)
    [] w = {0, 2} -> IF Len(s) >= 8 THEN 8 ELSE 0
    [] w \notin {{}, {0}, {1}, {0, 2}} -> 0

(* The wire types are 0, 1, 2 and 5. *)
skip_value(w, s) ==
  CASE w = {} -> skip_varint(s)
    [] w = {0} -> IF Len(s) >= 8 THEN 8 ELSE 0
    [] w = {1} -> skip_bytes(s)
    [] w = {0, 2} -> IF Len(s) >= 4 THEN 4 ELSE 0
    [] w \notin {{}, {0}, {1}, {0, 2}} -> 0

skip_field(s) ==
  LET tag == skip_varint(s)
      n == skip_value(s[1] \intersect 0 .. 2, SubSeq(s, tag + 1, Len(s)))
  IN  IF tag = 0 \/ n = 0 THEN 0 ELSE tag + n
=============================================================================
