-------------------------------- MODULE Varint --------------------------------
(***************************************************************************)
(* A value goes from a client to the server: the client packs it, as much  *)
(* of it arrives as the datagram holds, and the server reads it back byte  *)
(* by byte (read_uint32 and the others, protobuf-c.h) or skips it.  The    *)
(* packers belong to the clients, the readers to the server: what matters  *)
(* is that they agree on every value.                                      *)
(***************************************************************************)
EXTENDS WireFormat

CONSTANTS
  Words32,  (* the 32 bit values to try *)
  Words64   (* the 64 bit values to try *)

ASSUME Words32Assumption == Words32 \subseteq SUBSET (0 .. 31)
ASSUME Words64Assumption == Words64 \subseteq SUBSET (0 .. 63)

Types == {"uint32", "int32", "sint32", "uint64", "sint64", "bool", "fixed32", "fixed64"}
Fixed == {"fixed32", "fixed64"}

Values(t) == IF t \in {"uint64", "sint64", "fixed64"} THEN Words64
             ELSE IF t = "bool" THEN {{}, {0}} ELSE Words32

SizeOf(t, v) ==
  CASE t = "uint32" -> uint32_size(v)
    [] t = "int32" -> int32_size(v)
    [] t = "sint32" -> uint32_size(zigzag(v, 32))
    [] t = "uint64" -> uint64_size(v)
    [] t = "sint64" -> uint64_size(zigzag(v, 64))
    [] t = "bool" -> 1
    [] t = "fixed32" -> 4
    [] t = "fixed64" -> 8

PackOf(t, v) ==
  CASE t = "uint32" -> uint32_pack(v)
    [] t = "int32" -> int32_pack(v)
    [] t = "sint32" -> uint32_pack(zigzag(v, 32))
    [] t = "uint64" -> uint64_pack(v)
    [] t = "sint64" -> uint64_pack(zigzag(v, 64))
    [] t = "bool" -> boolean_pack(v)
    [] t = "fixed32" -> fixed_pack(v, 4)
    [] t = "fixed64" -> fixed_pack(v, 8)

(* The width of `tmp' in the reader of a type. *)
Width(t) == IF t \in {"uint32", "sint32"} THEN 32 ELSE 64

(* (tmp >> 1) ^ (-(tmp & 1)) *)
UnZigzag(v, width) == Xor(Shr(v, 1), IF 0 \in v THEN 0 .. width - 1 ELSE {})

(* What is assigned to *v when the last byte was read. *)
ValueOf(t, v) ==
  CASE t \in {"sint32", "sint64"} -> UnZigzag(v, Width(t))
    [] t = "int32" -> v \intersect 0 .. 31
    [] t \in Types \ {"sint32", "sint64", "int32"} -> v
-----------------------------------------------------------------------------
VARIABLES
  phase,   (* "idle", "read", "done" when the value was read, "null" if not *)
  type,    (* the type the client packed and the server reads *)
  value,   (* the value the client packed *)
  bytes,   (* the bytes up to buffer_end *)
  i,       (* the bytes read *)
  tmp      (* the word read so far *)

vars == <<phase, type, value, bytes, i, tmp>>

Init ==
  /\ phase = "idle"
  /\ type = "bool"
  /\ value = {}
  /\ bytes = <<>>
  /\ i = 0
  /\ tmp = {}

(* All the bytes of a value, or less than that: the datagram ends there. *)
Send(t, v) ==
  LET packed == PackOf(t, v)
  IN  /\ phase = "idle"
      /\ phase' = "read"
      /\ type' = t
      /\ value' = v
      /\ \E n \in 0 .. Len(packed) : bytes' = SubSeq(packed, 1, n)
      /\ UNCHANGED <<i, tmp>>

(* One round of the loop of read_uint32, read_int32 and the others. *)
ReadByte ==
  /\ phase = "read"
  /\ type \notin Fixed
  /\ i < Len(bytes)
  /\ tmp' = tmp \union Shl(bytes[i + 1] \intersect 0 .. 6, 7 * i, Width(type))
  /\ i' = i + 1
  /\ phase' = IF 7 \in bytes[i + 1] THEN "read" ELSE "done"
  /\ UNCHANGED <<type, value, bytes>>

(* read_fixed32 and read_fixed64: all of it, or nothing. *)
ReadFixed ==
  /\ phase = "read"
  /\ type \in Fixed
  /\ SizeOf(type, value) <= Len(bytes)
  /\ tmp' = UNION {Shl(bytes[k], 8 * k - 8, 64) : k \in 1 .. SizeOf(type, value)}
  /\ i' = SizeOf(type, value)
  /\ phase' = "done"
  /\ UNCHANGED <<type, value, bytes>>

(* buffer >= buffer_end: NULL *)
RunOut ==
  /\ phase = "read"
  /\ IF type \in Fixed THEN SizeOf(type, value) > Len(bytes) ELSE i = Len(bytes)
  /\ phase' = "null"
  /\ UNCHANGED <<type, value, bytes, i, tmp>>

(* The next value has nothing of this one. *)
Forget ==
  /\ phase \in {"done", "null"}
  /\ phase' = "idle"
  /\ type' = "bool"
  /\ value' = {}
  /\ bytes' = <<>>
  /\ i' = 0
  /\ tmp' = {}

Next ==
  \/ \E t \in Types : \E v \in Values(t) : Send(t, v)
  \/ ReadByte
  \/ ReadFixed
  \/ RunOut
  \/ Forget

Spec == Init /\ [][Next]_vars
-----------------------------------------------------------------------------
(***************************************************************************)
(* What a client packs is what the server reads, from as many bytes as the *)
(* client's get_packed_size counted for it; and a value the datagram cuts  *)
(* short is not read at all.                                               *)
(***************************************************************************)
ReadsBack ==
  /\ phase = "done" =>
       /\ ValueOf(type, tmp) = value
       /\ i = SizeOf(type, value)
       /\ i = Len(bytes)
  /\ phase = "null" => Len(bytes) < SizeOf(type, value)

(* A reader that does not know the field, whatever its type, skips exactly  *)
(* what was packed of it and stops at the end of the datagram: it stays in  *)
(* step with the fields that follow.                                        *)
SkipsWhatItReads ==
  LET wire == CASE type = "fixed32" -> {0, 2} [] type = "fixed64" -> {0}
                [] type \notin Fixed -> {}
      field == <<wire \union {7}, {3}>> \o bytes
  IN  phase = "done" =>
        /\ skip_field(field \o <<{1}>>) = Len(field)
        /\ skip_field(SubSeq(field, 1, Len(field) - 1)) = 0
=============================================================================
