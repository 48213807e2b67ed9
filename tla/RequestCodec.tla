----------------------------- MODULE RequestCodec -----------------------------
(***************************************************************************)
(* How a client writes the datagram of a request (pinba.pb-c.c), in either *)
(* of two ways: pinba__request__pack writes into a buffer of the size that *)
(* pinba__request__get_packed_size counted; pinba__request__pack_to_buffer *)
(* appends to a buffer that grows.  A nested request comes after its own   *)
(* length: `pack' leaves one byte for it and moves what was written when   *)
(* that is not enough, `pack_to_buffer' writes the request into a buffer   *)
(* of its own first.                                                       *)
(*                                                                         *)
(* The fields have the literal tags and tag sizes of the generated code;   *)
(* the descriptor gives the number, the label and the type of each, from   *)
(* which the tag must follow.  A message maps the number of each field to  *)
(* the sequence of its values: a word for a number or a float, bytes for a *)
(* string, a message.  Bytes are real: lengths decide what happens.        *)
(*                                                                         *)
(* The server reads what `pack' wrote (pinba__request__unpack_merge); what *)
(* it makes of other bytes is modelled in RequestUnpack.                   *)
(***************************************************************************)
EXTENDS WireFormat, SequencesExt

CONSTANTS
  Messages,    (* the requests a client sends, and those nested in them *)
  Nesting,     (* how deep requests are nested in each of them *)
  Scratch,     (* simple_buffer_scratch, and the caller's array of bytes *)
  MayFail      (* whether malloc may fail *)

(* pinba__request__field_descriptors: name, label and type; the number is   *)
(* the place.                                                               *)
Descriptor ==
  <<<<"hostname", "required", "string">>,
    <<"server_name", "required", "string">>,
    <<"script_name", "required", "string">>,
    <<"request_count", "required", "uint32">>,
    <<"document_size", "required", "uint32">>,
    <<"memory_peak", "required", "uint32">>,
    <<"request_time", "required", "float">>,
    <<"ru_utime", "required", "float">>,
    <<"ru_stime", "required", "float">>,
    <<"timer_hit_count", "repeated", "uint32">>,
    <<"timer_value", "repeated", "float">>,
    <<"timer_tag_count", "repeated", "uint32">>,
    <<"timer_tag_name", "repeated", "uint32">>,
    <<"timer_tag_value", "repeated", "uint32">>,
    <<"dictionary", "repeated", "string">>,
    <<"status", "optional", "uint32">>,
    <<"memory_footprint", "optional", "uint32">>,
    <<"requests", "repeated", "message">>,
    <<"schema", "optional", "string">>,
    <<"tag_name", "repeated", "uint32">>,
    <<"tag_value", "repeated", "uint32">>,
    <<"timer_ru_utime", "repeated", "float">>,
    <<"timer_ru_stime", "repeated", "float">>>>

Fields == DOMAIN Descriptor
Label(f) == Descriptor[f][2]
Type(f) == Descriptor[f][3]

(* *p++ = '\xa', and so on: the first byte of each tag. *)
TagBytes ==
  <<10, 18, 26, 32, 40, 48, 61, 69, 77, 80, 93, 96, 104, 112, 122,
    128, 136, 146, 154, 160, 168, 181, 189>>

(* hostname__tag_size, and so on; a second byte of a tag is 1. *)
TagSize(f) == IF f < 16 THEN 1 ELSE 2
Tag(f) == IF TagSize(f) = 1 THEN <<Word(TagBytes[f])>> ELSE <<Word(TagBytes[f]), {0}>>

Pack(f, v) ==
  CASE Type(f) = "uint32" -> uint32_pack(v)
    [] Type(f) = "float" -> fixed_pack(v, 4)
    [] Type(f) = "string" -> delimited_pack(v)

(* sizeof the array of each string: the message keeps one byte for the NUL. *)
ArraySize(f) == CASE f \in {1, 2} -> 33 [] f = 3 -> 129 [] f = 15 -> 65 [] f = 19 -> 17

ValuesOf(f) ==
  CASE Type(f) \in {"uint32", "float"} -> SUBSET (0 .. 31)
    [] Type(f) = "string" -> {v \in Seq(SUBSET (0 .. 7)) : Len(v) < ArraySize(f)}
    [] Type(f) = "message" -> Messages

(* What the structure of a request can hold; the schema is always there, if  *)
(* only as an empty string.                                                 *)
ASSUME MessagesAssumption ==
  \A m \in Messages :
    /\ m = [f \in Fields |-> m[f]]
    /\ \A f \in Fields :
         /\ m[f] \in Seq(ValuesOf(f))
         /\ Label(f) = "required" \/ f = 19 => Len(m[f]) = 1
         /\ Label(f) = "optional" => Len(m[f]) <= 1

ASSUME NestingAssumption ==
  /\ Nesting \in [Messages -> Nat]
  /\ \A m \in Messages : \A e \in DOMAIN m[18] : Nesting[m[18][e]] < Nesting[m]

ASSUME ScratchAssumption == Scratch \in Nat \ {0}
-----------------------------------------------------------------------------
(* How far a request is written: to a number of values of a field of it.    *)
Places == Messages \X Fields \X Nat
All(m) == <<m, 23, Len(m[23])>>

(* pinba__request__get_packed_size: how many bytes it takes up to there.    *)
ValueSize(f, v) ==
  CASE Type(f) = "uint32" -> uint32_size(v)
    [] Type(f) = "float" -> 4
    [] Type(f) = "string" -> delimited_size(Len(v))

Counted[p \in Places] ==
  LET m == p[1]
      f == p[2]
      e == p[3]
  IN  IF e \in DOMAIN m[f]
      THEN Counted[<<m, f, e - 1>>] + TagSize(f)
             + (IF Type(f) = "message"
                THEN delimited_size(Counted[All(m[f][e])])
                ELSE ValueSize(f, m[f][e]))
      ELSE IF f = 1 THEN 0 ELSE Counted[<<m, f - 1, Len(m[f - 1])>>]

get_packed_size(m) == Counted[All(m)]

(* The requests fit in a datagram: the server receives no more of one. *)
PINBA_UDP_BUFFER_SIZE == 65536

ASSUME SizeAssumption ==
  \A m \in Messages : get_packed_size(m) <= PINBA_UDP_BUFFER_SIZE

(* What these bytes are, according to the descriptor: the number and the    *)
(* wire type of the field, before each of its values.                       *)
WireType(f) == CASE Type(f) = "uint32" -> 0 [] Type(f) = "float" -> 5
                 [] Type(f) \in {"string", "message"} -> 2

Meant[p \in Places] ==
  LET m == p[1]
      f == p[2]
      e == p[3]
  IN  IF e \in DOMAIN m[f]
      THEN Meant[<<m, f, e - 1>>]
             \o (uint32_pack(Word(8 * f + WireType(f)))
             \o (IF Type(f) = "message"
                 THEN delimited_pack(Meant[All(m[f][e])])
                 ELSE Pack(f, m[f][e])))
      ELSE IF f = 1 THEN <<>> ELSE Meant[<<m, f - 1, Len(m[f - 1])>>]

Encoding(m) == Meant[All(m)]
-----------------------------------------------------------------------------
VARIABLES
  how,      (* "idle"; "pack", "append": which way the request is written;
               "read": the server reads it *)
  message,  (* the request that is written *)
  stack,    (* the calls: for each its request, and how far it is; inner last *)
  out,      (* what `pack' has written *)
  heap,     (* the blocks malloc gave that are not freed, by call and size *)
  failed    (* whether malloc gave NULL *)

codec_vars == <<how, message, stack, out, heap, failed>>

CodecInit ==
  /\ how = "idle"
  /\ message = <<>>
  /\ stack = <<>>
  /\ out = <<>>
  /\ heap = {}
  /\ failed = FALSE

Depth == Len(stack)
Top == stack[Depth]

(* PROTOBUF_C_BUFFER_SIMPLE_INIT *)
SimpleBuffer == [data |-> <<>>, alloced |-> Scratch, must_free_data |-> FALSE]

pinba__request__init == [f \in Fields |-> IF f = 19 THEN <<<<>>>> ELSE <<>>]

(* A call of `pack': it is at a field, some values of which are written;    *)
(* and the place of the byte left for its length.                           *)
PackCall(m, at) == [message |-> m, field |-> 1, index |-> 0, varint_length_p |-> at]

(* What is appended next, and the block that is freed when it was.  A        *)
(* string is appended after its length.                                     *)
Bytes(s) == [data |-> s, block |-> {}]

Pieces(f, v) ==
  IF Type(f) = "string"
  THEN <<Bytes(Tag(f) \o uint32_pack(Word(Len(v)))), Bytes(v)>>
  ELSE <<Bytes(Tag(f) \o Pack(f, v))>>

(* A call of `pack_to_buffer', and the bytes it has passed on. *)
AppendCall(m) ==
  [message |-> m, field |-> 1, index |-> 0, pieces |-> <<>>, buffer |-> SimpleBuffer, sz |-> 0]

Start(m) ==
  /\ how = "idle"
  /\ how' \in {"pack", "append"}
  /\ message' = m
  /\ stack' = IF how' = "pack" THEN <<PackCall(m, 0)>> ELSE <<AppendCall(m)>>
  /\ UNCHANGED <<out, heap, failed>>

EndCall ==
  /\ how' = "idle"
  /\ message' = <<>>
  /\ stack' = <<>>
  /\ out' = <<>>
  /\ failed' = FALSE

(* The next value of the field the call is at, if there is one. *)
FieldValues == Top.message[Top.field]
HasValue == Top.index < Len(FieldValues)
Value == FieldValues[Top.index + 1]
Done(call) == [call EXCEPT !.index = @ + 1]

(* Nothing is left to write, nor to pass on to the buffer. *)
Returns == ~HasValue /\ Top.field = 23 /\ (how = "append" => Top.pieces = <<>>)

NextField ==
  /\ how \in {"pack", "append"}
  /\ how = "append" => Top.pieces = <<>>
  /\ ~HasValue
  /\ Top.field < 23
  /\ stack' = [stack EXCEPT ![Depth].field = @ + 1, ![Depth].index = 0]
  /\ UNCHANGED <<how, message, out, heap, failed>>
-----------------------------------------------------------------------------
PackValue ==
  /\ how = "pack"
  /\ HasValue
  /\ Type(Top.field) # "message"
  /\ out' = out \o Tag(Top.field) \o Pack(Top.field, Value)
  /\ stack' = [stack EXCEPT ![Depth] = Done(@)]
  /\ UNCHANGED <<how, message, heap, failed>>

(* reserved_length = 1; p++ *)
PackRequest ==
  /\ how = "pack"
  /\ HasValue
  /\ Type(Top.field) = "message"
  /\ out' = out \o Tag(Top.field) \o <<{}>>
  /\ stack' = Append([stack EXCEPT ![Depth] = Done(@)],
                     PackCall(Value, Len(out')))
  /\ UNCHANGED <<how, message, heap, failed>>

(* The nested call returns: what it wrote moves up when its length takes    *)
(* more than the byte left for it, and the length goes in front of it.      *)
PackLength ==
  /\ how = "pack"
  /\ Depth > 1
  /\ Returns
  /\ LET at == Top.varint_length_p
     IN  out' = SubSeq(out, 1, at - 1)
                  \o uint32_pack(Word(Len(out) - at))
                  \o SubSeq(out, at + 1, Len(out))
  /\ stack' = Front(stack)
  /\ UNCHANGED <<how, message, heap, failed>>

(* The bytes are sent, and the server reads them. *)
ReadCall(at, end) == [message |-> pinba__request__init, buffer |-> at, buffer_end |-> end]

PackReturns ==
  /\ how = "pack"
  /\ Depth = 1
  /\ Returns
  /\ how' = "read"
  /\ stack' = <<ReadCall(0, Len(out))>>
  /\ UNCHANGED <<message, out, heap, failed>>
-----------------------------------------------------------------------------
(* protobuf_c_buffer_simple_append: a buffer twice as large, or larger yet, *)
(* when there is no room; nothing at all when there is no such buffer.      *)
NewAlloced(b, new_len) ==
  LET grown[n \in Nat \ {0}] == IF n < new_len THEN grown[n + n] ELSE n
  IN  grown[2 * b.alloced]

HasRoom(b, data) == Len(b.data) + Len(data) <= b.alloced

(* Mutant: the new buffer is twice the old one, whatever is to go in. *)
Grown_twice(b, data) ==
  IF HasRoom(b, data)
  THEN [b EXCEPT !.data = @ \o data]
  ELSE [data |-> b.data \o data,
        alloced |-> 2 * b.alloced,
        must_free_data |-> TRUE]

Grown(b, data) ==
  IF HasRoom(b, data)
  THEN [b EXCEPT !.data = @ \o data]
  ELSE [data |-> b.data \o data,
        alloced |-> NewAlloced(b, Len(b.data) + Len(data)),
        must_free_data |-> TRUE]

(* The block of the buffer of call k, which is named by its size: {} for    *)
(* the array it starts with.                                                *)
Block(k, b) == IF b.must_free_data THEN {<<k, b.alloced>>} ELSE {}

(* Mutant: the block grown out of is not freed. *)
Regrown_leak(k, b, data) == heap \union Block(k, Grown(b, data))

Regrown(k, b, data) == (heap \ Block(k, b)) \union Block(k, Grown(b, data))

(* The tag and the value, or the length of a string, in `scratch'. *)
AppendValue ==
  /\ how = "append"
  /\ Top.pieces = <<>>
  /\ HasValue
  /\ Type(Top.field) # "message"
  /\ stack' = [stack EXCEPT ![Depth] = [Done(@) EXCEPT !.pieces = Pieces(Top.field, Value)]]
  /\ UNCHANGED <<how, message, out, heap, failed>>

Piece == Head(Top.pieces)

(* The call when its first piece was passed on, to a buffer that is now b. *)
Passed(call, b) ==
  [call EXCEPT !.pieces = Tail(@), !.buffer = b, !.sz = @ + Len(Head(call.pieces).data)]

(* buffer->append; then PROTOBUF_C_BUFFER_SIMPLE_CLEAR when the bytes were   *)
(* those of a nested request.                                               *)
AppendBytes ==
  /\ how = "append"
  /\ Top.pieces # <<>>
  /\ stack' = [stack EXCEPT ![Depth] = Passed(@, Grown(Top.buffer, Piece.data))]
  /\ heap' = Regrown(Depth, Top.buffer, Piece.data) \ Piece.block
  /\ UNCHANGED <<how, message, out, failed>>

(* malloc fails in `append', which returns as if it had not. *)
LoseBytes ==
  /\ how = "append"
  /\ MayFail
  /\ Top.pieces # <<>>
  /\ ~HasRoom(Top.buffer, Piece.data)
  /\ stack' = [stack EXCEPT ![Depth] = Passed(@, Top.buffer)]
  /\ heap' = heap \ Piece.block
  /\ failed' = TRUE
  /\ UNCHANGED <<how, message, out>>

AppendRequest ==
  /\ how = "append"
  /\ Top.pieces = <<>>
  /\ HasValue
  /\ Type(Top.field) = "message"
  /\ stack' = Append([stack EXCEPT ![Depth] = Done(@)], AppendCall(Value))
  /\ UNCHANGED <<how, message, out, heap, failed>>

(* What is in memory after the bytes that were appended: anything. *)
Junk == {8}

(* The nested call returns the number of bytes it has passed on, and as     *)
(* many are taken from its buffer.                                          *)
AppendLength ==
  /\ how = "append"
  /\ Depth > 1
  /\ Returns
  /\ LET b == Top.buffer
         data == [k \in 1 .. Top.sz |-> IF k <= Len(b.data) THEN b.data[k] ELSE Junk]
         pieces == <<Bytes(Tag(18) \o uint32_pack(Word(Top.sz))),
                     [data |-> data, block |-> Block(Depth, b)]>>
     IN  stack' = [Front(stack) EXCEPT ![Depth - 1].pieces = pieces]
  /\ UNCHANGED <<how, message, out, heap, failed>>

(* The caller sends what is in its buffer, and clears it. *)
AppendReturns ==
  /\ how = "append"
  /\ Depth = 1
  /\ Returns
  /\ heap' = heap \ Block(1, Top.buffer)
  /\ EndCall

-----------------------------------------------------------------------------
(* pinba__request__unpack_merge: the value of field f at the start of s, and *)
(* the bytes it takes; a string is cut to what its array holds.              *)
LENGTH_LIMIT(f, length) == Min({length, ArraySize(f) - 1})

ReadUint32(s) == UNION {Shl(s[k] \intersect 0 .. 6, 7 * k - 7, 32) : k \in 1 .. skip_varint(s)}

ReadValue(f, s) ==
  LET n == skip_varint(s)
      length == Number(ReadUint32(s))
  IN  CASE Type(f) = "uint32" -> [v |-> ReadUint32(s), used |-> n]
        [] Type(f) = "float" -> [v |-> UNION {Shl(s[k], 8 * k - 8, 32) : k \in 1 .. 4}, used |-> 4]
        [] Type(f) = "string" -> [v |-> SubSeq(s, n + 1, n + LENGTH_LIMIT(f, length)), used |-> n + length]

(* Mutant: a field sent again takes the place of the first one. *)
Stored_last(m, f, v) == [m EXCEPT ![f] = <<v>>]

Stored(m, f, v) == [m EXCEPT ![f] = IF Label(f) = "repeated" THEN Append(@, v) ELSE <<v>>]

Unread == SubSeq(out, Top.buffer + 1, Top.buffer_end)

(* What comes after the tag of field f. *)
Behind(f) == SubSeq(Unread, TagSize(f) + 1, Len(Unread))

ReadField(f) ==
  /\ how = "read"
  /\ IsPrefix(Tag(f), Unread)
  /\ Type(f) # "message"
  /\ LET read == ReadValue(f, Behind(f))
     IN  stack' = [stack EXCEPT ![Depth].message = Stored(@, f, read.v),
                                ![Depth].buffer = @ + TagSize(f) + read.used]
  /\ UNCHANGED <<how, message, out, heap, failed>>

(* The caller goes on after the nested request. *)
ReadRequest(f) ==
  /\ how = "read"
  /\ IsPrefix(Tag(f), Unread)
  /\ Type(f) = "message"
  /\ LET first == Top.buffer + TagSize(f) + skip_varint(Behind(f))
         end == first + Number(ReadUint32(Behind(f)))
     IN  stack' = Append([stack EXCEPT ![Depth].buffer = end], ReadCall(first, end))
  /\ UNCHANGED <<how, message, out, heap, failed>>

HasRead == how = "read" /\ Top.buffer = Top.buffer_end

ReadNested ==
  /\ HasRead
  /\ Depth > 1
  /\ stack' = [Front(stack) EXCEPT ![Depth - 1].message = Stored(@, 18, Top.message)]
  /\ UNCHANGED <<how, message, out, heap, failed>>

ReadReturns ==
  /\ HasRead
  /\ Depth = 1
  /\ EndCall
  /\ UNCHANGED heap
-----------------------------------------------------------------------------
CodecNext ==
  \/ \E m \in Messages : Start(m)
  \/ NextField
  \/ PackValue \/ PackRequest \/ PackLength \/ PackReturns
  \/ AppendValue \/ AppendBytes \/ LoseBytes \/ AppendRequest
  \/ AppendLength \/ AppendReturns
  \/ \E f \in Fields : ReadField(f) \/ ReadRequest(f)
  \/ ReadNested \/ ReadReturns

CodecSpec == CodecInit /\ [][CodecNext]_codec_vars
-----------------------------------------------------------------------------
(* The blocks that call k has to free: that of its own buffer, and that of  *)
(* the nested request whose bytes it has still to take.                     *)
Owned(k) ==
  Block(k, stack[k].buffer)
    \union UNION {stack[k].pieces[j].block : j \in DOMAIN stack[k].pieces}

(***************************************************************************)
(* Every block of a buffer that grew is freed, once, whichever malloc      *)
(* fails: what is in the heap is what the calls still have to free.        *)
(***************************************************************************)
NoBlockLeaks == heap = IF how = "append" THEN UNION {Owned(k) : k \in 1 .. Depth} ELSE {}

IsWritten == how \in {"pack", "append"} /\ Depth = 1 /\ Returns

(***************************************************************************)
(* Both ways write the same bytes, those the descriptor says.  `pack' does *)
(* not write beyond the size that get_packed_size counted, not even where  *)
(* the length of a nested request takes more bytes than were left for it.  *)
(* `pack_to_buffer' does not write beyond its buffer; when a block is      *)
(* missing the caller is told the same size as ever, and finds less than   *)
(* that, or as much with something in it that nobody wrote.                *)
(***************************************************************************)
BothWaysAgree ==
  /\ how = "pack" =>
       /\ Len(out) <= get_packed_size(message)
       /\ IsWritten => Len(out) = get_packed_size(message) /\ out = Encoding(message)
  /\ how = "append" =>
       /\ Len(Top.buffer.data) <= Top.buffer.alloced
       /\ IsWritten =>
            /\ Top.sz = get_packed_size(message)
            /\ Len(Top.buffer.data) <= Top.sz
            /\ ~failed <=> Top.buffer.data = Encoding(message)

(***************************************************************************)
(* The server reads the request that the client wrote: every field in the  *)
(* one the client meant, with every value, in every nested request.        *)
(***************************************************************************)
ServerReadsIt == HasRead /\ Depth = 1 => Top.message = message
=============================================================================
