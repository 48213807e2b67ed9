---------------------------- MODULE RequestUnpack ----------------------------
(***************************************************************************)
(* What a worker does with one datagram (worker.cc): unpack it into a tree *)
(* of requests (pinba__request__unpack), add every well-formed request of  *)
(* the tree to the reports, free the tree.  A sequential program, with an  *)
(* allocation or a malformed byte that may fail at any point of it.        *)
(*                                                                         *)
(* Data.  A message (Pinba__Request) is named by the order in which it was *)
(* allocated, 1 being the outermost.  Bytes are counted in fields: buffer  *)
(* is how many were read, buffer_end how many there will have been when a  *)
(* call is done.  An element of a repeated field is such a field, whether  *)
(* sent on its own or among others in a packed one: the same code reads    *)
(* both.  Values are abstracted, and so are the optional fields.           *)
(*                                                                         *)
(* A heap block is <<m, a, c>>: the array of field a of message m with     *)
(* room for c elements; or <<m, "message", 1>>, the message itself.  An    *)
(* array only grows, so a block is never named twice for one message.      *)
(***************************************************************************)
EXTENDS Integers, Sequences, SequencesExt

CONSTANTS
  Arrays,      (* the repeated fields, without the nested requests *)
  Required,    (* the required fields *)
  FirstBlock,  (* the elements an array has room for at first: 8 *)
  Size,        (* bound on the fields in a datagram *)
  MaxDepth     (* bound on the nesting of requests *)

ASSUME SizeAssumption == Size \in Nat \ {0}
ASSUME MaxDepthAssumption == MaxDepth \in Nat
ASSUME ArraysAssumption == Arrays \intersect {"requests", "message"} = {}

Messages == 1 .. Size + 1
Fields == Arrays \union {"requests"}

VARIABLES
  phase,    (* "idle": in recv; "decode", "unwind", "count": what is going on *)
  stack,    (* the calls of unpack_merge: message and buffer_end, inner last *)
  buffer,   (* how many fields were read; every call starts where it is *)
  made,     (* how many messages were allocated *)
  seen,     (* per message: required_fields *)
  elems,    (* per message and array: the n_... elements in it *)
  room,     (* per message and field: the elements its block has room for *)
  subs,     (* per message: its requests, n_requests of them *)
  heap,     (* the blocks allocated and not freed *)
  todo,     (* add_request_to_reports: the requests still to visit, in order *)
  counted   (* the requests added to the reports, in order *)

tree == <<made, seen, elems, room, subs>>
vars == <<phase, stack, buffer, tree, heap, todo, counted>>

Init ==
  /\ phase = "idle"
  /\ stack = <<>>
  /\ buffer = 0
  /\ made = 0
  /\ seen = [m \in Messages |-> {}]
  /\ elems = [m \in Messages |-> [a \in Arrays |-> 0]]
  /\ room = [m \in Messages |-> [a \in Fields |-> 0]]
  /\ subs = [m \in Messages |-> <<>>]
  /\ heap = {}
  /\ todo = <<>>
  /\ counted = <<>>
-----------------------------------------------------------------------------
(* The messages that free_unpacked visits when called on message m: the     *)
(* least set that has m and, with a message, those in it.                   *)
IsClosed(S) == \A n \in S : Range(subs[n]) \subseteq S

Tree(m) ==
  LET closed == {S \in SUBSET Messages : m \in S /\ IsClosed(S)}
  IN  {n \in Messages : \A S \in closed : n \in S}

(* The blocks that message m, or the tree below it, points to. *)
Blocks(m) ==
  {<<n, "message", 1>> : n \in Tree(m)}
    \union UNION {{<<n, a, room[n][a]>> : a \in {f \in Fields : room[n][f] > 0}} :
                    n \in Tree(m)}

Count(m, a) == IF a = "requests" THEN Len(subs[m]) ELSE elems[m][a]

(* ((n - 1) & n) == 0: by doubling, one comes from 1 to n; or n is 0.       *)
IsPowerOf2(n) ==
  \A S \in SUBSET (1 .. n) :
    1 \in S /\ (\A k \in S : 2 * k <= n => 2 * k \in S) => n \in S

ASSUME FirstBlockAssumption == FirstBlock \in Nat \ {0} /\ IsPowerOf2(FirstBlock)

(* Mutant: the test comes one element late. *)
IsFull_late(n) == n = 0 \/ (n > FirstBlock /\ IsPowerOf2(n))

(* ((n - 1) & n) == 0, and then n == 0 or n >= 8. *)
IsFull(n) == n = 0 \/ (n >= FirstBlock /\ IsPowerOf2(n))

NewRoom(n) == IF n = 0 THEN FirstBlock ELSE 2 * n

RoomFor(m, a) == IF IsFull(Count(m, a)) THEN NewRoom(Count(m, a)) ELSE room[m][a]

(* Mutant: the block grown out of is not freed. *)
Reserved_leak(m, a) == heap \union {<<m, a, RoomFor(m, a)>>}

(* The heap when one more element has room: the block that has it, or a     *)
(* first one, or a larger copy of the old one, which is freed.              *)
Reserved(m, a) ==
  (heap \ {<<m, a, room[m][a]>>}) \union {<<m, a, RoomFor(m, a)>>}
-----------------------------------------------------------------------------
(* recv returns n fields, and the outermost message is allocated. *)
Receive(n) ==
  /\ phase = "idle"
  /\ phase' = "decode"
  /\ stack' = <<[msg |-> 1, buffer_end |-> n]>>
  /\ buffer' = 0
  /\ made' = 1
  /\ heap' = {<<1, "message", 1>>}
  /\ UNCHANGED <<seen, elems, room, subs, todo, counted>>

Depth == Len(stack)
Top == stack[Depth].msg
Left == stack[Depth].buffer_end - buffer

(* while (buffer < buffer_end) *)
HasBytes == phase = "decode" /\ Left > 0

Advance == buffer' = buffer + 1 /\ UNCHANGED stack

ReadRequired(r) ==
  /\ HasBytes
  /\ seen' = [seen EXCEPT ![Top] = @ \union {r}]
  /\ Advance
  /\ UNCHANGED <<phase, made, elems, room, subs, heap, todo, counted>>

(* An unknown field, or an optional one. *)
SkipField ==
  /\ HasBytes
  /\ Advance
  /\ UNCHANGED <<phase, tree, heap, todo, counted>>

(* A field that goes beyond the buffer, or no block for an array that needs *)
(* one.                                                                     *)
Malformed ==
  /\ HasBytes
  /\ phase' = "unwind"
  /\ UNCHANGED <<stack, buffer, tree, heap, todo, counted>>

(* One more element.  It is malformed when room was made for it already, or *)
(* it is in the array when it turns out to go beyond its packed field.      *)
AppendElement(a) ==
  /\ HasBytes
  /\ room' = [room EXCEPT ![Top][a] = RoomFor(Top, a)]
  /\ heap' = Reserved(Top, a)
  /\ \/ /\ elems' = [elems EXCEPT ![Top][a] = @ + 1]
        /\ Advance
        /\ phase' \in {"decode", "unwind"}
     \/ /\ phase' = "unwind"
        /\ UNCHANGED <<stack, buffer, elems>>
  /\ UNCHANGED <<made, seen, subs, todo, counted>>

(* A nested request of n fields: another call of unpack_merge; or there is *)
(* room for its pointer, but no such length, or no block for the message.  *)
EnterRequest(n) ==
  /\ HasBytes
  /\ n < Left
  /\ Depth < MaxDepth
  /\ room' = [room EXCEPT ![Top]["requests"] = RoomFor(Top, "requests")]
  /\ \/ /\ made' = made + 1
        /\ heap' = Reserved(Top, "requests") \union {<<made + 1, "message", 1>>}
        /\ buffer' = buffer + 1
        /\ stack' = Append(stack, [msg |-> made + 1, buffer_end |-> buffer + 1 + n])
        /\ UNCHANGED phase
     \/ /\ heap' = Reserved(Top, "requests")
        /\ phase' = "unwind"
        /\ UNCHANGED <<stack, buffer, made>>
  /\ UNCHANGED <<seen, elems, subs, todo, counted>>
-----------------------------------------------------------------------------
(* Mutant: the fields nobody sent are not missed. *)
IsComplete_always == phase = "decode" /\ Left = 0

IsComplete == phase = "decode" /\ Left = 0 /\ seen[Top] = Required

IsIncomplete ==
  /\ phase = "decode"
  /\ Left = 0
  /\ seen[Top] # Required
  /\ phase' = "unwind"
  /\ UNCHANGED <<stack, buffer, tree, heap, todo, counted>>

(* A nested message enters the array of the one around it when it is done. *)
LeaveRequest ==
  /\ IsComplete
  /\ Depth > 1
  /\ subs' = [subs EXCEPT ![stack[Depth - 1].msg] = Append(@, Top)]
  /\ stack' = Front(stack)
  /\ UNCHANGED <<phase, buffer, made, seen, elems, room, heap, todo, counted>>

(* The worker starts add_request_to_reports on the outermost message. *)
Accept ==
  /\ IsComplete
  /\ Depth = 1
  /\ phase' = "count"
  /\ todo' = <<Top>>
  /\ stack' = <<>>
  /\ buffer' = 0
  /\ UNCHANGED <<tree, heap, counted>>

(* Nothing is left of the datagram but what is in the heap. *)
Forget ==
  /\ phase' = "idle"
  /\ stack' = <<>>
  /\ buffer' = 0
  /\ made' = 0
  /\ seen' = [m \in Messages |-> {}]
  /\ elems' = [m \in Messages |-> [a \in Arrays |-> 0]]
  /\ room' = [m \in Messages |-> [a \in Fields |-> 0]]
  /\ subs' = [m \in Messages |-> <<>>]
  /\ todo' = <<>>
  /\ counted' = <<>>

(* Mutant: the outermost call does not return, and tries again. *)
Unwind_again ==
  /\ phase = "unwind"
  /\ IF Depth = 1
     THEN /\ phase' = "decode"
          /\ UNCHANGED <<stack, buffer, tree, heap, todo, counted>>
     ELSE /\ heap' = heap \ Blocks(Top)
          /\ stack' = Front(stack)
          /\ UNCHANGED <<phase, buffer, tree, todo, counted>>

(* Each call frees its message, with all below it, and fails in its turn. *)
Unwind ==
  /\ phase = "unwind"
  /\ heap' = heap \ Blocks(Top)
  /\ IF Depth = 1
     THEN Forget
     ELSE /\ stack' = Front(stack)
          /\ UNCHANGED <<phase, buffer, tree, todo, counted>>
-----------------------------------------------------------------------------
(* request_check: the timers' arrays are of one length, so are the tags',   *)
(* and there is a dictionary for the words of either.                       *)
IsWellFormed(m) ==
  LET n(a) == IF a \in Arrays THEN elems[m][a] ELSE 0
  IN  /\ n("timer_hit_count") = n("timer_value")
      /\ n("timer_hit_count") = n("timer_tag_count")
      /\ n("tag_name") = n("tag_value")
      /\ n("dictionary") = 0 => n("timer_hit_count") = 0 /\ n("tag_name") = 0

(* Mutant: the requests in a request that is not well-formed are passed over. *)
Visit_pruned ==
  /\ phase = "count"
  /\ todo # <<>>
  /\ todo' = (IF IsWellFormed(Head(todo)) THEN subs[Head(todo)] ELSE <<>>) \o Tail(todo)
  /\ counted' = IF IsWellFormed(Head(todo)) THEN Append(counted, Head(todo)) ELSE counted
  /\ UNCHANGED <<phase, stack, buffer, tree, heap>>

(* add_request_to_reports: this request, then those in it, whether or not   *)
(* this one is well-formed.                                                 *)
Visit ==
  /\ phase = "count"
  /\ todo # <<>>
  /\ todo' = subs[Head(todo)] \o Tail(todo)
  /\ counted' = IF IsWellFormed(Head(todo)) THEN Append(counted, Head(todo)) ELSE counted
  /\ UNCHANGED <<phase, stack, buffer, tree, heap>>

(* pinba__request__free_unpacked, of the outermost message. *)
Free ==
  /\ phase = "count"
  /\ todo = <<>>
  /\ heap' = heap \ Blocks(1)
  /\ Forget

(* pinba__request__check, which nothing calls: of a message and of those    *)
(* below it, that an array with elements has a block.                       *)
pinba__request__check(m) ==
  \A n \in Tree(m), a \in Fields : Count(n, a) > 0 => room[n][a] > 0
-----------------------------------------------------------------------------
Decode ==
  \/ \E r \in Required : ReadRequired(r)
  \/ SkipField
  \/ Malformed
  \/ \E a \in Arrays : AppendElement(a)
  \/ \E n \in 0 .. Size : EnterRequest(n)
  \/ IsIncomplete
  \/ LeaveRequest
  \/ Accept
  \/ Unwind

Use == Visit \/ Free

Next == (\E n \in 1 .. Size : Receive(n)) \/ Decode \/ Use

Spec == Init /\ [][Next]_vars

(* The worker thread runs on; only recv waits for somebody else. *)
FairSpec == Spec /\ WF_vars(Decode \/ Use)
-----------------------------------------------------------------------------
(* The messages that will be freed: those of the calls that are not over,   *)
(* with all below them, and the whole tree when it was accepted.            *)
Live ==
  (UNION {Blocks(stack[i].msg) : i \in 1 .. Depth})
    \union (IF phase = "count" THEN Blocks(1) ELSE {})

(***************************************************************************)
(* What is in the heap is what will be freed, wherever an allocation or a  *)
(* byte fails: no block leaks, none is freed while it is pointed to, and   *)
(* between datagrams the heap is empty.  No message hangs below two others *)
(* or twice below one, nor below one while its own call runs: none is      *)
(* freed twice.                                                            *)
(***************************************************************************)
HeapIsExact ==
  /\ heap = Live
  /\ \A m, n \in Messages : \A i \in DOMAIN subs[m], j \in DOMAIN subs[n] :
       subs[m][i] = subs[n][j] => m = n /\ i = j
  /\ \A m \in Messages, j \in 1 .. Depth : stack[j].msg \notin Range(subs[m])

(***************************************************************************)
(* An array never holds more elements than its block has room for; so the  *)
(* program's own check finds nothing to object to, in a message that is    *)
(* still being decoded either.                                             *)
(***************************************************************************)
ElementsHaveRoom ==
  /\ \A m \in Messages, a \in Fields : Count(m, a) <= room[m][a]
  /\ \A m \in 1 .. made : pinba__request__check(m)

(* Every request of an accepted tree, not just the outermost one, has all   *)
(* the required fields: the server name that reports count under is set.    *)
AcceptedIsComplete ==
  phase = "count" => \A m \in Tree(1) : seen[m] = Required

(* When the tree is freed each well-formed request in it was counted, once, *)
(* and no other was.                                                        *)
EachCountedOnce ==
  phase = "count" /\ todo = <<>> =>
    /\ IsInjective(counted)
    /\ Range(counted) = {m \in Tree(1) : IsWellFormed(m)}

(* Whatever the datagram is, the worker gets back to recv. *)
BackToRecv == phase # "idle" ~> phase = "idle"
=============================================================================
