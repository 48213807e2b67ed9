------------------------- MODULE RequestUnpackProofs -------------------------
(***************************************************************************)
(* Proofs about RequestUnpack, for a datagram of any size and any nesting. *)
(***************************************************************************)
EXTENDS RequestUnpack, SequenceTheorems, TLAPS

-----------------------------------------------------------------------------
(* Forests.  kids gives for each message the set of those in it; Below is   *)
(* Tree for such a function.                                                *)
Forests == [Messages -> SUBSET Messages]

IsClosedIn(kids, S) == \A n \in S : kids[n] \subseteq S

Below(kids, m) ==
  {n \in Messages : \A S \in SUBSET Messages : m \in S /\ IsClosedIn(kids, S) => n \in S}

HasOneParent(kids) ==
  \A m, n \in Messages : \A c \in Messages : c \in kids[m] /\ c \in kids[n] => m = n

IsRising(kids) == \A m \in Messages : \A c \in kids[m] : m < c

LEMMA BelowIsClosed ==
  ASSUME NEW kids \in Forests, NEW m \in Messages
  PROVE  /\ m \in Below(kids, m)
         /\ Below(kids, m) \subseteq Messages
         /\ IsClosedIn(kids, Below(kids, m))
<1>1. m \in Below(kids, m) /\ Below(kids, m) \subseteq Messages
  BY DEF Below
<1>2. ASSUME NEW n \in Below(kids, m), NEW c \in kids[n]
      PROVE  c \in Below(kids, m)
  <2>1. n \in Messages /\ c \in Messages
    BY DEF Below, Forests
  <2>2. ASSUME NEW S \in SUBSET Messages, m \in S, IsClosedIn(kids, S)
        PROVE  c \in S
    BY <2>2 DEF Below, IsClosedIn
  <2> QED BY <2>1, <2>2 DEF Below
<1> QED BY <1>1, <1>2 DEF IsClosedIn

LEMMA BelowIsLeast ==
  ASSUME NEW kids, NEW m, NEW S \in SUBSET Messages, m \in S, IsClosedIn(kids, S)
  PROVE  Below(kids, m) \subseteq S
BY DEF Below

(* What is below m, but for m itself, has its parent there. *)
LEMMA ParentBelow ==
  ASSUME NEW kids \in Forests, HasOneParent(kids), NEW m \in Messages,
         NEW p \in Messages, NEW d \in Below(kids, m), d # m, d \in kids[p]
  PROVE  p \in Below(kids, m)
<1> SUFFICES ASSUME p \notin Below(kids, m) PROVE FALSE
  OBVIOUS
<1> DEFINE S == Below(kids, m) \ {d}
<1>1. S \in SUBSET Messages /\ m \in S
  BY BelowIsClosed
<1>2. ASSUME NEW n \in S, NEW c \in kids[n] PROVE c \in S
  <2>1. c \in Below(kids, m)
    BY <1>2, BelowIsClosed DEF IsClosedIn
  <2>2. n \in Messages /\ n # p
    BY <1>1
  <2>3. c # d
    <3>1. c \in Messages /\ c \in kids[n]
      BY <1>2, <2>1, BelowIsClosed
    <3>2. c \in kids[p] => n = p
      BY <2>2, <3>1 DEF HasOneParent
    <3> QED BY <2>2, <3>2
  <2> QED BY <2>1, <2>3
<1>3. IsClosedIn(kids, S)
  BY <1>2 DEF IsClosedIn
<1>4. Below(kids, m) \subseteq S
  BY <1>1, <1>3, BelowIsLeast
<1> QED BY <1>4

(* A message that is in no other is below no other. *)
LEMMA RootBelowNone ==
  ASSUME NEW kids \in Forests, NEW m \in Messages, NEW r \in Messages, r # m,
         \A n \in Messages : r \notin kids[n]
  PROVE  r \notin Below(kids, m)
<1> DEFINE S == Messages \ {r}
<1>1. S \in SUBSET Messages /\ m \in S
  OBVIOUS
<1>2. ASSUME NEW n \in S PROVE kids[n] \subseteq S
  <2>1. kids[n] \subseteq Messages /\ r \notin kids[n]
    BY DEF Forests
  <2> QED BY <2>1
<1>3. IsClosedIn(kids, S)
  BY <1>2 DEF IsClosedIn
<1>4. Below(kids, m) \subseteq S
  BY <1>1, <1>3, BelowIsLeast
<1> QED BY <1>4

(* Two trees neither of which has the other's root are apart. *)
LEMMA TreesApart ==
  ASSUME NEW kids \in Forests, HasOneParent(kids), NEW m \in Messages, NEW n \in Messages,
         m \notin Below(kids, n), n \notin Below(kids, m)
  PROVE  Below(kids, m) \intersect Below(kids, n) = {}
<1> DEFINE S == Below(kids, m) \ Below(kids, n)
<1>1. S \in SUBSET Messages /\ m \in S
  BY BelowIsClosed
<1>2. ASSUME NEW q \in S, NEW c \in kids[q] PROVE c \in S
  <2>1. c \in Below(kids, m) /\ q \in Messages
    BY <1>1, <1>2, BelowIsClosed DEF IsClosedIn
  <2>2. c # n
    BY <2>1
  <2>3. c \notin Below(kids, n)
    BY <2>1, <2>2, ParentBelow
  <2> QED BY <2>1, <2>3
<1>3. IsClosedIn(kids, S)
  BY <1>2 DEF IsClosedIn
<1>4. Below(kids, m) \subseteq S
  BY <1>1, <1>3, BelowIsLeast
<1> QED BY <1>4

LEMMA BelowBelow ==
  ASSUME NEW kids \in Forests, NEW m \in Messages, NEW n \in Below(kids, m)
  PROVE  Below(kids, n) \subseteq Below(kids, m)
BY BelowIsClosed, BelowIsLeast

LEMMA BelowRises ==
  ASSUME NEW kids \in Forests, IsRising(kids), NEW m \in Messages, NEW n \in Below(kids, m)
  PROVE  m <= n
<1> DEFINE S == {q \in Messages : m <= q}
<1>1. S \in SUBSET Messages /\ m \in S
  BY SizeAssumption DEF Messages
<1>2. ASSUME NEW q \in S, NEW c \in kids[q] PROVE c \in S
  <2>1. c \in Messages /\ q \in Messages
    BY DEF Forests
  <2>2. m \in Int /\ q \in Int /\ c \in Int
    BY <2>1 DEF Messages
  <2>3. q < c
    BY <2>1 DEF IsRising
  <2> QED BY <2>1, <2>2, <2>3
<1>3. IsClosedIn(kids, S)
  BY <1>2 DEF IsClosedIn
<1>4. Below(kids, m) \subseteq S
  BY <1>1, <1>3, BelowIsLeast
<1> QED BY <1>4

(* A tree is its root and the trees of the messages in it, *)
LEMMA BelowUnfolds ==
  ASSUME NEW kids \in Forests, NEW m \in Messages
  PROVE  Below(kids, m) = {m} \union UNION {Below(kids, c) : c \in kids[m]}
<1> DEFINE S == {m} \union UNION {Below(kids, c) : c \in kids[m]}
<1>0. kids[m] \subseteq Messages
  BY DEF Forests
<1>1. S \in SUBSET Messages /\ m \in S
  BY <1>0, BelowIsClosed
<1>2. ASSUME NEW n \in S, NEW c \in kids[n] PROVE c \in S
  <2>1. CASE n = m
    BY <2>1, <1>0, <1>2, BelowIsClosed
  <2>2. CASE n # m
    <3>1. PICK d \in kids[m] : n \in Below(kids, d)
      BY <2>2
    <3>2. c \in Below(kids, d)
      BY <1>0, <1>2, <3>1, BelowIsClosed DEF IsClosedIn
    <3> QED BY <3>2
  <2> QED BY <2>1, <2>2
<1>3. IsClosedIn(kids, S)
  BY <1>2 DEF IsClosedIn
<1>4. Below(kids, m) \subseteq S
  BY <1>1, <1>3, BelowIsLeast
<1>5. ASSUME NEW c \in kids[m] PROVE Below(kids, c) \subseteq Below(kids, m)
  <2>1. c \in Below(kids, m)
    BY BelowIsClosed DEF IsClosedIn
  <2> QED BY <2>1, BelowBelow
<1>6. m \in Below(kids, m)
  BY BelowIsClosed
<1> QED BY <1>4, <1>5, <1>6

(* all of them apart. *)
LEMMA SiblingsApart ==
  ASSUME NEW kids \in Forests, HasOneParent(kids), IsRising(kids),
         NEW m \in Messages, NEW c \in kids[m], NEW d \in kids[m], c # d
  PROVE  /\ m \notin Below(kids, c)
         /\ Below(kids, c) \intersect Below(kids, d) = {}
<1>1. c \in Messages /\ d \in Messages
  BY DEF Forests
<1>2. m \notin Below(kids, c) /\ m \notin Below(kids, d)
  <2>1. m < c /\ m < d
    BY DEF IsRising
  <2>2. m \in Int /\ c \in Int /\ d \in Int
    BY <1>1 DEF Messages
  <2> QED BY <1>1, <2>1, <2>2, BelowRises
<1>3. c \notin Below(kids, d) /\ d \notin Below(kids, c)
  BY <1>1, <1>2, ParentBelow
<1> QED BY <1>1, <1>2, <1>3, TreesApart

(* A message t goes below p: the tree of p grows by that of t, and no tree   *)
(* changes that p is not in.                                                 *)
IsJoined(joined, kids, p, t) ==
  \A n \in Messages : joined[n] = IF n = p THEN kids[n] \union {t} ELSE kids[n]

LEMMA BelowJoined ==
  ASSUME NEW kids \in Forests, NEW p \in Messages, NEW t \in Messages,
         NEW joined \in Forests, IsJoined(joined, kids, p, t)
  PROVE  /\ Below(joined, p) = Below(kids, p) \union Below(kids, t)
         /\ \A m \in Messages :
              p \notin Below(kids, m) => Below(joined, m) = Below(kids, m)
<1>1. joined \in Forests
  OBVIOUS
<1>2. \A n \in Messages : joined[n] = IF n = p THEN kids[n] \union {t} ELSE kids[n]
  BY DEF IsJoined
<1>3. ASSUME NEW S \in SUBSET Messages, IsClosedIn(joined, S)
      PROVE  IsClosedIn(kids, S)
  BY <1>2, <1>3 DEF IsClosedIn
<1>4. ASSUME NEW m \in Messages, p \notin Below(kids, m)
      PROVE  Below(joined, m) = Below(kids, m)
  <2>1. IsClosedIn(joined, Below(kids, m))
    BY <1>2, <1>4, BelowIsClosed DEF IsClosedIn
  <2>2. Below(joined, m) \subseteq Below(kids, m)
    BY <2>1, BelowIsClosed, BelowIsLeast
  <2>3. IsClosedIn(kids, Below(joined, m))
    BY <1>1, <1>3, BelowIsClosed
  <2>4. Below(kids, m) \subseteq Below(joined, m)
    BY <1>1, <2>3, BelowIsClosed, BelowIsLeast
  <2> QED BY <2>2, <2>4
<1>5. Below(joined, p) = Below(kids, p) \union Below(kids, t)
  <2> DEFINE S == Below(kids, p) \union Below(kids, t)
  <2>1. S \in SUBSET Messages /\ p \in S /\ t \in S
    BY BelowIsClosed
  <2>2. IsClosedIn(kids, Below(kids, p)) /\ IsClosedIn(kids, Below(kids, t))
    BY BelowIsClosed
  <2>3. IsClosedIn(joined, S)
    BY <1>2, <2>1, <2>2 DEF IsClosedIn
  <2>4. Below(joined, p) \subseteq S
    BY <2>1, <2>3, BelowIsLeast
  <2>5. /\ p \in Below(joined, p)
        /\ Below(joined, p) \subseteq Messages
        /\ IsClosedIn(joined, Below(joined, p))
    BY <1>1, BelowIsClosed
  <2>6. t \in Below(joined, p)
    <3>1. t \in joined[p]
      BY <1>2
    <3> QED BY <3>1, <2>5 DEF IsClosedIn
  <2>7. IsClosedIn(kids, Below(joined, p))
    BY <1>3, <2>5
  <2>8. S \subseteq Below(joined, p)
    BY <2>5, <2>6, <2>7, BelowIsLeast
  <2> QED BY <2>4, <2>8
<1> QED BY <1>1, <1>4, <1>5
-----------------------------------------------------------------------------
(* The inductive invariant. *)
TypeOK ==
  /\ phase \in {"idle", "decode", "unwind", "count"}
  /\ stack \in Seq([msg : Messages, buffer_end : 0 .. Size])
  /\ buffer \in 0 .. Size
  /\ made \in 0 .. Size + 1
  /\ seen \in [Messages -> SUBSET Required]
  /\ elems \in [Messages -> [Arrays -> Nat]]
  /\ room \in [Messages -> [Fields -> Nat]]
  /\ subs \in [Messages -> Seq(Messages)]
  /\ todo \in Seq(Messages)
  /\ counted \in Seq(Messages)

(* Calls run while a datagram is decoded.  An inner one is on a later       *)
(* message, and ends no later.                                              *)
Calls ==
  /\ stack # <<>> <=> phase \in {"decode", "unwind"}
  /\ stack # <<>> => stack[1].msg = 1 /\ made <= buffer + 1
  /\ \A i \in 1 .. Depth : stack[i].msg <= made /\ buffer <= stack[i].buffer_end
  /\ \A i, j \in 1 .. Depth :
       i < j => stack[i].msg < stack[j].msg /\ stack[j].buffer_end <= stack[i].buffer_end

(* What is left of a datagram, and what of the accepted one. *)
Phases ==
  /\ phase = "idle" => made = 0
  /\ phase # "count" => todo = <<>> /\ counted = <<>>
  /\ phase = "count" => made >= 1

Kids == [m \in Messages |-> Range(subs[m])]

(* The messages whose calls run. *)
Msgs == {stack[i].msg : i \in 1 .. Depth}

(* A message hangs below an earlier one, and there once; no message does    *)
(* whose call runs.                                                         *)
Forest ==
  /\ \A m \in Messages : \A c \in Kids[m] : m < c /\ c <= made
  /\ \A m, n \in Messages : \A i \in DOMAIN subs[m], j \in DOMAIN subs[n] :
       subs[m][i] = subs[n][j] => m = n /\ i = j
  /\ \A m \in Messages : Kids[m] \intersect Msgs = {}

(* The blocks of one message; those with a tree still to free. *)
Owned(n) ==
  {<<n, "message", 1>>} \union {<<n, a, room[n][a]>> : a \in {f \in Fields : room[n][f] > 0}}

Roots == Msgs \union (IF phase = "count" THEN {1} ELSE {})
Kept == UNION {Below(Kids, r) : r \in Roots}

HeapIsOwned ==
  /\ heap = UNION {Owned(n) : n \in Kept}
  /\ \A m \in Messages, a \in Fields : m > made => room[m][a] = 0

(* A block has room for a first block, doubled some times; and for the      *)
(* nested request that a call is decoding.                                  *)
IsRoom(r) == r = 0 \/ (r >= FirstBlock /\ IsPowerOf2(r))

Rooms ==
  /\ \A m \in Messages, a \in Fields : Count(m, a) <= room[m][a] /\ IsRoom(room[m][a])
  /\ \A i \in 1 .. Depth - 1 :
       Len(subs[stack[i].msg]) < room[stack[i].msg]["requests"]

(* What was decoded to its end has its required fields. *)
Complete ==
  /\ \A m \in Messages : \A c \in Kids[m] : seen[c] = Required
  /\ phase = "count" => seen[1] = Required

(* What is still to visit are trees apart from each other, and of the rest  *)
(* each well-formed request was counted, once.                              *)
Visited == Below(Kids, 1) \ UNION {Below(Kids, todo[i]) : i \in DOMAIN todo}

Visiting ==
  phase = "count" =>
    /\ \A i \in DOMAIN todo : todo[i] \in Below(Kids, 1)
    /\ \A i, j \in DOMAIN todo :
         i # j => Below(Kids, todo[i]) \intersect Below(Kids, todo[j]) = {}
    /\ Range(counted) = {m \in Visited : IsWellFormed(m)}
    /\ IsInjective(counted)

IInv ==
  TypeOK /\ Calls /\ Phases /\ Forest /\ HeapIsOwned /\ Rooms /\ Complete /\ Visiting
-----------------------------------------------------------------------------
(* What the operators of the model return. *)
LEMMA CallTyping ==
  ASSUME TypeOK
  PROVE  /\ Depth \in Nat
         /\ \A i \in 1 .. Depth : stack[i].msg \in Messages /\ stack[i].buffer_end \in 0 .. Size
         /\ stack # <<>> => Depth \in 1 .. Depth /\ Top \in Messages /\ Left \in Int
<1>1. Depth \in Nat
  BY DEF TypeOK, Depth
<1>2. \A i \in 1 .. Depth : stack[i] \in [msg : Messages, buffer_end : 0 .. Size]
  BY ElementOfSeq DEF TypeOK, Depth
<1>3. stack # <<>> => Depth \in 1 .. Depth
  BY <1>1 DEF TypeOK, Depth
<1> QED BY <1>1, <1>2, <1>3, SizeAssumption DEF Top, Left, TypeOK

LEMMA RoomTyping ==
  ASSUME TypeOK, NEW m \in Messages, NEW a \in Fields
  PROVE  Count(m, a) \in Nat /\ RoomFor(m, a) \in Nat /\ room[m][a] \in Nat
<1>1. Count(m, a) \in Nat
  BY DEF TypeOK, Count, Fields
<1>2. room[m][a] \in Nat
  BY DEF TypeOK
<1> QED BY <1>1, <1>2, FirstBlockAssumption DEF RoomFor, NewRoom

LEMMA BytesLeft ==
  ASSUME TypeOK, Calls, HasBytes
  PROVE  /\ phase = "decode" /\ stack # <<>>
         /\ Depth \in 1 .. Depth /\ Top \in Messages
         /\ stack[Depth].buffer_end \in 0 .. Size
         /\ buffer < stack[Depth].buffer_end
         /\ buffer + 1 \in 0 .. Size
         /\ made \in 1 .. Size /\ Top <= made
<1>1. phase = "decode" /\ stack # <<>>
  BY DEF HasBytes, Calls
<1>2. /\ Depth \in 1 .. Depth /\ Top \in Messages /\ Left > 0
      /\ stack[Depth].buffer_end \in 0 .. Size /\ Top <= made
  BY <1>1, CallTyping DEF HasBytes, Calls, Top
<1>3. buffer \in Nat /\ made \in Nat /\ made <= buffer + 1 /\ Size \in Nat
  BY <1>1, SizeAssumption DEF TypeOK, Calls
<1>4. buffer < stack[Depth].buffer_end
  BY <1>2, <1>3 DEF Left
<1> QED BY <1>1, <1>2, <1>3, <1>4 DEF Messages

(* A sequence without its last element. *)
LEMMA FrontOf ==
  ASSUME NEW S, NEW s \in Seq(S), s # <<>>
  PROVE  /\ Front(s) \in Seq(S) /\ Len(Front(s)) = Len(s) - 1
         /\ \A i \in 1 .. Len(s) - 1 : Front(s)[i] = s[i]
         /\ Len(s) > 1 => Front(s) # <<>>
<1>1. Len(s) \in Nat /\ Len(s) >= 1 /\ \A i \in 1 .. Len(s) - 1 : s[i] \in S
  BY ElementOfSeq, LenProperties, EmptySeq
<1>2. /\ SubSeq(s, 1, Len(s) - 1) \in Seq(S)
      /\ Len(SubSeq(s, 1, Len(s) - 1)) = IF 1 <= Len(s) - 1 THEN Len(s) - 1 - 1 + 1 ELSE 0
      /\ \A i \in 1 .. Len(s) - 1 - 1 + 1 : SubSeq(s, 1, Len(s) - 1)[i] = s[1 + i - 1]
  BY <1>1, SubSeqProperties
<1>3. Front(s) \in Seq(S) /\ Len(Front(s)) = Len(s) - 1
  <2>1. Front(s) \in Seq(S)
    BY <1>2 DEF Front
  <2>2. Len(Front(s)) = IF 1 <= Len(s) - 1 THEN Len(s) - 1 - 1 + 1 ELSE 0
    BY <1>2 DEF Front
  <2>3. CASE Len(s) = 1
    BY <2>1, <2>2, <2>3
  <2>4. CASE Len(s) > 1
    BY <1>1, <2>1, <2>2, <2>4
  <2>5. \A n \in Nat : n >= 1 => n = 1 \/ n > 1
    OBVIOUS
  <2> QED BY <1>1, <2>3, <2>4, <2>5
<1>4. \A i \in 1 .. Len(s) - 1 : Front(s)[i] = s[i]
  BY <1>1, <1>2 DEF Front
<1>5. Len(s) > 1 => Front(s) # <<>>
  BY <1>1, <1>3, EmptySeq
<1> QED BY <1>3, <1>4, <1>5

LEMMA AppendKeepsInjective ==
  ASSUME NEW S, NEW s \in Seq(S), NEW e \in S, e \notin Range(s), IsInjective(s)
  PROVE  Range(Append(s, e)) = Range(s) \union {e} /\ IsInjective(Append(s, e))
<1> DEFINE t == Append(s, e)
<1>1. /\ t \in Seq(S) /\ Len(t) = Len(s) + 1
      /\ \A i \in 1 .. Len(s) : t[i] = s[i]
      /\ t[Len(s) + 1] = e
  BY AppendProperties
<1> HIDE DEF t
<1>2. Len(s) \in Nat /\ DOMAIN s = 1 .. Len(s) /\ DOMAIN t = 1 .. Len(s) + 1
  BY <1>1, LenProperties
<1>3. DOMAIN t = DOMAIN s \union {Len(s) + 1}
  BY <1>2
<1>4. \A i \in DOMAIN s : t[i] = s[i] /\ s[i] # e
  BY <1>1, <1>2 DEF Range
<1>5. Range(t) = Range(s) \union {e}
  BY <1>1, <1>3, <1>4 DEF Range
<1>6. IsInjective(t)
  BY <1>1, <1>3, <1>4 DEF IsInjective
<1> QED BY <1>5, <1>6 DEF t

(* The types hold, whatever the step. *)
LEMMA TypesInit == Init => TypeOK
BY SizeAssumption DEF Init, TypeOK, Messages, Fields

LEMMA TypesStep ==
  ASSUME TypeOK, Calls, [Next]_vars
  PROVE  TypeOK'
<1>1. ASSUME NEW n \in 1 .. Size, Receive(n) PROVE TypeOK'
  <2>1. /\ 1 \in Messages /\ 1 \in 0 .. Size + 1 /\ 0 \in 0 .. Size /\ n \in 0 .. Size
    BY SizeAssumption DEF Messages
  <2> QED BY <1>1, <2>1 DEF TypeOK, Receive
<1>2. ASSUME NEW r \in Required, ReadRequired(r) PROVE TypeOK'
  BY <1>2, BytesLeft DEF TypeOK, ReadRequired, Advance
<1>3. CASE SkipField
  BY <1>3, BytesLeft DEF TypeOK, SkipField, Advance, tree
<1>4. CASE Malformed \/ IsIncomplete
  BY <1>4 DEF TypeOK, Malformed, IsIncomplete, tree
<1>5. ASSUME NEW a \in Arrays, AppendElement(a) PROVE TypeOK'
  <2>1. /\ HasBytes /\ a \in Fields
        /\ room' = [room EXCEPT ![Top][a] = RoomFor(Top, a)]
        /\ UNCHANGED <<stack, made, seen, subs, todo, counted>>
        /\ phase' \in {"decode", "unwind"}
    BY <1>5 DEF AppendElement, Advance, Fields
  <2>2. Top \in Messages /\ RoomFor(Top, a) \in Nat
    BY <2>1, BytesLeft, RoomTyping
  <2>3. room' \in [Messages -> [Fields -> Nat]]
    BY <2>1, <2>2 DEF TypeOK
  <2>4. elems' \in [Messages -> [Arrays -> Nat]] /\ buffer' \in 0 .. Size
    <3>1. CASE elems' = [elems EXCEPT ![Top][a] = @ + 1] /\ Advance
      <4>1. buffer' \in 0 .. Size
        BY <2>1, <3>1, BytesLeft DEF Advance
      <4>2. elems[Top] \in [Arrays -> Nat]
        BY <2>2 DEF TypeOK
      <4> QED BY <2>2, <3>1, <4>1, <4>2 DEF TypeOK
    <3>2. CASE UNCHANGED <<stack, buffer, elems>>
      BY <3>2 DEF TypeOK
    <3> QED BY <1>5, <3>1, <3>2 DEF AppendElement
  <2> QED BY <2>1, <2>3, <2>4 DEF TypeOK
<1>6. ASSUME NEW n \in 0 .. Size, EnterRequest(n) PROVE TypeOK'
  <2>1. /\ HasBytes /\ "requests" \in Fields /\ n < Left
        /\ room' = [room EXCEPT ![Top]["requests"] = RoomFor(Top, "requests")]
        /\ UNCHANGED <<seen, elems, subs, todo, counted>>
        /\ phase' \in {"decode", "unwind"}
    BY <1>6, BytesLeft DEF EnterRequest, Fields
  <2>2. Top \in Messages /\ RoomFor(Top, "requests") \in Nat
    BY <2>1, BytesLeft, RoomTyping
  <2>3. room' \in [Messages -> [Fields -> Nat]]
    BY <2>1, <2>2 DEF TypeOK
  <2>4. CASE UNCHANGED <<stack, buffer, made>>
    BY <2>1, <2>3, <2>4 DEF TypeOK
  <2>5. CASE /\ made' = made + 1 /\ buffer' = buffer + 1
             /\ stack' = Append(stack, [msg |-> made + 1, buffer_end |-> buffer + 1 + n])
    <3>1. made + 1 \in Messages /\ buffer + 1 + n \in 0 .. Size
      <4>1. /\ buffer \in Nat /\ stack[Depth].buffer_end \in 0 .. Size
            /\ made \in 1 .. Size /\ Size \in Nat
        BY <2>1, BytesLeft, SizeAssumption DEF TypeOK
      <4> QED BY <2>1, <4>1 DEF Messages, Left
    <3>2. made' \in 0 .. Size + 1 /\ buffer' \in 0 .. Size
      BY <2>1, <2>5, BytesLeft, SizeAssumption DEF TypeOK
    <3>3. stack' \in Seq([msg : Messages, buffer_end : 0 .. Size])
      BY <2>5, <3>1 DEF TypeOK
    <3> QED BY <2>1, <2>3, <3>2, <3>3 DEF TypeOK
  <2> QED BY <1>6, <2>4, <2>5 DEF EnterRequest
<1>7. CASE LeaveRequest
  <2>1. /\ stack # <<>> /\ Depth > 1
        /\ stack' = Front(stack)
        /\ subs' = [subs EXCEPT ![stack[Depth - 1].msg] = Append(@, Top)]
        /\ UNCHANGED <<phase, buffer, made, seen, elems, room, heap, todo, counted>>
    BY <1>7 DEF LeaveRequest, IsComplete, Calls
  <2>2. Top \in Messages /\ Depth - 1 \in 1 .. Depth /\ stack[Depth - 1].msg \in Messages
    <3>1. Depth - 1 \in 1 .. Depth
      BY <2>1, CallTyping
    <3> QED BY <2>1, <3>1, CallTyping
  <2>3. stack' \in Seq([msg : Messages, buffer_end : 0 .. Size])
    BY <2>1, FrontOf DEF TypeOK
  <2>4. subs' \in [Messages -> Seq(Messages)]
    BY <2>1, <2>2 DEF TypeOK
  <2> QED BY <2>1, <2>3, <2>4 DEF TypeOK
<1>8. CASE Accept
  <2>1. stack # <<>> /\ 0 \in 0 .. Size
    BY <1>8, SizeAssumption DEF Accept, IsComplete, Calls
  <2>2. Top \in Messages
    BY <2>1, CallTyping
  <2> QED BY <1>8, <2>1, <2>2 DEF TypeOK, Accept, tree
<1>9. CASE Forget
  BY <1>9, SizeAssumption DEF Forget, TypeOK, Messages, Fields
<1>10. CASE Unwind
  <2>1. stack # <<>> /\ (Depth # 1 => stack' = Front(stack))
    BY <1>10 DEF Unwind, Calls
  <2>2. CASE Depth # 1
    <3>1. stack' \in Seq([msg : Messages, buffer_end : 0 .. Size])
      BY <2>1, <2>2, FrontOf DEF TypeOK
    <3> QED BY <1>10, <2>2, <3>1 DEF Unwind, TypeOK, tree
  <2> QED BY <1>9, <1>10, <2>2 DEF Unwind
<1>11. CASE Visit
  <2>1. Head(todo) \in Messages /\ Tail(todo) \in Seq(Messages)
    BY <1>11 DEF Visit, TypeOK
  <2>2. subs[Head(todo)] \in Seq(Messages)
    BY <2>1 DEF TypeOK
  <2>3. todo' \in Seq(Messages) /\ counted' \in Seq(Messages)
    BY <1>11, <2>1, <2>2 DEF Visit, TypeOK
  <2> QED BY <1>11, <2>3 DEF Visit, TypeOK, tree
<1>12. CASE Free
  BY <1>9, <1>12 DEF Free
<1>13. CASE UNCHANGED vars
  BY <1>13 DEF vars, tree, TypeOK
<1> QED BY <1>1, <1>2, <1>3, <1>4, <1>5, <1>6, <1>7, <1>8, <1>10, <1>11, <1>12, <1>13
        DEF Next, Decode, Use
-----------------------------------------------------------------------------
(* The calls, one inside the other. *)
LEMMA CallsStep ==
  ASSUME TypeOK, Calls, Phases, [Next]_vars
  PROVE  Calls'
<1>0. Depth \in Nat
  BY CallTyping
<1>1. ASSUME NEW n \in 1 .. Size, Receive(n) PROVE Calls'
  BY <1>1, SizeAssumption DEF Calls, Receive, Depth
<1>2. ASSUME HasBytes, UNCHANGED made, stack' = stack, phase' \in {"decode", "unwind"},
             buffer' = buffer \/ buffer' = buffer + 1
      PROVE  Calls'
  <2>1. /\ phase = "decode" /\ stack # <<>> /\ Depth \in 1 .. Depth
        /\ buffer < stack[Depth].buffer_end
    BY <1>2, BytesLeft
  <2>2. buffer \in Nat /\ made \in Nat
    BY DEF TypeOK
  <2>3. Depth' = Depth /\ made' = made /\ stack' # <<>>
    BY <1>2, <2>1 DEF Depth
  <2>4. stack'[1].msg = 1 /\ made' <= buffer' + 1
    BY <1>2, <2>1, <2>2 DEF Calls
  <2>5. ASSUME NEW i \in 1 .. Depth
        PROVE  stack[i].msg <= made /\ buffer' <= stack[i].buffer_end
    <3>1. stack[i].msg <= made /\ buffer <= stack[i].buffer_end
      BY DEF Calls
    <3>2. i = Depth \/ i < Depth
      BY <1>0
    <3>3. buffer < stack[i].buffer_end
      <4>1. stack[i].buffer_end \in 0 .. Size /\ stack[Depth].buffer_end \in 0 .. Size
        BY <2>1, CallTyping
      <4> QED BY <2>1, <2>2, <3>2, <4>1 DEF Calls
    <3>4. stack[i].buffer_end \in 0 .. Size
      BY CallTyping
    <3> QED BY <1>2, <2>2, <3>1, <3>3, <3>4
  <2> QED BY <1>2, <2>3, <2>4, <2>5 DEF Calls
<1>3. ASSUME /\ stack' = stack /\ made' = made /\ buffer' = buffer
             /\ phase' = phase \/ (phase = "decode" /\ phase' = "unwind")
      PROVE  Calls'
  BY <1>3 DEF Calls, Depth
<1>4. ASSUME NEW n \in 0 .. Size, EnterRequest(n) PROVE Calls'
  <2>1. HasBytes /\ n < Left
    BY <1>4 DEF EnterRequest
  <2>2. CASE phase' = "unwind" /\ UNCHANGED <<stack, buffer, made>>
    BY <1>3, <2>1, <2>2 DEF HasBytes
  <2>3. CASE /\ made' = made + 1 /\ buffer' = buffer + 1
             /\ stack' = Append(stack, [msg |-> made + 1, buffer_end |-> buffer + 1 + n])
             /\ UNCHANGED phase
    <3> DEFINE call == [msg |-> made + 1, buffer_end |-> buffer + 1 + n]
    <3>0. made' = made + 1 /\ buffer' = buffer + 1 /\ n \in Nat
      BY <2>3
    <3>1. /\ phase = "decode" /\ stack # <<>> /\ Depth \in 1 .. Depth
          /\ buffer < stack[Depth].buffer_end
      BY <2>1, BytesLeft
    <3>2. buffer \in Nat /\ made \in Nat /\ stack[Depth].buffer_end \in 0 .. Size
      BY <3>1, CallTyping DEF TypeOK
    <3>3. buffer + 1 + n <= stack[Depth].buffer_end
      BY <2>1, <3>2 DEF Left
    <3>4. \A i \in 1 .. Depth : /\ stack[i].msg \in Messages /\ stack[i].buffer_end \in 0 .. Size
                                /\ stack[Depth].buffer_end <= stack[i].buffer_end
                                /\ stack[i].msg <= made
      BY <1>0, <3>2, CallTyping DEF Calls
    <3>5. /\ stack' # <<>> /\ Depth' = Depth + 1
          /\ \A i \in 1 .. Depth : stack'[i] = stack[i]
          /\ stack'[Depth + 1].msg = made + 1 /\ stack'[Depth + 1].buffer_end = buffer + 1 + n
      <4>0. made + 1 \in Messages /\ buffer + 1 + n \in 0 .. Size
        BY <2>1, <3>2, <3>3, BytesLeft, SizeAssumption DEF Messages
      <4>1. /\ stack \in Seq([msg : Messages, buffer_end : 0 .. Size])
            /\ call \in [msg : Messages, buffer_end : 0 .. Size]
        BY <4>0 DEF TypeOK
      <4> HIDE DEF call
      <4>2. /\ Append(stack, call) # <<>> /\ Len(Append(stack, call)) = Len(stack) + 1
            /\ \A i \in 1 .. Len(stack) : Append(stack, call)[i] = stack[i]
            /\ Append(stack, call)[Len(stack) + 1] = call
        BY <4>1, AppendProperties
      <4>3. stack' = Append(stack, call)
        BY <2>3 DEF call
      <4> QED BY <4>2, <4>3 DEF Depth, call
    <3>6. stack'[1].msg = 1 /\ made' <= buffer' + 1
      BY <2>3, <3>1, <3>2, <3>5 DEF Calls
    <3>7. \A i \in 1 .. Depth' : stack'[i].msg <= made' /\ buffer' <= stack'[i].buffer_end
      <4>1. \A i \in 1 .. Depth : stack'[i].msg <= made' /\ buffer' <= stack'[i].buffer_end
        <5>1. \A i \in 1 .. Depth : stack[i].msg \in Nat /\ stack[i].buffer_end \in Nat
          BY <3>4 DEF Messages
        <5>2. stack[Depth].buffer_end \in Nat
          BY <3>2
        <5> SUFFICES ASSUME NEW i \in 1 .. Depth
                     PROVE  stack'[i].msg <= made' /\ buffer' <= stack'[i].buffer_end
          OBVIOUS
        <5>3. /\ stack'[i] = stack[i] /\ stack[i].msg <= made
              /\ stack[Depth].buffer_end <= stack[i].buffer_end
          BY <3>4, <3>5
        <5>4. stack[i].msg \in Nat /\ stack[i].buffer_end \in Nat
          BY <5>1
        <5>5. buffer + 1 <= stack[Depth].buffer_end
          BY <3>2, <3>3, <5>2
        <5> QED BY <3>0, <3>2, <5>2, <5>3, <5>4, <5>5
      <4>2. stack'[Depth'].msg <= made' /\ buffer' <= stack'[Depth'].buffer_end
        <5>1. /\ stack'[Depth'].msg = made + 1
              /\ stack'[Depth'].buffer_end = buffer + 1 + n
          BY <3>5
        <5>2. buffer + 1 <= buffer + 1 + n
          BY <3>0, <3>2
        <5> QED BY <3>0, <3>2, <5>1, <5>2
      <4> QED BY <1>0, <3>5, <4>1, <4>2
    <3>8. ASSUME NEW i \in 1 .. Depth', NEW j \in 1 .. Depth', i < j
          PROVE  stack'[i].msg < stack'[j].msg /\ stack'[j].buffer_end <= stack'[i].buffer_end
      <4>1. i \in 1 .. Depth
        BY <1>0, <3>5, <3>8
      <4>2. CASE j = Depth'
        <5>1. stack[i].msg \in Nat /\ stack[i].buffer_end \in Nat
          BY <3>4, <4>1 DEF Messages
        <5> QED BY <3>2, <3>3, <3>4, <3>5, <4>1, <4>2, <5>1
      <4>3. CASE j # Depth'
        <5>1. j \in 1 .. Depth
          BY <1>0, <3>5, <4>3
        <5> QED BY <3>5, <3>8, <4>1, <5>1 DEF Calls
      <4> QED BY <4>2, <4>3
    <3> QED BY <2>3, <3>1, <3>5, <3>6, <3>7, <3>8 DEF Calls
  <2> QED BY <1>4, <2>2, <2>3 DEF EnterRequest
<1>5. ASSUME stack # <<>>, Depth > 1, stack' = Front(stack),
             UNCHANGED <<phase, buffer, made>>
      PROVE  Calls'
  <2>1. /\ Len(stack') = Depth - 1
        /\ \A i \in 1 .. Depth - 1 : stack'[i] = stack[i]
        /\ stack' # <<>>
    BY <1>5, FrontOf DEF TypeOK, Depth
  <2>2. Depth' = Depth - 1 /\ 1 \in 1 .. Depth - 1
    BY <1>0, <1>5, <2>1 DEF Depth
  <2>3. \A i \in 1 .. Depth' : i \in 1 .. Depth /\ stack'[i] = stack[i]
    BY <1>0, <2>1, <2>2
  <2> QED BY <1>5, <2>1, <2>2, <2>3 DEF Calls
<1>6. CASE LeaveRequest
  BY <1>5, <1>6 DEF LeaveRequest, IsComplete, Calls
<1>7. ASSUME stack' = <<>>, phase' \in {"count", "idle"}
      PROVE  Calls'
  BY <1>7 DEF Calls, Depth
<1>8. CASE Accept
  BY <1>7, <1>8 DEF Accept
<1>9. CASE Unwind
  <2>1. CASE Depth = 1
    BY <1>7, <1>9, <2>1 DEF Unwind, Forget
  <2>2. CASE Depth # 1
    <3>1. stack # <<>>
      BY <1>9 DEF Unwind, Calls
    <3>2. Depth > 1
      BY <1>0, <2>2, <3>1, CallTyping
    <3> QED BY <1>5, <1>9, <2>2, <3>1, <3>2 DEF Unwind, tree
  <2> QED BY <2>1, <2>2
<1>10. CASE Visit \/ Free
  <2>1. CASE Visit
    <3>1. stack' = stack /\ made' = made /\ buffer' = buffer /\ phase' = phase
      BY <2>1 DEF Visit, tree
    <3> QED BY <1>3, <3>1
  <2>2. CASE Free
    BY <1>7, <2>2 DEF Free, Forget
  <2> QED BY <1>10, <2>1, <2>2
<1>11. CASE Decode
  <2>1. ASSUME NEW r \in Required, ReadRequired(r) PROVE Calls'
    BY <1>2, <2>1 DEF ReadRequired, Advance, HasBytes
  <2>2. CASE SkipField
    BY <1>2, <2>2 DEF SkipField, Advance, HasBytes, tree
  <2>3. CASE Malformed \/ IsIncomplete
    BY <1>3, <2>3 DEF Malformed, IsIncomplete, HasBytes, tree
  <2>4. ASSUME NEW a \in Arrays, AppendElement(a) PROVE Calls'
    BY <1>2, <2>4 DEF AppendElement, Advance
  <2> QED BY <1>4, <1>6, <1>8, <1>9, <1>11, <2>1, <2>2, <2>3, <2>4 DEF Decode
<1>12. CASE UNCHANGED vars
  <2>1. stack' = stack /\ made' = made /\ buffer' = buffer /\ phase' = phase
    BY <1>12 DEF vars, tree
  <2> QED BY <1>3, <2>1
<1> QED BY <1>1, <1>10, <1>11, <1>12 DEF Next, Use

LEMMA PhasesStep ==
  ASSUME TypeOK, Calls, Phases, [Next]_vars
  PROVE  Phases'
<1>1. \A n \in 1 .. Size : Receive(n) => Phases'
  BY DEF Receive, Phases
<1>2. ASSUME HasBytes, phase' \in {"decode", "unwind"}, UNCHANGED <<todo, counted>>
      PROVE  Phases'
  BY <1>2 DEF HasBytes, Phases
<1>3. CASE Decode
  <2>1. CASE IsIncomplete \/ LeaveRequest
    BY <2>1 DEF IsIncomplete, LeaveRequest, IsComplete, Phases
  <2>2. CASE Accept
    <3>1. stack # <<>> /\ made \in Nat
      BY <2>2 DEF Accept, IsComplete, Calls, TypeOK
    <3>2. Top \in Messages /\ Depth \in 1 .. Depth
      BY <3>1, CallTyping
    <3>3. Top <= made
      BY <3>2 DEF Calls, Top
    <3>4. made >= 1
      BY <3>1, <3>2, <3>3 DEF Messages
    <3> QED BY <2>2, <3>4 DEF Accept, tree, Phases
  <2>3. CASE Unwind
    BY <2>3 DEF Unwind, Forget, Phases
  <2>4. CASE \E r \in Required : ReadRequired(r)
    BY <1>2, <2>4 DEF ReadRequired, HasBytes
  <2>5. CASE SkipField \/ Malformed
    BY <1>2, <2>5 DEF SkipField, Malformed, HasBytes
  <2>6. CASE \E a \in Arrays : AppendElement(a)
    BY <1>2, <2>6 DEF AppendElement
  <2>7. CASE \E n \in 0 .. Size : EnterRequest(n)
    BY <1>2, <2>7 DEF EnterRequest, HasBytes
  <2> QED BY <1>3, <2>1, <2>2, <2>3, <2>4, <2>5, <2>6, <2>7 DEF Decode
<1>4. CASE Use
  BY <1>4 DEF Use, Visit, Free, Forget, Phases, tree
<1>5. CASE UNCHANGED vars
  BY <1>5 DEF vars, tree, Phases
<1> QED BY <1>1, <1>3, <1>4, <1>5 DEF Next
-----------------------------------------------------------------------------
(* The forest that the messages form. *)
LEMMA KidsTyping ==
  ASSUME TypeOK
  PROVE  /\ Kids \in Forests
         /\ \A m \in Messages : Kids[m] = {subs[m][i] : i \in DOMAIN subs[m]}
         /\ \A m \in Messages : Tree(m) = Below(Kids, m)
<1>1. ASSUME NEW m \in Messages
      PROVE  Kids[m] = Range(subs[m]) /\ Kids[m] \subseteq Messages
  <2>1. subs[m] \in Seq(Messages)
    BY DEF TypeOK
  <2>2. Range(subs[m]) \subseteq Messages
    BY <2>1, RangeOfSeq
  <2> QED BY <2>2 DEF Kids
<1>2. Kids \in Forests
  BY <1>1 DEF Forests, Kids
<1>3. ASSUME NEW m \in Messages PROVE Tree(m) = Below(Kids, m)
  <2>1. ASSUME NEW S \in SUBSET Messages
        PROVE  IsClosed(S) <=> IsClosedIn(Kids, S)
    BY <1>1 DEF IsClosed, IsClosedIn
  <2> QED BY <2>1 DEF Tree, Below
<1> QED BY <1>1, <1>2, <1>3 DEF Range

LEMMA ForestShape ==
  ASSUME TypeOK, Forest
  PROVE  Kids \in Forests /\ HasOneParent(Kids) /\ IsRising(Kids)
<1>1. ASSUME NEW m \in Messages, NEW n \in Messages, NEW c \in Messages,
             c \in Kids[m], c \in Kids[n]
      PROVE  m = n
  <2>1. PICK i \in DOMAIN subs[m] : c = subs[m][i]
    BY <1>1, KidsTyping
  <2>2. PICK j \in DOMAIN subs[n] : c = subs[n][j]
    BY <1>1, KidsTyping
  <2>3. \A i1 \in DOMAIN subs[m], j1 \in DOMAIN subs[n] :
          subs[m][i1] = subs[n][j1] => m = n
    BY DEF Forest
  <2> QED BY <2>1, <2>2, <2>3
<1>2. IsRising(Kids)
  BY DEF Forest, IsRising
<1> QED BY <1>1, <1>2, KidsTyping DEF HasOneParent

LEMMA MsgsPushed ==
  ASSUME TypeOK, NEW call \in [msg : Messages, buffer_end : 0 .. Size],
         stack' = Append(stack, call)
  PROVE  /\ Depth' = Depth + 1
         /\ \A i \in 1 .. Depth : stack'[i] = stack[i]
         /\ stack'[Depth + 1] = call
         /\ Msgs' = Msgs \union {call.msg}
<1>1. /\ Len(Append(stack, call)) = Len(stack) + 1
      /\ \A i \in 1 .. Len(stack) : Append(stack, call)[i] = stack[i]
      /\ Append(stack, call)[Len(stack) + 1] = call
  BY AppendProperties DEF TypeOK
<1>2. /\ Depth' = Depth + 1
      /\ \A i \in 1 .. Depth : stack'[i] = stack[i]
      /\ stack'[Depth + 1] = call
  BY <1>1 DEF Depth
<1>3. Depth \in Nat
  BY CallTyping
<1>4. 1 .. Depth' = (1 .. Depth) \union {Depth + 1}
  BY <1>2, <1>3
<1>5. Msgs' = {stack'[i].msg : i \in 1 .. Depth'}
  BY DEF Msgs
<1>6. Msgs' = {stack'[i].msg : i \in 1 .. Depth} \union {call.msg}
  <2>1. \A i \in 1 .. Depth' : i \in 1 .. Depth \/ stack'[i] = call
    BY <1>2, <1>4
  <2>2. \A i \in 1 .. Depth : i \in 1 .. Depth'
    BY <1>4
  <2>3. Depth + 1 \in 1 .. Depth' /\ stack'[Depth + 1].msg = call.msg
    BY <1>2, <1>4
  <2> QED BY <1>5, <2>1, <2>2, <2>3
<1>7. {stack'[i].msg : i \in 1 .. Depth} = Msgs
  BY <1>2 DEF Msgs
<1> QED BY <1>2, <1>6, <1>7

LEMMA MsgsPopped ==
  ASSUME TypeOK, Calls, stack # <<>>, stack' = Front(stack)
  PROVE  /\ Depth' = Depth - 1
         /\ \A i \in 1 .. Depth' : i \in 1 .. Depth /\ stack'[i] = stack[i]
         /\ Top \in Msgs /\ Msgs \subseteq Messages
         /\ Msgs' = Msgs \ {Top}
         /\ Depth > 1 => /\ Depth - 1 \in 1 .. Depth
                         /\ stack[Depth - 1].msg \in Msgs'
                         /\ stack[Depth - 1].msg < Top
<1>0. Depth \in Nat /\ Depth \in 1 .. Depth /\ \A i \in 1 .. Depth : stack[i].msg \in Messages
  BY CallTyping
<1>1. Len(stack') = Depth - 1 /\ \A i \in 1 .. Depth - 1 : stack'[i] = stack[i]
  BY FrontOf DEF TypeOK, Depth
<1>2. Depth' = Depth - 1 /\ \A i \in 1 .. Depth' : i \in 1 .. Depth /\ stack'[i] = stack[i]
  BY <1>0, <1>1 DEF Depth
<1>3. \A i \in 1 .. Depth : i # Depth => i \in 1 .. Depth' /\ stack[i].msg < Top
  BY <1>0, <1>2 DEF Calls, Top
<1>4. Top \in Msgs /\ Msgs \subseteq Messages
  BY <1>0 DEF Msgs, Top
<1>5. Msgs' = {stack[i].msg : i \in 1 .. Depth'}
  BY <1>2 DEF Msgs
<1>6. \A i \in 1 .. Depth' : i # Depth
  BY <1>0, <1>2
<1>7. Msgs' = Msgs \ {Top}
  <2>1. ASSUME NEW i \in 1 .. Depth' PROVE stack[i].msg \in Msgs /\ stack[i].msg # Top
    <3>1. i \in 1 .. Depth /\ stack[i].msg < Top
      BY <1>2, <1>3, <1>6
    <3>2. stack[i].msg \in Int /\ Top \in Int
      BY <1>0, <3>1 DEF Messages, Top
    <3> QED BY <3>1, <3>2 DEF Msgs
  <2>2. ASSUME NEW i \in 1 .. Depth, stack[i].msg # Top PROVE i \in 1 .. Depth'
    BY <1>3, <2>2 DEF Top
  <2> QED BY <1>5, <2>1, <2>2 DEF Msgs
<1>8. Depth > 1 => Depth - 1 \in 1 .. Depth' /\ Depth - 1 \in 1 .. Depth /\ Depth - 1 # Depth
  BY <1>0, <1>2
<1> QED BY <1>2, <1>3, <1>4, <1>5, <1>7, <1>8

LEMMA ForestSame ==
  ASSUME TypeOK, Forest, subs' = subs, made' \in Nat, made <= made',
         \A r \in Msgs' : r \in Msgs \/ r = made + 1
  PROVE  Forest'
<1>1. made \in Nat
  BY DEF TypeOK
<1>2. Kids' = Kids
  BY DEF Kids
<1>3. \A m \in Messages : \A c \in Kids[m] : m < c /\ c <= made'
  <2>1. ASSUME NEW m \in Messages, NEW c \in Kids[m] PROVE c \in Int
    BY KidsTyping DEF Forests, Messages
  <2> QED BY <1>1, <2>1 DEF Forest
<1>4. ASSUME NEW m \in Messages, NEW r \in Kids[m], r \in Msgs' PROVE FALSE
  <2>1. r \in Int /\ r <= made
    BY KidsTyping DEF Forests, Messages, Forest
  <2> QED BY <1>1, <1>4, <2>1 DEF Forest
<1> QED BY <1>2, <1>3, <1>4 DEF Forest

LEMMA ForestEmpty ==
  ASSUME subs' = [m \in Messages |-> <<>>], stack' = <<>>
  PROVE  Forest'
<1>1. \A m \in Messages : Kids'[m] = {}
  BY DEF Kids, Range
<1>2. \A m \in Messages : DOMAIN subs'[m] = {}
  OBVIOUS
<1> QED BY <1>1, <1>2 DEF Forest

(* The message around the innermost one. *)
Outer == stack[Depth - 1].msg

(* What LeaveRequest does to the forest: the tree of Top goes below the     *)
(* message around it.                                                       *)
LEMMA Joined ==
  ASSUME TypeOK, Calls, Forest, LeaveRequest
  PROVE  /\ Outer \in Messages /\ Top \in Messages /\ Outer < Top /\ Top <= made
         /\ Outer \in Msgs' /\ Top \in Msgs /\ Msgs' = Msgs \ {Top}
         /\ subs'[Outer] \in Seq(Messages)
         /\ DOMAIN subs[Outer] = 1 .. Len(subs[Outer])
         /\ DOMAIN subs'[Outer] = (1 .. Len(subs[Outer])) \union {Len(subs[Outer]) + 1}
         /\ \A i \in DOMAIN subs[Outer] : subs'[Outer][i] = subs[Outer][i]
         /\ subs'[Outer][Len(subs[Outer]) + 1] = Top
         /\ \A m \in Messages : m # Outer => subs'[m] = subs[m]
         /\ Kids' = [Kids EXCEPT ![Outer] = @ \union {Top}]
<1>1. /\ stack # <<>> /\ Depth > 1 /\ stack' = Front(stack)
      /\ subs' = [subs EXCEPT ![Outer] = Append(@, Top)]
  BY DEF LeaveRequest, IsComplete, Calls, Outer
<1>2. /\ Depth - 1 \in 1 .. Depth /\ Top \in Msgs /\ Msgs' = Msgs \ {Top}
      /\ Outer \in Msgs' /\ Outer < Top /\ Outer \in Messages /\ Top \in Messages
  BY <1>1, MsgsPopped DEF Outer
<1>3. Top <= made
  BY <1>1, CallTyping DEF Top, Calls
<1>4. subs[Outer] \in Seq(Messages) /\ subs'[Outer] = Append(subs[Outer], Top)
  BY <1>1, <1>2 DEF TypeOK
<1>5. /\ subs'[Outer] \in Seq(Messages) /\ Len(subs'[Outer]) = Len(subs[Outer]) + 1
      /\ \A i \in 1 .. Len(subs[Outer]) : subs'[Outer][i] = subs[Outer][i]
      /\ subs'[Outer][Len(subs[Outer]) + 1] = Top
  BY <1>2, <1>4, AppendProperties
<1>6. /\ DOMAIN subs[Outer] = 1 .. Len(subs[Outer]) /\ Len(subs[Outer]) \in Nat
      /\ DOMAIN subs'[Outer] = 1 .. Len(subs'[Outer])
  BY <1>4, <1>5, LenProperties
<1>7. DOMAIN subs'[Outer] = (1 .. Len(subs[Outer])) \union {Len(subs[Outer]) + 1}
  BY <1>5, <1>6
<1>8. \A m \in Messages : m # Outer => subs'[m] = subs[m]
  BY <1>1, <1>2 DEF TypeOK
<1>9. Kids' = [Kids EXCEPT ![Outer] = @ \union {Top}]
  <2>1. Kids' = [m \in Messages |-> Range(subs'[m])]
    BY DEF Kids
  <2>2. Range(subs'[Outer]) = Range(subs[Outer]) \union {Top}
    <3>1. Range(subs'[Outer]) = {subs'[Outer][i] : i \in DOMAIN subs'[Outer]}
      BY DEF Range
    <3>2. Range(subs[Outer]) = {subs[Outer][i] : i \in DOMAIN subs[Outer]}
      BY DEF Range
    <3>3. \A i \in DOMAIN subs[Outer] : i \in DOMAIN subs'[Outer] /\ subs'[Outer][i] = subs[Outer][i]
      BY <1>5, <1>6, <1>7
    <3>4. \A i \in DOMAIN subs'[Outer] : i \in DOMAIN subs[Outer] \/ subs'[Outer][i] = Top
      BY <1>5, <1>6, <1>7
    <3>5. Len(subs[Outer]) + 1 \in DOMAIN subs'[Outer]
      BY <1>7
    <3> QED BY <1>5, <3>1, <3>2, <3>3, <3>4, <3>5
  <2>3. \A m \in Messages : Range(subs'[m]) = IF m = Outer THEN Range(subs[m]) \union {Top}
                                                       ELSE Range(subs[m])
    BY <1>8, <2>2
  <2> QED BY <1>2, <2>1, <2>3 DEF Kids
<1> QED BY <1>2, <1>3, <1>5, <1>6, <1>7, <1>8, <1>9

LEMMA ForestJoined ==
  ASSUME TypeOK, Calls, Forest, LeaveRequest
  PROVE  Forest'
<1>0. made' = made
  BY DEF LeaveRequest
<1>1. /\ Outer \in Messages /\ Top \in Messages /\ Outer < Top /\ Top <= made
      /\ Outer \in Msgs' /\ Top \in Msgs /\ Msgs' = Msgs \ {Top}
      /\ DOMAIN subs[Outer] = 1 .. Len(subs[Outer])
      /\ DOMAIN subs'[Outer] = (1 .. Len(subs[Outer])) \union {Len(subs[Outer]) + 1}
      /\ \A i \in DOMAIN subs[Outer] : subs'[Outer][i] = subs[Outer][i]
      /\ subs'[Outer][Len(subs[Outer]) + 1] = Top
      /\ \A m \in Messages : m # Outer => subs'[m] = subs[m]
      /\ Kids' = [Kids EXCEPT ![Outer] = @ \union {Top}]
  BY Joined
<1>2. \A m \in Messages : Kids'[m] = IF m = Outer THEN Kids[m] \union {Top} ELSE Kids[m]
  BY <1>1, KidsTyping DEF Forests
<1>3. \A m \in Messages : \A c \in Kids'[m] : m < c /\ c <= made'
  BY <1>0, <1>1, <1>2 DEF Forest
<1>4. \A m \in Messages : \A i \in DOMAIN subs[m] : subs[m][i] # Top
  BY <1>1, KidsTyping DEF Forest
<1>5. \A m \in Messages : \A i \in DOMAIN subs'[m] :
        \/ i \in DOMAIN subs[m] /\ subs'[m][i] = subs[m][i]
        \/ m = Outer /\ i = Len(subs[Outer]) + 1 /\ subs'[m][i] = Top
  BY <1>1
<1>6. \A m, n \in Messages : \A i \in DOMAIN subs'[m], j \in DOMAIN subs'[n] :
        subs'[m][i] = subs'[n][j] => m = n /\ i = j
  BY <1>4, <1>5 DEF Forest
<1>7. \A m \in Messages : Kids'[m] \intersect Msgs' = {}
  BY <1>1, <1>2 DEF Forest
<1> QED BY <1>3, <1>6, <1>7 DEF Forest
-----------------------------------------------------------------------------
(* The heap. *)
(* Twice a power of two is one: what comes from 1 to n by doubling goes on. *)
LEMMA PowersDouble ==
  ASSUME NEW n \in Nat \ {0}, IsPowerOf2(n)
  PROVE  IsPowerOf2(2 * n)
<1> SUFFICES ASSUME NEW S \in SUBSET (1 .. 2 * n), 1 \in S,
                    \A k \in S : 2 * k <= 2 * n => 2 * k \in S
             PROVE  2 * n \in S
  BY DEF IsPowerOf2
<1> DEFINE T == S \intersect (1 .. n)
<1>1. T \in SUBSET (1 .. n) /\ 1 \in T
  OBVIOUS
<1>2. ASSUME NEW k \in T, 2 * k <= n PROVE 2 * k \in T
  BY <1>2
<1>3. n \in T
  BY <1>1, <1>2 DEF IsPowerOf2
<1> QED BY <1>3

LEMMA RoomSuffices ==
  ASSUME TypeOK, Rooms, NEW m \in Messages, NEW a \in Fields
  PROVE  /\ RoomFor(m, a) \in Nat \ {0}
         /\ Count(m, a) < RoomFor(m, a)
         /\ IsRoom(RoomFor(m, a))
<1>1. Count(m, a) \in Nat /\ RoomFor(m, a) \in Nat /\ room[m][a] \in Nat
  BY RoomTyping
<1>2. Count(m, a) <= room[m][a] /\ IsRoom(room[m][a])
  BY DEF Rooms
<1>3. CASE Count(m, a) = 0
  <2>1. RoomFor(m, a) = FirstBlock
    BY <1>3 DEF RoomFor, NewRoom, IsFull
  <2> QED BY <1>1, <1>3, <2>1, FirstBlockAssumption DEF IsRoom
<1>4. CASE Count(m, a) # 0 /\ IsFull(Count(m, a))
  <2>1. RoomFor(m, a) = 2 * Count(m, a)
    BY <1>4 DEF RoomFor, NewRoom
  <2>2. Count(m, a) >= FirstBlock /\ IsPowerOf2(Count(m, a))
    BY <1>4 DEF IsFull
  <2>3. IsPowerOf2(2 * Count(m, a))
    BY <1>1, <2>2, PowersDouble
  <2> QED BY <1>1, <1>4, <2>1, <2>2, <2>3, FirstBlockAssumption DEF IsRoom
<1>5. CASE ~IsFull(Count(m, a))
  <2>1. RoomFor(m, a) = room[m][a] /\ Count(m, a) # 0
    BY <1>5 DEF RoomFor, IsFull
  <2>2. Count(m, a) # room[m][a]
    BY <1>1, <1>2, <1>5, <2>1 DEF IsRoom, IsFull
  <2> QED BY <1>1, <1>2, <2>1, <2>2
<1> QED BY <1>3, <1>4, <1>5

LEMMA OwnedApart ==
  ASSUME NEW m \in Messages, NEW n \in Messages, m # n
  PROVE  Owned(m) \intersect Owned(n) = {}
<1>1. \A b \in Owned(m) : b[1] = m
  BY DEF Owned
<1>2. \A b \in Owned(n) : b[1] = n
  BY DEF Owned
<1> QED BY <1>1, <1>2

LEMMA BlocksAreOwned ==
  ASSUME TypeOK, NEW m \in Messages
  PROVE  Blocks(m) = UNION {Owned(n) : n \in Below(Kids, m)}
<1>1. Tree(m) = Below(Kids, m)
  BY KidsTyping
<1>2. Blocks(m) = {<<n, "message", 1>> : n \in Tree(m)}
                    \union UNION {{<<n, a, room[n][a]>> : a \in {f \in Fields : room[n][f] > 0}} :
                                    n \in Tree(m)}
  BY DEF Blocks
<1> QED BY <1>1, <1>2 DEF Owned

(* Where an array is given room, the heap has the new block for the old. *)
LEMMA OwnedReserved ==
  ASSUME TypeOK, HeapIsOwned, Rooms, NEW m \in Kept, m \in Messages, NEW a \in Fields,
         room' = [room EXCEPT ![m][a] = RoomFor(m, a)]
  PROVE  /\ \A n \in Messages : n # m => Owned(n)' = Owned(n)
         /\ \A b : b \in Owned(m)' <=> \/ b \in Owned(m) /\ b # <<m, a, room[m][a]>>
                                       \/ b = <<m, a, RoomFor(m, a)>>
         /\ Kept \subseteq Messages => Reserved(m, a) = UNION {Owned(n)' : n \in Kept}
<1>1. RoomFor(m, a) > 0
  BY RoomSuffices
<1>2. a # "message"
  BY ArraysAssumption DEF Fields
<1>3. \A n \in Messages : n # m => room'[n] = room[n]
  BY DEF TypeOK
<1>4. room'[m][a] = RoomFor(m, a) /\ \A f \in Fields : f # a => room'[m][f] = room[m][f]
  BY DEF TypeOK
<1>5. \A n \in Messages : n # m => Owned(n)' = Owned(n)
  BY <1>3 DEF Owned
<1>6. ASSUME NEW b
      PROVE  b \in Owned(m)' <=> \/ b \in Owned(m) /\ b # <<m, a, room[m][a]>>
                                 \/ b = <<m, a, RoomFor(m, a)>>
  <2>1. b \in Owned(m)' <=> \/ b = <<m, "message", 1>>
                            \/ \E f \in Fields : room'[m][f] > 0 /\ b = <<m, f, room'[m][f]>>
    BY DEF Owned
  <2>2. b \in Owned(m) <=> \/ b = <<m, "message", 1>>
                           \/ \E f \in Fields : room[m][f] > 0 /\ b = <<m, f, room[m][f]>>
    BY DEF Owned
  <2>3. <<m, "message", 1>> # <<m, a, room[m][a]>>
    BY <1>2
  <2>4. \A f \in Fields : f # a => <<m, f, room[m][f]>> # <<m, a, room[m][a]>>
    OBVIOUS
  <2> QED BY <1>1, <1>4, <2>1, <2>2, <2>3, <2>4
<1>7. ASSUME Kept \subseteq Messages
      PROVE  Reserved(m, a) = UNION {Owned(n)' : n \in Kept}
  <2>1. heap = UNION {Owned(n) : n \in Kept}
    BY DEF HeapIsOwned
  <2>2. \A n \in Messages : n # m => <<m, a, room[m][a]>> \notin Owned(n)
    BY DEF Owned
  <2>3. ASSUME NEW b
        PROVE  b \in Reserved(m, a) <=> b \in UNION {Owned(n)' : n \in Kept}
    <3>1. b \in Reserved(m, a) <=> \/ b \in heap /\ b # <<m, a, room[m][a]>>
                                   \/ b = <<m, a, RoomFor(m, a)>>
      BY DEF Reserved
    <3>2. b \in UNION {Owned(n)' : n \in Kept} <=> \E n \in Kept : b \in Owned(n)'
      OBVIOUS
    <3>3. b \in heap <=> \E n \in Kept : b \in Owned(n)
      BY <2>1
    <3>4. ASSUME NEW n \in Kept, b \in Owned(n)' PROVE b \in Reserved(m, a)
      BY <1>5, <1>6, <1>7, <2>2, <3>1, <3>3, <3>4
    <3>5. ASSUME b \in Reserved(m, a) PROVE \E n \in Kept : b \in Owned(n)'
      BY <1>5, <1>6, <1>7, <3>1, <3>3, <3>5
    <3> QED BY <3>2, <3>4, <3>5
  <2> QED BY <2>3
<1> QED BY <1>5, <1>6, <1>7
LEMMA HeapSame ==
  ASSUME HeapIsOwned, room' = room, subs' = subs, heap' = heap, Roots' = Roots,
         made' = made
  PROVE  HeapIsOwned'
<1>1. Kept' = Kept
  BY DEF Kept, Kids
<1>2. \A n : Owned(n)' = Owned(n)
  BY DEF Owned
<1> QED BY <1>1, <1>2 DEF HeapIsOwned

LEMMA RootsTyping ==
  ASSUME TypeOK
  PROVE  Msgs \subseteq Roots /\ Roots \subseteq Messages /\ Kept \subseteq Messages
<1>1. Msgs \subseteq Messages
  BY CallTyping DEF Msgs
<1>2. 1 \in Messages
  BY SizeAssumption DEF Messages
<1>3. Roots \subseteq Messages
  BY <1>1, <1>2 DEF Roots
<1> QED BY <1>3 DEF Kept, Roots, Below

LEMMA TopIsKept ==
  ASSUME TypeOK, Calls, HasBytes
  PROVE  Top \in Kept /\ Top \in Messages /\ Roots = Msgs /\ Top \in Msgs
<1>1. Top \in Messages /\ Depth \in 1 .. Depth /\ phase = "decode"
  BY BytesLeft
<1>2. Top \in Msgs
  BY <1>1 DEF Top, Msgs
<1>3. Top \in Below(Kids, Top)
  BY <1>1, KidsTyping, BelowIsClosed
<1> QED BY <1>1, <1>2, <1>3 DEF Roots, Kept

LEMMA HeapGrown ==
  ASSUME TypeOK, Calls, HeapIsOwned, Rooms, HasBytes, NEW a \in Fields,
         room' = [room EXCEPT ![Top][a] = RoomFor(Top, a)],
         heap' = Reserved(Top, a), stack' = stack, subs' = subs, made' = made,
         phase' \in {"decode", "unwind"}
  PROVE  HeapIsOwned'
<1>1. Top \in Kept /\ Top \in Messages /\ Roots = Msgs
  BY TopIsKept
<1>2. Roots' = Roots
  BY <1>1 DEF Roots, Msgs, Depth
<1>3. Kept' = Kept
  BY <1>2 DEF Kept, Kids
<1>4. heap' = UNION {Owned(n)' : n \in Kept'}
  BY <1>1, <1>3, RootsTyping, OwnedReserved
<1>5. Top <= made /\ made \in Nat
  BY BytesLeft
<1>6. ASSUME NEW m \in Messages, NEW f \in Fields, m > made PROVE room'[m][f] = 0
  <2>1. m # Top
    BY <1>1, <1>5, <1>6 DEF Messages
  <2>2. room'[m] = room[m]
    BY <1>1, <2>1 DEF TypeOK
  <2> QED BY <1>6, <2>2 DEF HeapIsOwned
<1> QED BY <1>4, <1>6 DEF HeapIsOwned

(* A message that is made has nothing below it, and no array. *)
LEMMA MadeIsBare ==
  ASSUME TypeOK, Forest, HeapIsOwned, NEW m \in Messages, m > made
  PROVE  Below(Kids, m) = {m} /\ \A f \in Fields : room[m][f] = 0
<1>1. made \in Nat /\ m \in Nat
  BY DEF TypeOK, Messages
<1>2. ASSUME NEW c \in Kids[m] PROVE FALSE
  <2>1. c \in Int
    BY KidsTyping DEF Forests, Messages
  <2> QED BY <1>1, <2>1 DEF Forest
<1>3. Below(Kids, m) = {m} \union UNION {Below(Kids, c) : c \in Kids[m]}
  BY KidsTyping, BelowUnfolds
<1> QED BY <1>2, <1>3 DEF HeapIsOwned

LEMMA EnteredMsgs ==
  ASSUME TypeOK, Calls, NEW n \in 0 .. Size, EnterRequest(n), made' = made + 1,
         stack' = Append(stack, [msg |-> made + 1, buffer_end |-> buffer + 1 + n])
  PROVE  /\ Msgs' = Msgs \union {made + 1}
         /\ Depth' = Depth + 1
         /\ \A i \in 1 .. Depth : stack'[i] = stack[i]
<1>1. HasBytes /\ n < Left
  BY DEF EnterRequest
<1>2. made + 1 \in Messages
  BY <1>1, BytesLeft, SizeAssumption DEF Messages
<1>3. buffer + 1 + n \in 0 .. Size
  <2>1. /\ buffer \in Nat /\ stack[Depth].buffer_end \in 0 .. Size
        /\ Size \in Nat
    BY <1>1, BytesLeft, SizeAssumption DEF TypeOK
  <2> QED BY <1>1, <2>1 DEF Left
<1> DEFINE call == [msg |-> made + 1, buffer_end |-> buffer + 1 + n]
<1>4. call \in [msg : Messages, buffer_end : 0 .. Size] /\ call.msg = made + 1
  BY <1>2, <1>3
<1>5. stack' = Append(stack, call)
  OBVIOUS
<1> HIDE DEF call
<1> QED BY <1>4, <1>5, MsgsPushed

LEMMA HeapMade ==
  ASSUME TypeOK, Calls, Forest, HeapIsOwned, Rooms, NEW n \in 0 .. Size,
         EnterRequest(n), made' = made + 1,
         stack' = Append(stack, [msg |-> made + 1, buffer_end |-> buffer + 1 + n]),
         heap' = Reserved(Top, "requests") \union {<<made + 1, "message", 1>>},
         phase' = phase
  PROVE  HeapIsOwned'
<1>0. /\ HasBytes /\ subs' = subs /\ n < Left
      /\ room' = [room EXCEPT ![Top]["requests"] = RoomFor(Top, "requests")]
  BY DEF EnterRequest
<1> PICK new : new = made + 1
  OBVIOUS
<1>1. /\ Top \in Kept /\ Top \in Messages /\ Roots = Msgs
      /\ Top <= made /\ made \in Nat /\ new \in Messages /\ new > made
      /\ phase = "decode" /\ "requests" \in Fields
  BY <1>0, TopIsKept, BytesLeft, SizeAssumption DEF Messages, Fields
<1>2. Top # new
  BY <1>1 DEF Messages
<1>3. Msgs' = Msgs \union {new}
  BY EnteredMsgs
<1>4. Below(Kids, new) = {new} /\ \A f \in Fields : room[new][f] = 0
  BY <1>1, MadeIsBare
<1>5. Kept' = Kept \union {new}
  <2>1. Roots' = Roots \union {new}
    BY <1>1, <1>3 DEF Roots
  <2>2. Kids' = Kids
    BY <1>0 DEF Kids
  <2> QED BY <1>4, <2>1, <2>2 DEF Kept
<1>6. Reserved(Top, "requests") = UNION {Owned(m)' : m \in Kept}
  BY <1>0, <1>1, RootsTyping, OwnedReserved
<1>7. Owned(new)' = {<<new, "message", 1>>}
  <2>1. room'[new] = room[new]
    BY <1>0, <1>1, <1>2 DEF TypeOK
  <2>2. {f \in Fields : room'[new][f] > 0} = {}
    BY <1>4, <2>1
  <2> QED BY <2>2 DEF Owned
<1>8. heap' = UNION {Owned(m)' : m \in Kept'}
  BY <1>5, <1>6, <1>7
<1>9. ASSUME NEW m \in Messages, NEW f \in Fields, m > made' PROVE room'[m][f] = 0
  <2>1. m # Top /\ m > made
    BY <1>1, <1>9 DEF Messages
  <2>2. room'[m] = room[m]
    BY <1>0, <1>1, <2>1 DEF TypeOK
  <2> QED BY <2>1, <2>2 DEF HeapIsOwned
<1> QED BY <1>8, <1>9 DEF HeapIsOwned

(* A message that is in no other is not below another. *)
LEMMA RootsApart ==
  ASSUME TypeOK, Forest, NEW r \in Msgs, NEW t \in Msgs, r # t
  PROVE  /\ t \notin Below(Kids, r)
         /\ Below(Kids, r) \intersect Below(Kids, t) = {}
<1>1. r \in Messages /\ t \in Messages
  BY RootsTyping
<1>2. \A m \in Messages : r \notin Kids[m] /\ t \notin Kids[m]
  BY DEF Forest
<1>3. t \notin Below(Kids, r) /\ r \notin Below(Kids, t)
  BY <1>1, <1>2, KidsTyping, RootBelowNone
<1> QED BY <1>1, <1>3, ForestShape, TreesApart

LEMMA HeapJoined ==
  ASSUME TypeOK, Calls, Forest, HeapIsOwned, LeaveRequest
  PROVE  HeapIsOwned'
<1>1. /\ Outer \in Messages /\ Top \in Messages /\ Outer \in Msgs' /\ Top \in Msgs
      /\ Msgs' = Msgs \ {Top}
      /\ Kids' = [Kids EXCEPT ![Outer] = @ \union {Top}]
  BY Joined
<1>2. /\ phase = "decode" /\ phase' = phase /\ room' = room /\ heap' = heap
      /\ made' = made
  BY DEF LeaveRequest, IsComplete
<1>3. Roots = Msgs /\ Roots' = Msgs'
  BY <1>2 DEF Roots
<1>4. /\ Below(Kids', Outer) = Below(Kids, Outer) \union Below(Kids, Top)
      /\ \A m \in Messages : Outer \notin Below(Kids, m) => Below(Kids', m) = Below(Kids, m)
  <2>1. IsJoined(Kids', Kids, Outer, Top)
    BY <1>1, KidsTyping DEF Forests, IsJoined
  <2>2. Kids \in Forests /\ Kids' \in Forests
    BY <1>1, KidsTyping DEF Forests
  <2>3. Outer \in Messages /\ Top \in Messages
    BY <1>1
  <2> QED BY <2>1, <2>2, <2>3, BelowJoined
<1>5. ASSUME NEW r \in Msgs, r # Outer PROVE Below(Kids', r) = Below(Kids, r)
  <2>1. r \in Messages /\ Outer \in Msgs
    BY <1>1, RootsTyping
  <2>2. Outer \notin Below(Kids, r)
    BY <1>5, <2>1, RootsApart
  <2> QED BY <1>4, <2>1, <2>2
<1>6. Kept' = Kept
  <2>1. Kept' = UNION {Below(Kids', r) : r \in Msgs \ {Top}}
    BY <1>1, <1>3 DEF Kept
  <2>2. Kept = UNION {Below(Kids, r) : r \in Msgs}
    BY <1>3 DEF Kept
  <2>3. ASSUME NEW x \in Kept' PROVE x \in Kept
    <3>1. PICK r \in Msgs \ {Top} : x \in Below(Kids', r)
      BY <2>1
    <3> QED BY <1>1, <1>4, <1>5, <2>2, <3>1
  <2>4. ASSUME NEW x \in Kept PROVE x \in Kept'
    <3>1. PICK r \in Msgs : x \in Below(Kids, r)
      BY <2>2
    <3>2. CASE r = Top \/ r = Outer
      BY <1>1, <1>4, <2>1, <3>1, <3>2
    <3>3. CASE r # Top /\ r # Outer
      BY <1>5, <2>1, <3>1, <3>3
    <3> QED BY <3>2, <3>3
  <2> QED BY <2>3, <2>4
<1>7. \A n : Owned(n)' = Owned(n)
  BY <1>2 DEF Owned
<1> QED BY <1>2, <1>6, <1>7 DEF HeapIsOwned

(* The messages of the calls that are over are out of the heap. *)
LEMMA HeapUnwound ==
  ASSUME TypeOK, Calls, Forest, HeapIsOwned, phase = "unwind",
         heap' = heap \ Blocks(Top), stack' = Front(stack),
         UNCHANGED <<phase, tree>>
  PROVE  HeapIsOwned'
<1>0. stack # <<>> /\ room' = room /\ subs' = subs /\ made' = made /\ phase' = "unwind"
  BY DEF Calls, tree
<1>1. Top \in Msgs /\ Msgs \subseteq Messages /\ Msgs' = Msgs \ {Top}
  BY <1>0, MsgsPopped
<1>2. Roots = Msgs /\ Roots' = Msgs' /\ Kids' = Kids
  BY <1>0 DEF Roots, Kids
<1>3. Blocks(Top) = UNION {Owned(n) : n \in Below(Kids, Top)}
  BY <1>1, BlocksAreOwned
<1>4. Kept = UNION {Below(Kids, r) : r \in Msgs}
  BY <1>2 DEF Kept
<1>5. Kept' = UNION {Below(Kids, r) : r \in Msgs \ {Top}}
  BY <1>1, <1>2 DEF Kept
<1>6. Kept' = Kept \ Below(Kids, Top)
  <2>1. ASSUME NEW x \in Kept' PROVE x \in Kept /\ x \notin Below(Kids, Top)
    <3>1. PICK r \in Msgs \ {Top} : x \in Below(Kids, r)
      BY <1>5
    <3>2. Below(Kids, r) \intersect Below(Kids, Top) = {}
      BY <1>1, <3>1, RootsApart
    <3> QED BY <1>4, <3>1, <3>2
  <2>2. ASSUME NEW x \in Kept, x \notin Below(Kids, Top) PROVE x \in Kept'
    BY <1>4, <1>5, <2>2
  <2> QED BY <2>1, <2>2
<1>7. \A n : Owned(n)' = Owned(n)
  BY <1>0 DEF Owned
<1>8. heap' = UNION {Owned(n) : n \in Kept'}
  <2>1. ASSUME NEW b \in heap, NEW n \in Kept, b \in Owned(n), n \notin Below(Kids, Top)
        PROVE  b \notin Blocks(Top)
    <3>1. \A m \in Below(Kids, Top) : Owned(m) \intersect Owned(n) = {}
      BY <1>1, <2>1, RootsTyping, BelowIsClosed, KidsTyping, OwnedApart
    <3> QED BY <1>3, <2>1, <3>1
  <2>2. heap = UNION {Owned(n) : n \in Kept}
    BY DEF HeapIsOwned
  <2> QED BY <1>3, <1>6, <2>1, <2>2
<1> QED BY <1>0, <1>7, <1>8 DEF HeapIsOwned

(* After the outermost call, and when the accepted tree is freed. *)
LEMMA HeapFreed ==
  ASSUME TypeOK, HeapIsOwned, Roots = {1}, heap' = heap \ Blocks(1), Forget
  PROVE  HeapIsOwned'
<1>1. 1 \in Messages
  BY SizeAssumption DEF Messages
<1>2. heap' = {}
  <2>1. heap = UNION {Owned(n) : n \in Below(Kids, 1)}
    BY DEF HeapIsOwned, Kept
  <2> QED BY <1>1, <2>1, BlocksAreOwned
<1>3. Roots' = {}
  <2>1. stack' = <<>> /\ phase' = "idle"
    BY DEF Forget
  <2>2. Msgs' = {}
    BY <2>1 DEF Msgs, Depth
  <2> QED BY <2>1, <2>2 DEF Roots
<1>4. Kept' = {}
  BY <1>3 DEF Kept
<1>5. \A m \in Messages, a \in Fields : room'[m][a] = 0
  BY DEF Forget
<1> QED BY <1>2, <1>4, <1>5 DEF HeapIsOwned
LEMMA RootsSame ==
  ASSUME stack' = stack, phase' = "count" <=> phase = "count"
  PROVE  Roots' = Roots /\ Msgs' = Msgs
BY DEF Roots, Msgs, Depth

LEMMA OneCall ==
  ASSUME TypeOK, Calls, stack # <<>>, Depth = 1
  PROVE  Top = 1 /\ Msgs = {1}
BY DEF Calls, Top, Msgs

LEMMA NothingMade ==
  ASSUME TypeOK, Calls, Phases, phase = "idle"
  PROVE  made = 0 /\ stack = <<>> /\ Msgs = {} /\ todo = <<>> /\ counted = <<>>
BY DEF Calls, Phases, Msgs, Depth

LEMMA ForestStep ==
  ASSUME TypeOK, Calls, Phases, Forest, [Next]_vars
  PROVE  Forest'
<1>0. made \in Nat /\ made <= made /\ made <= made + 1
  BY DEF TypeOK
<1>1. ASSUME NEW n \in 1 .. Size, Receive(n) PROVE Forest'
  <2>1. made = 0 /\ made' = 1 /\ subs' = subs /\ stack' = <<[msg |-> 1, buffer_end |-> n]>>
    BY <1>1, NothingMade DEF Receive
  <2>2. Msgs' = {1}
    BY <2>1 DEF Msgs, Depth
  <2> QED BY <2>1, <2>2, ForestSame
<1>2. ASSUME subs' = subs, made' = made, stack' = stack PROVE Forest'
  <2>1. Msgs' = Msgs
    BY <1>2 DEF Msgs, Depth
  <2> QED BY <1>0, <1>2, <2>1, ForestSame
<1>3. ASSUME NEW n \in 0 .. Size, EnterRequest(n) PROVE Forest'
  <2>1. subs' = subs
    BY <1>3 DEF EnterRequest
  <2>2. CASE UNCHANGED <<stack, buffer, made>>
    BY <1>2, <2>1, <2>2
  <2>3. CASE /\ made' = made + 1
             /\ stack' = Append(stack, [msg |-> made + 1, buffer_end |-> buffer + 1 + n])
    <3>1. Msgs' = Msgs \union {made + 1}
      BY <1>3, <2>3, EnteredMsgs
    <3> QED BY <1>0, <2>1, <2>3, <3>1, ForestSame
  <2> QED BY <1>3, <2>2, <2>3 DEF EnterRequest
<1>4. CASE Accept
  <2>1. stack' = <<>> /\ subs' = subs /\ made' = made
    BY <1>4 DEF Accept, tree
  <2>2. Msgs' = {}
    BY <2>1 DEF Msgs, Depth
  <2> QED BY <1>0, <2>1, <2>2, ForestSame
<1>5. CASE Forget
  BY <1>5, ForestEmpty DEF Forget
<1>6. CASE Unwind
  <2>1. CASE Depth = 1
    BY <1>5, <1>6, <2>1 DEF Unwind
  <2>2. CASE Depth # 1
    <3>1. stack # <<>> /\ stack' = Front(stack) /\ subs' = subs /\ made' = made
      BY <1>6, <2>2 DEF Unwind, Calls, tree
    <3>2. Msgs' \subseteq Msgs
      BY <3>1, MsgsPopped
    <3> QED BY <1>0, <3>1, <3>2, ForestSame
  <2> QED BY <2>1, <2>2
<1>7. CASE Decode
  <2>1. CASE \E r \in Required : ReadRequired(r)
    BY <1>2, <2>1 DEF ReadRequired, Advance
  <2>2. CASE SkipField
    BY <1>2, <2>2 DEF SkipField, Advance, tree
  <2>3. CASE Malformed \/ IsIncomplete
    BY <1>2, <2>3 DEF Malformed, IsIncomplete, tree
  <2>4. CASE \E a \in Arrays : AppendElement(a)
    BY <1>2, <2>4 DEF AppendElement, Advance
  <2> QED BY <1>3, <1>4, <1>6, <1>7, <2>1, <2>2, <2>3, <2>4, ForestJoined DEF Decode
<1>8. CASE Visit
  BY <1>2, <1>8 DEF Visit, tree
<1>9. CASE Free
  BY <1>5, <1>9 DEF Free
<1>10. CASE UNCHANGED vars
  BY <1>2, <1>10 DEF vars, tree
<1> QED BY <1>1, <1>7, <1>8, <1>9, <1>10 DEF Next, Use

LEMMA HeapStep ==
  ASSUME TypeOK, Calls, Phases, Forest, HeapIsOwned, Rooms, [Next]_vars
  PROVE  HeapIsOwned'
<1>1. ASSUME NEW n \in 1 .. Size, Receive(n) PROVE HeapIsOwned'
  <2>1. /\ made = 0 /\ made' = 1 /\ subs' = subs /\ room' = room
        /\ stack' = <<[msg |-> 1, buffer_end |-> n]>>
        /\ phase' = "decode" /\ heap' = {<<1, "message", 1>>}
    BY <1>1, NothingMade DEF Receive
  <2>2. Roots' = {1} /\ Kids' = Kids
    BY <2>1 DEF Roots, Msgs, Depth, Kids
  <2>3. 1 \in Messages /\ \A m \in Messages : m > 0
    BY SizeAssumption DEF Messages
  <2>4. Below(Kids, 1) = {1} /\ \A f \in Fields : room[1][f] = 0
    BY <2>1, <2>3, MadeIsBare
  <2>5. Kept' = {1}
    BY <2>2, <2>4 DEF Kept
  <2>6. Owned(1)' = {<<1, "message", 1>>}
    <3>1. {f \in Fields : room'[1][f] > 0} = {}
      BY <2>1, <2>4
    <3> QED BY <3>1 DEF Owned
  <2>7. \A m \in Messages, f \in Fields : room'[m][f] = 0
    BY <2>1, <2>3 DEF HeapIsOwned
  <2> QED BY <2>1, <2>5, <2>6, <2>7 DEF HeapIsOwned
<1>2. ASSUME room' = room, subs' = subs, heap' = heap, made' = made, stack' = stack,
             phase' = "count" <=> phase = "count"
      PROVE  HeapIsOwned'
  BY <1>2, RootsSame, HeapSame
<1>3. ASSUME NEW a \in Arrays, AppendElement(a) PROVE HeapIsOwned'
  <2>1. /\ HasBytes /\ a \in Fields
        /\ room' = [room EXCEPT ![Top][a] = RoomFor(Top, a)]
        /\ heap' = Reserved(Top, a) /\ stack' = stack /\ subs' = subs /\ made' = made
        /\ phase' \in {"decode", "unwind"}
    BY <1>3 DEF AppendElement, Advance, Fields
  <2> QED BY <2>1, HeapGrown
<1>4. ASSUME NEW n \in 0 .. Size, EnterRequest(n) PROVE HeapIsOwned'
  <2>1. /\ HasBytes /\ "requests" \in Fields /\ subs' = subs
        /\ room' = [room EXCEPT ![Top]["requests"] = RoomFor(Top, "requests")]
    BY <1>4 DEF EnterRequest, Fields
  <2>2. CASE /\ heap' = Reserved(Top, "requests") /\ phase' = "unwind"
             /\ UNCHANGED <<stack, buffer, made>>
    BY <2>1, <2>2, HeapGrown
  <2>3. CASE /\ made' = made + 1 /\ UNCHANGED phase
             /\ heap' = Reserved(Top, "requests") \union {<<made + 1, "message", 1>>}
             /\ stack' = Append(stack, [msg |-> made + 1, buffer_end |-> buffer + 1 + n])
    BY <1>4, <2>3, HeapMade
  <2> QED BY <1>4, <2>2, <2>3 DEF EnterRequest
<1>5. CASE Accept
  <2>1. /\ stack # <<>> /\ Depth = 1 /\ phase = "decode" /\ phase' = "count"
        /\ stack' = <<>> /\ subs' = subs /\ made' = made /\ room' = room /\ heap' = heap
    BY <1>5 DEF Accept, IsComplete, Calls, tree
  <2>2. Roots = {1} /\ Roots' = {1}
    <3>1. Msgs' = {}
      BY <2>1 DEF Msgs, Depth
    <3> QED BY <2>1, <3>1, OneCall DEF Roots
  <2> QED BY <2>1, <2>2, HeapSame
<1>6. CASE Unwind
  <2>1. phase = "unwind" /\ stack # <<>> /\ heap' = heap \ Blocks(Top)
    BY <1>6 DEF Unwind, Calls
  <2>2. CASE Depth = 1
    <3>1. Roots = {1} /\ Top = 1
      BY <2>1, <2>2, OneCall DEF Roots
    <3> QED BY <1>6, <2>1, <2>2, <3>1, HeapFreed DEF Unwind
  <2>3. CASE Depth # 1
    BY <1>6, <2>1, <2>3, HeapUnwound DEF Unwind
  <2> QED BY <2>2, <2>3
<1>7. CASE Free
  <2>1. Roots = {1}
    <3>1. phase = "count" /\ stack = <<>>
      BY <1>7 DEF Free, Calls
    <3> QED BY <3>1 DEF Roots, Msgs, Depth
  <2> QED BY <1>7, <2>1, HeapFreed DEF Free
<1>8. CASE Decode
  <2>1. CASE \E r \in Required : ReadRequired(r)
    BY <1>2, <2>1 DEF ReadRequired, Advance
  <2>2. CASE SkipField
    BY <1>2, <2>2 DEF SkipField, Advance, tree
  <2>3. CASE Malformed \/ IsIncomplete
    BY <1>2, <2>3 DEF Malformed, IsIncomplete, HasBytes, tree
  <2> QED BY <1>3, <1>4, <1>5, <1>6, <1>8, <2>1, <2>2, <2>3, HeapJoined DEF Decode
<1>9. CASE Visit
  BY <1>2, <1>9 DEF Visit, tree
<1>10. CASE UNCHANGED vars
  BY <1>2, <1>10 DEF vars, tree
<1> QED BY <1>1, <1>7, <1>8, <1>9, <1>10 DEF Next, Use
-----------------------------------------------------------------------------
(* The room that the arrays have. *)
LEMMA RoomsSame ==
  ASSUME Rooms, room' = room, elems' = elems, subs' = subs,
         \A i \in 1 .. Depth' - 1 : i \in 1 .. Depth - 1 /\ stack'[i] = stack[i]
  PROVE  Rooms'
<1>1. \A m, a : Count(m, a)' = Count(m, a)
  BY DEF Count
<1> QED BY <1>1 DEF Rooms

LEMMA RoomsEmpty ==
  ASSUME Forget
  PROVE  Rooms'
<1>1. \A m \in Messages, a \in Fields : room'[m][a] = 0 /\ Count(m, a)' = 0
  BY DEF Forget, Count, Fields
<1>2. Depth' = 0
  BY DEF Forget, Depth
<1> QED BY <1>1, <1>2 DEF Rooms, IsRoom

LEMMA RoomsStep ==
  ASSUME TypeOK, Calls, Rooms, Forest, [Next]_vars
  PROVE  Rooms'
<1>0. Depth \in Nat
  BY CallTyping
<1>1. ASSUME NEW n \in 1 .. Size, Receive(n) PROVE Rooms'
  <2>1. Depth' = 1 /\ room' = room /\ elems' = elems /\ subs' = subs
    BY <1>1 DEF Receive, Depth
  <2> QED BY <2>1, RoomsSame
<1>2. ASSUME room' = room, elems' = elems, subs' = subs, stack' = stack
      PROVE  Rooms'
  <2>1. Depth' = Depth
    BY <1>2 DEF Depth
  <2> QED BY <1>2, <2>1, RoomsSame
<1>3. ASSUME NEW a \in Arrays, AppendElement(a) PROVE Rooms'
  <2>1. /\ HasBytes /\ a \in Fields /\ a # "requests" /\ subs' = subs /\ stack' = stack
        /\ room' = [room EXCEPT ![Top][a] = RoomFor(Top, a)]
        /\ elems' = elems \/ elems' = [elems EXCEPT ![Top][a] = @ + 1]
    BY <1>3, ArraysAssumption DEF AppendElement, Advance, Fields
  <2>2. Top \in Messages /\ Depth' = Depth
    BY <2>1, BytesLeft DEF Depth
  <2>3. /\ RoomFor(Top, a) \in Nat \ {0} /\ Count(Top, a) < RoomFor(Top, a)
        /\ IsRoom(RoomFor(Top, a)) /\ Count(Top, a) \in Nat /\ Count(Top, a) = elems[Top][a]
    BY <2>1, <2>2, RoomSuffices, RoomTyping DEF Count
  <2>4. /\ room'[Top][a] = RoomFor(Top, a)
        /\ \A m \in Messages, f \in Fields :
             m # Top \/ f # a => room'[m][f] = room[m][f]
    BY <2>1, <2>2 DEF TypeOK
  <2>5. /\ elems'[Top][a] = elems[Top][a] \/ elems'[Top][a] = elems[Top][a] + 1
        /\ \A m \in Messages, f \in Arrays :
             m # Top \/ f # a => elems'[m][f] = elems[m][f]
    BY <2>1, <2>2 DEF TypeOK
  <2>6. ASSUME NEW m \in Messages, NEW f \in Fields
        PROVE  Count(m, f)' <= room'[m][f] /\ IsRoom(room'[m][f])
    <3>1. CASE m = Top /\ f = a
      <4>1. Count(m, f)' = elems'[Top][a]
        BY <2>1, <3>1 DEF Count
      <4> QED BY <2>3, <2>4, <2>5, <3>1, <4>1
    <3>2. CASE m # Top \/ f # a
      <4>1. Count(m, f)' = Count(m, f)
        BY <2>1, <2>5, <3>2 DEF Count, Fields
      <4> QED BY <2>4, <3>2, <4>1 DEF Rooms
    <3> QED BY <3>1, <3>2
  <2>7. ASSUME NEW i \in 1 .. Depth' - 1
        PROVE  Len(subs'[stack'[i].msg]) < room'[stack'[i].msg]["requests"]
    <3>1. i \in 1 .. Depth /\ i \in 1 .. Depth - 1
      BY <1>0, <2>2
    <3>2. stack[i].msg \in Messages /\ "requests" \in Fields
      BY <3>1, CallTyping DEF Fields
    <3> QED BY <2>1, <2>4, <3>1, <3>2 DEF Rooms
  <2> QED BY <2>6, <2>7 DEF Rooms
<1>4. ASSUME NEW n \in 0 .. Size, EnterRequest(n) PROVE Rooms'
  <2>1. /\ HasBytes /\ "requests" \in Fields /\ subs' = subs /\ elems' = elems
        /\ room' = [room EXCEPT ![Top]["requests"] = RoomFor(Top, "requests")]
    BY <1>4 DEF EnterRequest, Fields
  <2>2. Top \in Messages /\ Depth \in 1 .. Depth
    BY <2>1, BytesLeft
  <2>3. /\ RoomFor(Top, "requests") \in Nat \ {0}
        /\ Count(Top, "requests") < RoomFor(Top, "requests")
        /\ IsRoom(RoomFor(Top, "requests"))
        /\ Count(Top, "requests") \in Nat /\ Count(Top, "requests") = Len(subs[Top])
    BY <2>1, <2>2, RoomSuffices, RoomTyping DEF Count
  <2>4. /\ room'[Top]["requests"] = RoomFor(Top, "requests")
        /\ \A m \in Messages, f \in Fields :
             m # Top \/ f # "requests" => room'[m][f] = room[m][f]
    BY <2>1, <2>2 DEF TypeOK
  <2>5. \A m, f : Count(m, f)' = Count(m, f)
    BY <2>1 DEF Count
  <2>6. \A m \in Messages, f \in Fields : Count(m, f)' <= room'[m][f] /\ IsRoom(room'[m][f])
    BY <2>3, <2>4, <2>5 DEF Rooms
  <2>7. ASSUME NEW i \in 1 .. Depth, i \in 1 .. Depth - 1 \/ i = Depth
        PROVE  Len(subs[stack[i].msg]) < room'[stack[i].msg]["requests"]
    <3>1. stack[i].msg \in Messages
      BY CallTyping
    <3>2. CASE stack[i].msg = Top
      BY <2>3, <2>4, <3>2
    <3>3. CASE stack[i].msg # Top
      BY <2>1, <2>4, <2>7, <3>1, <3>3 DEF Rooms, Top
    <3> QED BY <3>2, <3>3
  <2>8. \A i \in 1 .. Depth' - 1 :
          i \in 1 .. Depth /\ (i \in 1 .. Depth - 1 \/ i = Depth) /\ stack'[i] = stack[i]
    <3>1. CASE stack' = stack
      BY <1>0, <3>1 DEF Depth
    <3>2. CASE /\ made' = made + 1
               /\ stack' = Append(stack, [msg |-> made + 1, buffer_end |-> buffer + 1 + n])
      <4>1. Depth' = Depth + 1 /\ \A i \in 1 .. Depth : stack'[i] = stack[i]
        BY <1>4, <3>2, EnteredMsgs
      <4> QED BY <1>0, <4>1
    <3> QED BY <1>4, <3>1, <3>2 DEF EnterRequest
  <2>9. \A i \in 1 .. Depth' - 1 :
          Len(subs'[stack'[i].msg]) < room'[stack'[i].msg]["requests"]
    BY <2>1, <2>7, <2>8
  <2> QED BY <2>6, <2>9 DEF Rooms
<1>5. CASE LeaveRequest
  <2>1. /\ stack # <<>> /\ Depth > 1 /\ stack' = Front(stack)
        /\ room' = room /\ elems' = elems
    BY <1>5 DEF LeaveRequest, IsComplete, Calls
  <2>2. /\ Depth' = Depth - 1 /\ Depth - 1 \in 1 .. Depth
        /\ \A i \in 1 .. Depth' : i \in 1 .. Depth /\ stack'[i] = stack[i]
    BY <2>1, MsgsPopped
  <2>3. /\ Outer \in Messages
        /\ subs'[Outer] \in Seq(Messages)
        /\ DOMAIN subs[Outer] = 1 .. Len(subs[Outer])
        /\ DOMAIN subs'[Outer] = (1 .. Len(subs[Outer])) \union {Len(subs[Outer]) + 1}
        /\ \A m \in Messages : m # Outer => subs'[m] = subs[m]
    BY <1>5, Joined
  <2>4. Len(subs'[Outer]) = Len(subs[Outer]) + 1
    <3>1. subs[Outer] \in Seq(Messages)
      BY <2>3 DEF TypeOK
    <3>2. subs' = [subs EXCEPT ![Outer] = Append(@, Top)] /\ Top \in Messages
      BY <1>5, Joined DEF LeaveRequest, Outer
    <3>3. subs'[Outer] = Append(subs[Outer], Top)
      BY <2>3, <3>2 DEF TypeOK
    <3> QED BY <3>1, <3>2, <3>3, AppendProperties
  <2>5. Len(subs[Outer]) < room[Outer]["requests"]
    <3>1. Depth - 1 \in 1 .. Depth - 1
      BY <1>0, <2>1
    <3> QED BY <3>1 DEF Rooms, Outer
  <2>6. ASSUME NEW m \in Messages, NEW f \in Fields PROVE Count(m, f)' <= room[m][f]
    <3>1. CASE f = "requests" /\ m = Outer
      <4>1. Count(m, f)' = Len(subs[Outer]) + 1
        BY <2>4, <3>1 DEF Count
      <4>2. Count(m, f) = Len(subs[Outer]) /\ Count(m, f) \in Nat /\ room[m][f] \in Nat
        BY <3>1, RoomTyping DEF Count
      <4> QED BY <2>5, <3>1, <4>1, <4>2
    <3>2. CASE f # "requests" \/ m # Outer
      <4>1. Count(m, f)' = Count(m, f)
        BY <2>1, <2>3, <3>2 DEF Count
      <4> QED BY <4>1 DEF Rooms
    <3> QED BY <3>1, <3>2
  <2>7. ASSUME NEW i \in 1 .. Depth' - 1
        PROVE  Len(subs'[stack'[i].msg]) < room'[stack'[i].msg]["requests"]
    <3>1. i \in 1 .. Depth - 1 /\ i \in 1 .. Depth /\ i < Depth - 1 /\ i \in 1 .. Depth'
      BY <1>0, <2>2
    <3>2. stack[i].msg < Outer /\ stack[i].msg \in Messages
      BY <2>2, <3>1, CallTyping DEF Calls, Outer
    <3>3. stack[i].msg # Outer
      BY <3>2, <2>3 DEF Messages
    <3> QED BY <2>1, <2>2, <2>3, <3>1, <3>2, <3>3 DEF Rooms
  <2> QED BY <2>1, <2>6, <2>7 DEF Rooms
<1>6. CASE Accept
  <2>1. Depth' = 0 /\ room' = room /\ elems' = elems /\ subs' = subs
    BY <1>6 DEF Accept, Depth, tree
  <2> QED BY <2>1, RoomsSame
<1>7. CASE Unwind
  <2>1. CASE Depth = 1
    BY <1>7, <2>1, RoomsEmpty DEF Unwind
  <2>2. CASE Depth # 1
    <3>1. /\ stack # <<>> /\ stack' = Front(stack) /\ room' = room /\ elems' = elems
          /\ subs' = subs
      BY <1>7, <2>2 DEF Unwind, Calls, tree
    <3>2. Depth' = Depth - 1 /\ \A i \in 1 .. Depth' : stack'[i] = stack[i]
      BY <3>1, MsgsPopped
    <3>3. \A i \in 1 .. Depth' - 1 : i \in 1 .. Depth - 1 /\ i \in 1 .. Depth'
      BY <1>0, <3>2
    <3> QED BY <3>1, <3>2, <3>3, RoomsSame
  <2> QED BY <2>1, <2>2
<1>8. CASE Decode
  <2>1. CASE \E r \in Required : ReadRequired(r)
    BY <1>2, <2>1 DEF ReadRequired, Advance
  <2>2. CASE SkipField
    BY <1>2, <2>2 DEF SkipField, Advance, tree
  <2>3. CASE Malformed \/ IsIncomplete
    BY <1>2, <2>3 DEF Malformed, IsIncomplete, tree
  <2> QED BY <1>3, <1>4, <1>5, <1>6, <1>7, <1>8, <2>1, <2>2, <2>3 DEF Decode
<1>9. CASE Visit
  BY <1>2, <1>9 DEF Visit, tree
<1>10. CASE Free
  BY <1>10, RoomsEmpty DEF Free
<1>11. CASE UNCHANGED vars
  BY <1>2, <1>11 DEF vars, tree
<1> QED BY <1>1, <1>8, <1>9, <1>10, <1>11 DEF Next, Use
-----------------------------------------------------------------------------
(* The required fields. *)
LEMMA CompleteStep ==
  ASSUME TypeOK, Calls, Complete, Forest, [Next]_vars
  PROVE  Complete'
<1>1. ASSUME subs' = subs, seen' = seen, phase' = "count" => phase = "count"
      PROVE  Complete'
  BY <1>1 DEF Complete, Kids
<1>2. ASSUME NEW r \in Required, ReadRequired(r) PROVE Complete'
  <2>1. /\ HasBytes /\ subs' = subs /\ seen' = [seen EXCEPT ![Top] = @ \union {r}]
        /\ phase' = "decode"
    BY <1>2 DEF ReadRequired, HasBytes
  <2>2. Kids' = Kids
    BY <2>1 DEF Kids
  <2>3. ASSUME NEW m \in Messages, NEW c \in Kids[m] PROVE seen'[c] = Required
    <3>1. c \in Messages
      BY KidsTyping DEF Forests
    <3>2. c # Top
      BY <2>1, TopIsKept DEF Forest
    <3>3. seen'[c] = seen[c]
      BY <2>1, <3>1, <3>2 DEF TypeOK
    <3> QED BY <3>3 DEF Complete
  <2> QED BY <2>1, <2>2, <2>3 DEF Complete
<1>3. CASE LeaveRequest
  <2>1. seen' = seen /\ seen[Top] = Required /\ phase' = "decode"
    BY <1>3 DEF LeaveRequest, IsComplete
  <2>2. /\ Outer \in Messages
        /\ Kids' = [Kids EXCEPT ![Outer] = @ \union {Top}]
    BY <1>3, Joined
  <2>3. \A m \in Messages : Kids'[m] \subseteq Kids[m] \union {Top}
    BY <2>2, KidsTyping DEF Forests
  <2> QED BY <2>1, <2>3 DEF Complete
<1>4. CASE Accept
  <2>1. /\ stack # <<>> /\ Depth = 1 /\ seen[Top] = Required
        /\ seen' = seen /\ subs' = subs
    BY <1>4 DEF Accept, IsComplete, Calls, tree
  <2>2. Top = 1
    BY <2>1, OneCall
  <2> QED BY <2>1, <2>2 DEF Complete, Kids
<1>5. CASE Forget
  <2>1. \A m \in Messages : Kids'[m] = {}
    BY <1>5 DEF Forget, Kids, Range
  <2> QED BY <1>5, <2>1 DEF Forget, Complete
<1>6. CASE Unwind
  <2>1. CASE Depth = 1
    BY <1>5, <1>6, <2>1 DEF Unwind
  <2>2. CASE Depth # 1
    BY <1>1, <1>6, <2>2 DEF Unwind, tree
  <2> QED BY <2>1, <2>2
<1>7. CASE Decode
  <2>1. CASE SkipField
    BY <1>1, <2>1 DEF SkipField, HasBytes, tree
  <2>2. CASE Malformed \/ IsIncomplete
    BY <1>1, <2>2 DEF Malformed, IsIncomplete, tree
  <2>3. CASE \E a \in Arrays : AppendElement(a)
    BY <1>1, <2>3 DEF AppendElement
  <2>4. CASE \E n \in 0 .. Size : EnterRequest(n)
    BY <1>1, <2>4 DEF EnterRequest
  <2> QED BY <1>2, <1>3, <1>4, <1>6, <1>7, <2>1, <2>2, <2>3, <2>4 DEF Decode
<1>8. CASE Visit
  BY <1>1, <1>8 DEF Visit, tree
<1>9. CASE Free
  BY <1>5, <1>9 DEF Free
<1>10. CASE UNCHANGED vars
  BY <1>1, <1>10 DEF vars, tree
<1>11. ASSUME NEW n \in 1 .. Size, Receive(n) PROVE Complete'
  BY <1>1, <1>11 DEF Receive
<1> QED BY <1>7, <1>8, <1>9, <1>10, <1>11 DEF Next, Use

-----------------------------------------------------------------------------
(* The visit of an accepted tree.  The next request of todo gives way to    *)
(* those in it: their trees are apart, and are its own without it.          *)
LEMMA TodoVisited ==
  ASSUME TypeOK, Forest, todo # <<>>, todo' = subs[Head(todo)] \o Tail(todo),
         \A i, j \in DOMAIN todo :
           i # j => Below(Kids, todo[i]) \intersect Below(Kids, todo[j]) = {}
  PROVE  /\ Head(todo) \in Messages /\ 1 \in DOMAIN todo /\ todo[1] = Head(todo)
         /\ \A i \in DOMAIN todo' :
              \/ todo'[i] \in Kids[Head(todo)]
              \/ \E j \in DOMAIN todo : j # 1 /\ todo'[i] = todo[j]
         /\ \A c \in Kids[Head(todo)] : \E i \in DOMAIN todo' : todo'[i] = c
         /\ \A j \in DOMAIN todo : j # 1 => \E i \in DOMAIN todo' : todo'[i] = todo[j]
         /\ \A i, j \in DOMAIN todo' :
              i # j => Below(Kids, todo'[i]) \intersect Below(Kids, todo'[j]) = {}
<1> DEFINE h == Head(todo)
           s == subs[h]
           t == Tail(todo)
<1>1. /\ h \in Messages /\ t \in Seq(Messages) /\ Len(t) = Len(todo) - 1
      /\ \A i \in 1 .. Len(t) : t[i] = todo[i + 1]
      /\ Len(todo) \in Nat \ {0} /\ DOMAIN todo = 1 .. Len(todo)
      /\ todo[1] = h
  <2>1. todo \in Seq(Messages)
    BY DEF TypeOK
  <2>2. Len(todo) \in Nat \ {0} /\ DOMAIN todo = 1 .. Len(todo)
    BY <2>1, EmptySeq, LenProperties
  <2>3. /\ h \in Messages /\ t \in Seq(Messages) /\ Len(t) = Len(todo) - 1
        /\ \A i \in 1 .. Len(t) : t[i] = todo[i + 1]
    BY <2>1, HeadTailProperties
  <2>4. todo[1] = h
    BY <2>1
  <2> QED BY <2>2, <2>3, <2>4
<1>2. s \in Seq(Messages) /\ Len(s) \in Nat /\ DOMAIN s = 1 .. Len(s)
  BY <1>1 DEF TypeOK
<1>3. Kids[h] = {s[i] : i \in 1 .. Len(s)}
  BY <1>1, <1>2, KidsTyping
<1>4. /\ todo' = s \o t /\ DOMAIN todo' = 1 .. Len(s) + Len(t)
      /\ \A i \in 1 .. Len(s) : todo'[i] = s[i]
      /\ \A i \in 1 .. Len(t) : todo'[Len(s) + i] = t[i]
  <2>1. todo' = s \o t
    OBVIOUS
  <2> HIDE DEF s, t, h
  <2>2. /\ s \o t \in Seq(Messages) /\ Len(s \o t) = Len(s) + Len(t)
        /\ \A i \in 1 .. Len(s) + Len(t) :
             (s \o t)[i] = IF i <= Len(s) THEN s[i] ELSE t[i - Len(s)]
    BY <1>1, <1>2, ConcatProperties
  <2>3. DOMAIN todo' = 1 .. Len(s) + Len(t)
    BY <2>1, <2>2
  <2>4. Len(t) \in Nat
    BY <1>1
  <2>5. \A i \in 1 .. Len(s) : todo'[i] = s[i]
    BY <1>2, <2>1, <2>2, <2>4
  <2>6. \A i \in 1 .. Len(t) : todo'[Len(s) + i] = t[i]
    <3>1. ASSUME NEW i \in 1 .. Len(t) PROVE todo'[Len(s) + i] = t[i]
      <4>1. PICK k : k = Len(s) + i
        OBVIOUS
      <4>2. k \in 1 .. Len(s) + Len(t) /\ ~(k <= Len(s)) /\ k - Len(s) = i
        BY <1>2, <2>4, <4>1
      <4>3. (s \o t)[k] = t[k - Len(s)]
        BY <2>2, <4>2
      <4> QED BY <2>1, <4>1, <4>2, <4>3
    <3> QED BY <3>1
  <2> QED BY <2>1, <2>3, <2>5, <2>6
<1> HIDE DEF s, t, h
<1>5. Len(t) \in Nat
  BY <1>1
<1>6. \A i \in DOMAIN todo' :
        \/ i \in 1 .. Len(s) /\ todo'[i] = s[i]
        \/ /\ i - Len(s) \in 1 .. Len(t) /\ i - Len(s) + 1 \in DOMAIN todo
           /\ i - Len(s) + 1 # 1
           /\ todo'[i] = todo[i - Len(s) + 1]
  <2>1. ASSUME NEW i \in DOMAIN todo', i \notin 1 .. Len(s)
        PROVE  /\ i - Len(s) \in 1 .. Len(t) /\ i - Len(s) + 1 \in DOMAIN todo
               /\ i - Len(s) + 1 # 1
               /\ todo'[i] = todo[i - Len(s) + 1]
    <3>1. i - Len(s) \in 1 .. Len(t) /\ i = Len(s) + (i - Len(s))
      BY <1>2, <1>4, <1>5, <2>1
    <3>2. todo'[i] = t[i - Len(s)]
      BY <1>4, <3>1
    <3>3. t[i - Len(s)] = todo[i - Len(s) + 1]
      BY <1>1, <3>1
    <3>4. i - Len(s) + 1 \in DOMAIN todo /\ i - Len(s) + 1 # 1
      BY <1>1, <1>2, <3>1
    <3> QED BY <3>1, <3>2, <3>3, <3>4
  <2> QED BY <1>4, <2>1
<1>7. \A i \in DOMAIN todo' :
        \/ todo'[i] \in Kids[h]
        \/ \E j \in DOMAIN todo : j # 1 /\ todo'[i] = todo[j]
  BY <1>3, <1>6
<1>8. \A c \in Kids[h] : \E i \in DOMAIN todo' : todo'[i] = c
  <2>1. \A i \in 1 .. Len(s) : i \in DOMAIN todo'
    BY <1>2, <1>4, <1>5
  <2> QED BY <1>3, <1>4, <2>1
<1>9. ASSUME NEW j \in DOMAIN todo, j # 1
      PROVE  \E i \in DOMAIN todo' : todo'[i] = todo[j]
  <2>1. PICK k \in 1 .. Len(t) : k + 1 = j
    <3>1. j \in 1 .. Len(todo) /\ Len(todo) \in Nat /\ Len(t) = Len(todo) - 1
      BY <1>1
    <3>2. j - 1 \in 1 .. Len(t) /\ (j - 1) + 1 = j
      BY <1>9, <3>1
    <3> QED BY <3>2
  <2>2. Len(s) + k \in DOMAIN todo'
    BY <1>2, <1>4, <1>5
  <2>3. todo'[Len(s) + k] = t[k] /\ t[k] = todo[j]
    BY <1>1, <1>4, <2>1
  <2> QED BY <2>2, <2>3
<1>10. ASSUME NEW i \in DOMAIN todo', NEW j \in DOMAIN todo', i # j
       PROVE  Below(Kids, todo'[i]) \intersect Below(Kids, todo'[j]) = {}
  <2>0. Kids \in Forests /\ HasOneParent(Kids) /\ IsRising(Kids)
    BY ForestShape
  <2>1. ASSUME NEW c \in Kids[h], NEW d \in DOMAIN todo, d # 1
        PROVE  Below(Kids, c) \intersect Below(Kids, todo[d]) = {}
    <3>1. Below(Kids, h) \intersect Below(Kids, todo[d]) = {}
      <4>1. 1 \in DOMAIN todo /\ todo[1] = h
        BY <1>1
      <4> QED BY <2>1, <4>1
    <3>2. Below(Kids, c) \subseteq Below(Kids, h)
      <4>1. c \in Below(Kids, h)
        BY <1>1, <2>0, BelowIsClosed DEF IsClosedIn
      <4> QED BY <1>1, <2>0, <4>1, BelowBelow
    <3> QED BY <3>1, <3>2
  <2>2. CASE i \in 1 .. Len(s) /\ j \in 1 .. Len(s)
    <3>1. s[i] \in Kids[h] /\ s[j] \in Kids[h]
      BY <1>3, <2>2
    <3>2. s[i] # s[j]
      BY <1>1, <1>2, <1>10, <2>2 DEF Forest, s
    <3> QED BY <1>1, <1>4, <2>0, <2>2, <3>1, <3>2, SiblingsApart
  <2>3. \A k \in DOMAIN todo' :
          /\ k \in 1 .. Len(s) => todo'[k] \in Kids[h]
          /\ k \notin 1 .. Len(s) => \E d \in DOMAIN todo : d # 1 /\ todo'[k] = todo[d]
    <3>1. \A k \in 1 .. Len(s) : todo'[k] \in Kids[h]
      BY <1>3, <1>4
    <3>2. ASSUME NEW k \in DOMAIN todo', k \notin 1 .. Len(s)
          PROVE  \E d \in DOMAIN todo : d # 1 /\ todo'[k] = todo[d]
      BY <1>6, <3>2
    <3> QED BY <3>1, <3>2
  <2>4. CASE i \in 1 .. Len(s) /\ j \notin 1 .. Len(s)
    <3>1. PICK d \in DOMAIN todo : d # 1 /\ todo'[j] = todo[d]
      BY <2>4, <2>3
    <3> QED BY <2>1, <2>4, <2>3, <3>1
  <2>5. CASE i \notin 1 .. Len(s) /\ j \in 1 .. Len(s)
    <3>1. PICK d \in DOMAIN todo : d # 1 /\ todo'[i] = todo[d]
      BY <2>5, <2>3
    <3>2. Below(Kids, todo'[j]) \intersect Below(Kids, todo[d]) = {}
      BY <2>1, <2>5, <2>3, <3>1
    <3> QED BY <3>1, <3>2
  <2>6. CASE i \notin 1 .. Len(s) /\ j \notin 1 .. Len(s)
    <3>1. i - Len(s) + 1 # j - Len(s) + 1
      BY <1>2, <1>4, <1>5, <1>10
    <3> QED BY <1>6, <2>6, <3>1
  <2> QED BY <2>2, <2>4, <2>5, <2>6
<1>11. 1 \in DOMAIN todo
  BY <1>1
<1> QED BY <1>1, <1>7, <1>8, <1>9, <1>10, <1>11 DEF h

LEMMA VisitKeeps ==
  ASSUME TypeOK, Forest, Visiting, Visit
  PROVE  Visiting'
<1> DEFINE h == Head(todo)
<1>1. /\ phase = "count" /\ todo # <<>> /\ todo' = subs[h] \o Tail(todo)
      /\ counted' = IF IsWellFormed(h) THEN Append(counted, h) ELSE counted
      /\ subs' = subs /\ elems' = elems
  BY DEF Visit, tree
<1>2. /\ \A i \in DOMAIN todo : todo[i] \in Below(Kids, 1)
      /\ \A i, j \in DOMAIN todo :
           i # j => Below(Kids, todo[i]) \intersect Below(Kids, todo[j]) = {}
      /\ Range(counted) = {m \in Visited : IsWellFormed(m)}
      /\ IsInjective(counted)
  BY <1>1 DEF Visiting
<1>3. /\ h \in Messages /\ 1 \in DOMAIN todo /\ todo[1] = h
      /\ \A i \in DOMAIN todo' :
           \/ todo'[i] \in Kids[h]
           \/ \E j \in DOMAIN todo : j # 1 /\ todo'[i] = todo[j]
      /\ \A c \in Kids[h] : \E i \in DOMAIN todo' : todo'[i] = c
      /\ \A j \in DOMAIN todo : j # 1 => \E i \in DOMAIN todo' : todo'[i] = todo[j]
      /\ \A i, j \in DOMAIN todo' :
           i # j => Below(Kids, todo'[i]) \intersect Below(Kids, todo'[j]) = {}
  BY <1>1, <1>2, TodoVisited
<1> HIDE DEF h
<1>4. Kids \in Forests /\ HasOneParent(Kids) /\ IsRising(Kids) /\ Kids' = Kids
  BY <1>1, ForestShape DEF Kids
<1>5. 1 \in Messages /\ h \in Below(Kids, 1)
  BY <1>2, <1>3, SizeAssumption DEF Messages
<1>6. \A i \in DOMAIN todo' : todo'[i] \in Below(Kids, 1)
  BY <1>2, <1>3, <1>4, <1>5, BelowIsClosed DEF IsClosedIn
<1>7. Below(Kids, h) = {h} \union UNION {Below(Kids, c) : c \in Kids[h]}
  BY <1>3, <1>4, BelowUnfolds
<1>8. h \in Below(Kids, h) /\ \A c \in Kids[h] : h \notin Below(Kids, c)
  <2>1. ASSUME NEW c \in Kids[h] PROVE h \notin Below(Kids, c)
    <3>1. c \in Messages /\ h < c /\ h \in Int /\ c \in Int
      BY <1>3, <1>4 DEF Forests, IsRising, Messages
    <3> QED BY <1>3, <1>4, <3>1, BelowRises
  <2> QED BY <1>3, <1>4, <2>1, BelowIsClosed
<1>9. Visited' = Visited \union {h}
  <2>1. Visited' = Below(Kids, 1) \ UNION {Below(Kids, todo'[i]) : i \in DOMAIN todo'}
    BY <1>4 DEF Visited
  <2>2. \A i \in DOMAIN todo' : h \notin Below(Kids, todo'[i])
    <3>1. \A j \in DOMAIN todo : j # 1 => h \notin Below(Kids, todo[j])
      BY <1>2, <1>3, <1>8
    <3> QED BY <1>3, <1>8, <3>1
  <2>3. ASSUME NEW x, x # h
        PROVE  (\E i \in DOMAIN todo' : x \in Below(Kids, todo'[i]))
                 <=> (\E j \in DOMAIN todo : x \in Below(Kids, todo[j]))
    <3>1. ASSUME NEW i \in DOMAIN todo', x \in Below(Kids, todo'[i])
          PROVE  \E j \in DOMAIN todo : x \in Below(Kids, todo[j])
      BY <1>3, <1>7, <3>1
    <3>2. ASSUME NEW j \in DOMAIN todo, x \in Below(Kids, todo[j])
          PROVE  \E i \in DOMAIN todo' : x \in Below(Kids, todo'[i])
      <4>1. CASE j = 1
        <5>1. PICK c \in Kids[h] : x \in Below(Kids, c)
          BY <1>3, <1>7, <2>3, <3>2, <4>1
        <5> QED BY <1>3, <5>1
      <4>2. CASE j # 1
        BY <1>3, <3>2, <4>2
      <4> QED BY <4>1, <4>2
    <3> QED BY <3>1, <3>2
  <2>4. ASSUME NEW x PROVE x \in Visited' <=> x \in Visited \union {h}
    BY <1>5, <2>1, <2>2, <2>3 DEF Visited
  <2> QED BY <2>4
<1>10. h \notin Visited
  BY <1>3, <1>8 DEF Visited
<1>11. \A m : IsWellFormed(m)' <=> IsWellFormed(m)
  BY <1>1 DEF IsWellFormed
<1>12. Range(counted') = {m \in Visited' : IsWellFormed(m)'} /\ IsInjective(counted')
  <2>1. CASE ~IsWellFormed(h)
    BY <1>1, <1>2, <1>9, <1>11, <2>1
  <2>2. CASE IsWellFormed(h)
    <3>1. counted \in Seq(Messages) /\ counted' = Append(counted, h)
      BY <1>1, <2>2 DEF TypeOK
    <3>2. h \notin Range(counted)
      BY <1>2, <1>10
    <3>3. Range(counted') = Range(counted) \union {h} /\ IsInjective(counted')
      BY <1>2, <1>3, <3>1, <3>2, AppendKeepsInjective
    <3> QED BY <1>2, <1>9, <1>11, <2>2, <3>3
  <2> QED BY <2>1, <2>2
<1> QED BY <1>3, <1>4, <1>6, <1>12 DEF Visiting

LEMMA VisitingStep ==
  ASSUME TypeOK, Calls, Phases, Forest, Visiting, [Next]_vars
  PROVE  Visiting'
<1>1. ASSUME phase' # "count" PROVE Visiting'
  BY <1>1 DEF Visiting
<1>2. CASE Accept
  <2>1. /\ stack # <<>> /\ Depth = 1 /\ phase = "decode"
        /\ todo' = <<Top>> /\ subs' = subs /\ counted' = counted
    BY <1>2 DEF Accept, IsComplete, Calls, tree
  <2>2. todo' = <<1>> /\ counted' = <<>>
    BY <2>1, OneCall DEF Phases
  <2>3. 1 \in Messages /\ Kids' = Kids
    BY <2>1, SizeAssumption DEF Messages, Kids
  <2>4. 1 \in Below(Kids', 1) /\ DOMAIN todo' = {1} /\ todo'[1] = 1
    BY <2>2, <2>3, KidsTyping, BelowIsClosed
  <2>5. Visited' = {}
    BY <2>4 DEF Visited
  <2>6. Range(counted') = {} /\ IsInjective(counted')
    BY <2>2 DEF Range, IsInjective
  <2> QED BY <2>4, <2>5, <2>6 DEF Visiting
<1>3. CASE Decode
  <2>1. CASE IsIncomplete \/ LeaveRequest
    BY <1>1, <2>1 DEF IsIncomplete, LeaveRequest, IsComplete
  <2>2. CASE Unwind
    BY <1>1, <2>2 DEF Unwind, Forget
  <2>3. CASE \E r \in Required : ReadRequired(r)
    BY <1>1, <2>3 DEF ReadRequired, HasBytes
  <2>4. CASE SkipField \/ Malformed
    BY <1>1, <2>4 DEF SkipField, Malformed, HasBytes
  <2>5. CASE \E a \in Arrays : AppendElement(a)
    BY <1>1, <2>5 DEF AppendElement
  <2>6. CASE \E n \in 0 .. Size : EnterRequest(n)
    BY <1>1, <2>6 DEF EnterRequest, HasBytes
  <2> QED BY <1>2, <1>3, <2>1, <2>2, <2>3, <2>4, <2>5, <2>6 DEF Decode
<1>4. CASE Visit
  BY <1>4, VisitKeeps
<1>5. CASE Free
  BY <1>1, <1>5 DEF Free, Forget
<1>6. CASE UNCHANGED vars
  <2>1. /\ phase' = phase /\ todo' = todo /\ counted' = counted /\ subs' = subs
        /\ elems' = elems
    BY <1>6 DEF vars, tree
  <2>2. Kids' = Kids /\ \A m : IsWellFormed(m)' <=> IsWellFormed(m)
    BY <2>1 DEF Kids, IsWellFormed
  <2>3. Visited' = Visited
    BY <2>1, <2>2 DEF Visited
  <2> QED BY <2>1, <2>2, <2>3 DEF Visiting
<1>7. \A n \in 1 .. Size : Receive(n) => Visiting'
  BY <1>1 DEF Receive
<1> QED BY <1>3, <1>4, <1>5, <1>6, <1>7 DEF Next, Use

-----------------------------------------------------------------------------
LEMMA InitIInv == Init => IInv
<1> SUFFICES ASSUME Init PROVE IInv
  OBVIOUS
<1>1. TypeOK
  BY TypesInit
<1>2. Depth = 0 /\ Msgs = {} /\ Roots = {}
  BY DEF Init, Depth, Msgs, Roots
<1>3. Calls /\ Phases
  BY <1>2 DEF Init, Calls, Phases
<1>4. (\A m \in Messages : Kids[m] = {}) /\ \A m \in Messages : DOMAIN subs[m] = {}
  BY DEF Init, Kids, Range
<1>5. Forest
  BY <1>4 DEF Forest
<1>6. Kept = {}
  BY <1>2 DEF Kept
<1>7. HeapIsOwned
  BY <1>6 DEF Init, HeapIsOwned
<1>8. \A m \in Messages, a \in Fields : room[m][a] = 0 /\ Count(m, a) = 0
  BY DEF Init, Count, Fields
<1>9. Rooms
  BY <1>2, <1>8 DEF Rooms, IsRoom
<1>10. Complete
  BY <1>4 DEF Init, Complete
<1>11. Visiting
  BY DEF Init, Visiting
<1> QED BY <1>1, <1>3, <1>5, <1>7, <1>9, <1>10, <1>11 DEF IInv

LEMMA StepIInv == IInv /\ [Next]_vars => IInv'
BY TypesStep, CallsStep, PhasesStep, ForestStep, HeapStep, RoomsStep, CompleteStep,
   VisitingStep DEF IInv

LEMMA Invariance == Spec => []IInv
BY InitIInv, StepIInv, PTL DEF Spec

(* The types hold in every state. *)
THEOREM TypeCorrect == Spec => []TypeOK
<1>1. IInv => TypeOK
  BY DEF IInv
<1> QED BY <1>1, Invariance, PTL

(* No block leaks and none is freed twice, wherever decoding fails           *)
(* (protobuf-c.c, error_cleanup; worker.cc, free_unpacked).                  *)
THEOREM HeapExact == Spec => []HeapIsExact
<1>1. ASSUME IInv PROVE HeapIsExact
  <2>1. TypeOK /\ Calls /\ Forest /\ HeapIsOwned
    BY <1>1 DEF IInv
  <2>2. Msgs \subseteq Messages /\ 1 \in Messages
    BY <2>1, RootsTyping, SizeAssumption DEF Messages
  <2>3. \A m \in Messages : Blocks(m) = UNION {Owned(n) : n \in Below(Kids, m)}
    BY <2>1, BlocksAreOwned
  <2>4. Live = UNION {Blocks(r) : r \in Roots}
    BY DEF Live, Roots, Msgs
  <2>5. Roots \subseteq Messages
    BY <2>1, RootsTyping
  <2>6. heap = Live
    <3>1. heap = UNION {Owned(n) : n \in Kept} /\ Kept = UNION {Below(Kids, r) : r \in Roots}
      BY <2>1 DEF HeapIsOwned, Kept
    <3> QED BY <2>3, <2>4, <2>5, <3>1
  <2>7. \A m \in Messages, j \in 1 .. Depth : stack[j].msg \notin Range(subs[m])
    BY <2>1 DEF Forest, Kids, Msgs
  <2> QED BY <2>1, <2>6, <2>7 DEF HeapIsExact, Forest
<1> QED BY <1>1, Invariance, PTL

(* No array holds more than its block has room for (protobuf-c.c,            *)
(* parse_member, the growth of repeated fields).                             *)
THEOREM RoomForElements == Spec => []ElementsHaveRoom
<1>1. ASSUME IInv PROVE ElementsHaveRoom
  <2>1. TypeOK /\ Rooms
    BY <1>1 DEF IInv
  <2>2. \A m \in Messages, a \in Fields :
          /\ Count(m, a) <= room[m][a] /\ Count(m, a) \in Nat /\ room[m][a] \in Nat
          /\ (Count(m, a) > 0 => room[m][a] > 0)
    BY <2>1, RoomTyping DEF Rooms
  <2>3. \A m : Tree(m) \subseteq Messages
    BY DEF Tree
  <2> QED BY <2>2, <2>3 DEF ElementsHaveRoom, pinba__request__check
<1> QED BY <1>1, Invariance, PTL

(* Every request of an accepted tree has its required fields (protobuf-c.c,  *)
(* the check of required_fields_bitmap, at every depth).                     *)
THEOREM AcceptedComplete == Spec => []AcceptedIsComplete
<1>1. ASSUME IInv, phase = "count" PROVE \A m \in Tree(1) : seen[m] = Required
  <2>1. TypeOK /\ Complete /\ 1 \in Messages
    BY <1>1, SizeAssumption DEF IInv, Messages
  <2> DEFINE S == {m \in Messages : seen[m] = Required}
  <2>2. S \in SUBSET Messages /\ 1 \in S
    BY <1>1, <2>1 DEF Complete
  <2>3. Kids \in Forests
    BY <2>1, KidsTyping
  <2>4. IsClosedIn(Kids, S)
    BY <2>1, <2>3 DEF Complete, IsClosedIn, Forests
  <2>5. Below(Kids, 1) \subseteq S
    BY <2>2, <2>4, BelowIsLeast
  <2> QED BY <2>1, <2>5, KidsTyping
<1>2. IInv => AcceptedIsComplete
  BY <1>1 DEF AcceptedIsComplete
<1> QED BY <1>2, Invariance, PTL

(* Each well-formed request of the tree is counted, and counted once         *)
(* (worker.cc, add_request_to_reports).                                      *)
THEOREM CountedOnce == Spec => []EachCountedOnce
<1>1. ASSUME IInv, phase = "count", todo = <<>>
      PROVE  IsInjective(counted) /\ Range(counted) = {m \in Tree(1) : IsWellFormed(m)}
  <2>1. TypeOK /\ Visiting /\ 1 \in Messages
    BY <1>1, SizeAssumption DEF IInv, Messages
  <2>2. Visited = Tree(1)
    <3>1. DOMAIN todo = {}
      BY <1>1
    <3> QED BY <2>1, <3>1, KidsTyping DEF Visited
  <2> QED BY <1>1, <2>1, <2>2 DEF Visiting
<1>2. IInv => EachCountedOnce
  BY <1>1 DEF EachCountedOnce
<1> QED BY <1>2, Invariance, PTL
=============================================================================
