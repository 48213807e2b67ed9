------------------------------ MODULE CodecProofs ------------------------------
(***************************************************************************)
(* What pinba.pb-c.c writes and reads, for all requests that fit in a      *)
(* datagram, however deep they nest, and whichever malloc fails.           *)
(*                                                                         *)
(* The size and the bytes of a request are defined by recursion over its   *)
(* values and the requests nested in it.  The argument that there is one   *)
(* such function (Recursion): the places of requests are well-founded,     *)
(* what is at a place is made of what is before it; take, for each place,  *)
(* what the functions that are right below it agree on.  With the equation *)
(* it satisfies, the size is the number of the bytes, place by place       *)
(* (AllAgree).                                                             *)
(*                                                                         *)
(* Both ways write these bytes (CodecAgrees).  The argument: a call has    *)
(* written what is meant up to the place it is at, behind what its callers *)
(* have; where it has made another call it has left one byte for the       *)
(* length, which the bytes of the nested request, once their number is     *)
(* known, move away from (IsPacking).  Of the calls that append, each has  *)
(* a buffer for itself: with what is still to pass on to it, it is what is *)
(* meant, as long as malloc succeeds; since it failed, some call's buffer  *)
(* is too short, or has in it what nobody wrote (IsAppending).             *)
(*                                                                         *)
(* No block of a buffer is lost (NoBlockLost): in a stack of calls only    *)
(* the one on top has something to append, and only the last piece of it   *)
(* comes with a block, that of the nested call.                            *)
(***************************************************************************)
EXTENDS RequestCodec, WireProofs
-----------------------------------------------------------------------------
(* Functions that are defined by recursion. *)

(* f is what is defined, at d and below. *)
Good(R, D, H, f, d) == \A e \in D : <<e, d>> \in R \/ e = d => f[e] = H[e][f]

IsOrder(R, D) ==
  /\ \A x, y, z \in D : <<x, y>> \in R /\ <<y, z>> \in R => <<x, z>> \in R
  /\ \A T \in SUBSET D : T # {} => \E x \in T : \A y \in T : <<y, x>> \notin R

IsLocal(R, D, V, H) ==
  \A d \in D : \A f, g \in [D -> V] :
    (\A e \in D : <<e, d>> \in R => f[e] = g[e]) => H[d][f] = H[d][g]

IsBody(D, V, H) == V # {} /\ H \in [D -> [[D -> V] -> V]]

IsDefined(D, V, H) == \E F \in [D -> V] : \A d \in D : F[d] = H[d][F]

LEMMA Recursion ==
  ASSUME NEW R, NEW D, NEW V, NEW H, IsBody(D, V, H), IsOrder(R, D), IsLocal(R, D, V, H)
  PROVE  IsDefined(D, V, H)
<1>. SUFFICES \E F \in [D -> V] : \A d \in D : F[d] = H[d][F]
  BY DEF IsDefined
<1>. H \in [D -> [[D -> V] -> V]]
  BY DEF IsBody
<1>. PICK v0 : v0 \in V
  BY DEF IsBody
<1>. DEFINE pick == [d \in D |-> CHOOSE f \in [D -> V] : Good(R, D, H, f, d)]
            Carries(d) == \E f \in [D -> V] : Good(R, D, H, f, d)
<1>1. \A d \in D : Carries(d) => pick[d] \in [D -> V] /\ Good(R, D, H, pick[d], d)
  OBVIOUS
<1>. HIDE DEF pick
<1>2. ASSUME NEW f \in [D -> V], NEW g \in [D -> V], NEW x \in D, NEW d \in D,
             Good(R, D, H, f, x), <<d, x>> \in R, Good(R, D, H, g, d)
      PROVE  f[d] = g[d]
  <2>. DEFINE T == {e \in D : (<<e, d>> \in R \/ e = d) /\ f[e] # g[e]}
  <2>. SUFFICES ASSUME T # {} PROVE FALSE
    OBVIOUS
  <2>1. PICK e \in T : \A z \in T : <<z, e>> \notin R
    <3>1. T \in SUBSET D
      OBVIOUS
    <3>. HIDE DEF T
    <3>. QED
      BY <3>1 DEF IsOrder
  <2>2. e \in D /\ (<<e, d>> \in R \/ e = d) /\ f[e] # g[e]
    OBVIOUS
  <2>3. <<e, x>> \in R
    BY <1>2, <2>2 DEF IsOrder
  <2>4. f[e] = H[e][f] /\ g[e] = H[e][g]
    BY <1>2, <2>2, <2>3 DEF Good
  <2>5. \A z \in D : <<z, e>> \in R => f[z] = g[z]
    BY <2>1, <2>2 DEF IsOrder
  <2>. HIDE DEF T, Carries
  <2>6. H[e][f] = H[e][g]
    BY <2>2, <2>5 DEF IsLocal
  <2>. QED
    BY <2>2, <2>4, <2>6
<1>3. ASSUME NEW e \in D, NEW z \in D, Carries(e), Carries(z), <<z, e>> \in R
      PROVE  pick[z][z] = pick[e][z]
  <2>. HIDE DEF Carries
  <2>1. /\ pick[e] \in [D -> V] /\ Good(R, D, H, pick[e], e)
        /\ pick[z] \in [D -> V] /\ Good(R, D, H, pick[z], z)
    BY <1>1, <1>3
  <2>. QED
    BY <1>2, <1>3, <2>1
<1>4. ASSUME NEW d \in D PROVE Carries(d)
  <2>. DEFINE T == {e \in D : ~ Carries(e)}
  <2>. SUFFICES ASSUME T # {} PROVE FALSE
    OBVIOUS
  <2>1. PICK x \in T : \A z \in T : <<z, x>> \notin R
    <3>1. T \in SUBSET D
      OBVIOUS
    <3>. HIDE DEF T
    <3>. QED
      BY <3>1 DEF IsOrder
  <2>2. x \in D /\ ~ Carries(x) /\ \A e \in D : <<e, x>> \in R => Carries(e)
    BY <2>1
  <2>. HIDE DEF T
  <2>3. <<x, x>> \notin R
    BY <2>2, {x} \in SUBSET D DEF IsOrder
  <2>. DEFINE g == [e \in D |-> IF <<e, x>> \in R THEN pick[e][e] ELSE v0]
              h == [g EXCEPT ![x] = H[x][g]]
  <2>4. g \in [D -> V]
    BY <1>1, <2>2
  <2>5. h \in [D -> V] /\ h[x] = H[x][g] /\ \A e \in D : e # x => h[e] = g[e]
    BY <2>2, <2>4
  <2>6. ASSUME NEW e \in D, <<e, x>> \in R
        PROVE  h[e] = H[e][h]
    <3>1. pick[e] \in [D -> V] /\ Good(R, D, H, pick[e], e)
      BY <1>1, <2>2, <2>6
    <3>2. ASSUME NEW z \in D, <<z, e>> \in R PROVE h[z] = pick[e][z]
      <4>1. <<z, x>> \in R
        BY <2>2, <2>6, <3>2 DEF IsOrder
      <4>2. pick[z] \in [D -> V] /\ Good(R, D, H, pick[z], z)
        BY <1>1, <2>2, <4>1
      <4>3. pick[z][z] = pick[e][z]
        BY <1>3, <2>2, <2>6, <3>2, <4>1
      <4>4. g[z] = pick[z][z]
        BY <4>1
      <4>. QED
        BY <2>3, <2>5, <4>1, <4>3, <4>4
    <3>3. H[e][h] = H[e][pick[e]]
      <4>. HIDE DEF g, h, Carries
      <4>. QED
        BY <2>5, <3>1, <3>2 DEF IsLocal
    <3>4. pick[e][e] = H[e][pick[e]]
      BY <3>1 DEF Good
    <3>5. h[e] = pick[e][e]
      BY <2>3, <2>5, <2>6
    <3>. QED
      BY <3>3, <3>4, <3>5
  <2>7. h[x] = H[x][h]
    <3>1. \A e \in D : <<e, x>> \in R => g[e] = h[e]
      BY <2>3, <2>5
    <3>2. H[x][g] = H[x][h]
      <4>. HIDE DEF g, h, Carries
      <4>. QED
        BY <2>2, <2>4, <2>5, <3>1 DEF IsLocal
    <3>. QED
      BY <2>5, <3>2
  <2>. HIDE DEF g, h
  <2>8. Good(R, D, H, h, x)
    BY <2>6, <2>7 DEF Good
  <2>. QED
    BY <2>2, <2>5, <2>8
<1>. DEFINE F == [d \in D |-> pick[d][d]]
<1>5. F \in [D -> V]
  BY <1>1, <1>4
<1>6. ASSUME NEW d \in D PROVE F[d] = H[d][F]
  <2>1. pick[d] \in [D -> V] /\ Good(R, D, H, pick[d], d)
    BY <1>1, <1>4
  <2>2. ASSUME NEW e \in D, <<e, d>> \in R PROVE F[e] = pick[d][e]
    <3>1. pick[e][e] = pick[d][e]
      BY <1>3, <1>4, <2>2
    <3>. QED
      BY <3>1
  <2>. HIDE DEF F
  <2>3. H[d][F] = H[d][pick[d]]
    BY <1>5, <2>1, <2>2 DEF IsLocal
  <2>4. pick[d][d] = H[d][pick[d]]
    BY <2>1 DEF Good
  <2>. QED
    BY <2>3, <2>4 DEF F
<1>. HIDE DEF F
<1>. QED
  BY <1>5, <1>6
-----------------------------------------------------------------------------
(* The places of requests, in the order they are written. *)

(* A place of a request is before another of one that nests deeper, and, in *)
(* requests that nest as deep, in the order the values are written.         *)
Deep(p) == Nesting[p[1]]

Before ==
  {pair \in Places \X Places :
     LET p == pair[1]
         q == pair[2]
     IN  \/ Deep(p) < Deep(q)
         \/ Deep(p) = Deep(q) /\ p[2] < q[2]
         \/ Deep(p) = Deep(q) /\ p[2] = q[2] /\ p[3] < q[3]}

LEMMA FieldsAre == Fields = 1 .. 23
BY DEF Fields, Descriptor

LEMMA PlaceParts ==
  ASSUME NEW p \in Places
  PROVE  p[1] \in Messages /\ p[2] \in 1 .. 23 /\ p[3] \in Nat /\ p = <<p[1], p[2], p[3]>>
BY FieldsAre DEF Places

LEMMA PlaceOf ==
  ASSUME NEW m \in Messages, NEW f \in 1 .. 23, NEW e \in Nat
  PROVE  /\ <<m, f, e>> \in Places
         /\ <<m, f, e>>[1] = m /\ <<m, f, e>>[2] = f /\ <<m, f, e>>[3] = e
BY FieldsAre DEF Places

LEMMA DeepIsNat ==
  ASSUME NEW p \in Places
  PROVE  Deep(p) \in Nat
BY PlaceParts, NestingAssumption DEF Deep

LEMMA BeforeIs ==
  ASSUME NEW p \in Places, NEW q \in Places
  PROVE  <<p, q>> \in Before <=> \/ Deep(p) < Deep(q)
                                 \/ Deep(p) = Deep(q) /\ p[2] < q[2]
                                 \/ Deep(p) = Deep(q) /\ p[2] = q[2] /\ p[3] < q[3]
BY DEF Before

LEMMA BeforeIsOrder == IsOrder(Before, Places)
<1>1. ASSUME NEW x \in Places, NEW y \in Places, NEW z \in Places,
             <<x, y>> \in Before, <<y, z>> \in Before
      PROVE  <<x, z>> \in Before
  <2>1. /\ Deep(x) \in Nat /\ Deep(y) \in Nat /\ Deep(z) \in Nat
        /\ x[2] \in Int /\ y[2] \in Int /\ z[2] \in Int
        /\ x[3] \in Int /\ y[3] \in Int /\ z[3] \in Int
    BY DeepIsNat, PlaceParts
  <2>. QED
    BY <1>1, <2>1, BeforeIs
<1>2. ASSUME NEW T \in SUBSET Places, T # {}
      PROVE  \E x \in T : \A y \in T : <<y, x>> \notin Before
  <2>. DEFINE deeps == {Deep(p) : p \in T}
              least == Min(deeps)
              fields == {p[2] : p \in {q \in T : Deep(q) = least}}
              field == Min(fields)
              indices == {p[3] : p \in {q \in T : Deep(q) = least /\ q[2] = field}}
              index == Min(indices)
  <2>1. \A p \in T : p \in Places /\ Deep(p) \in Nat /\ p[2] \in Nat /\ p[3] \in Nat
    BY DeepIsNat, PlaceParts
  <2>2. least \in deeps /\ \A d \in deeps : least <= d
    <3>1. deeps \subseteq Nat /\ deeps # {}
      BY <1>2, <2>1
    <3>. HIDE DEF deeps
    <3>. QED
      BY <3>1, LeastNumber
  <2>3. PICK p1 \in T : Deep(p1) = least
    BY <2>2
  <2>4. \A p \in T : least <= Deep(p)
    BY <2>2
  <2>. HIDE DEF least, deeps
  <2>5. field \in fields /\ \A d \in fields : field <= d
    <3>1. fields \subseteq Nat /\ fields # {}
      BY <2>1, <2>3
    <3>. HIDE DEF fields
    <3>. QED
      BY <3>1, LeastNumber
  <2>6. PICK p2 \in T : Deep(p2) = least /\ p2[2] = field
    BY <2>5
  <2>7. \A p \in T : Deep(p) = least => field <= p[2]
    BY <2>5
  <2>. HIDE DEF field, fields
  <2>8. index \in indices /\ \A d \in indices : index <= d
    <3>1. indices \subseteq Nat /\ indices # {}
      BY <2>1, <2>6
    <3>. HIDE DEF indices
    <3>. QED
      BY <3>1, LeastNumber
  <2>9. PICK x \in T : Deep(x) = least /\ x[2] = field /\ x[3] = index
    BY <2>8
  <2>10. \A p \in T : Deep(p) = least /\ p[2] = field => index <= p[3]
    BY <2>8
  <2>. HIDE DEF index, indices
  <2>11. ASSUME NEW y \in T PROVE <<y, x>> \notin Before
    <3>1. /\ least <= Deep(y) /\ (Deep(y) = least => field <= y[2])
          /\ (Deep(y) = least /\ y[2] = field => index <= y[3])
      BY <2>4, <2>7, <2>10
    <3>. QED
      BY <2>1, <2>9, <3>1, BeforeIs
  <2>. QED
    BY <2>11
<1>. QED
  BY <1>1, <1>2 DEF IsOrder
-----------------------------------------------------------------------------
(* The size up to a place. *)

LEMMA TypesAre ==
  ASSUME NEW f \in Fields
  PROVE  /\ Type(f) \in {"uint32", "float", "string", "message"}
         /\ Type(f) = "message" <=> f = 18
         /\ Type(f) = "string" <=> f \in {1, 2, 3, 15, 19}
         /\ Type(f) = "float" <=> f \in {7, 8, 9, 11, 22, 23}
         /\ f = 18 => Label(f) = "repeated"
         /\ Label(f) \in {"required", "optional", "repeated"}
BY DEF Fields, Descriptor, Type, Label

LEMMA SeqParts ==
  ASSUME NEW S, NEW s \in Seq(S)
  PROVE  /\ Len(s) \in Nat /\ DOMAIN s = 1 .. Len(s)
         /\ \A e \in 1 .. Len(s) : s[e] \in S
BY LenProperties, ElementOfSeq

LEMMA MessageParts ==
  ASSUME NEW m \in Messages, NEW f \in Fields
  PROVE  /\ Len(m[f]) \in Nat /\ DOMAIN m[f] = 1 .. Len(m[f])
         /\ \A e \in 1 .. Len(m[f]) : m[f][e] \in ValuesOf(f)
<1>1. m[f] \in Seq(ValuesOf(f))
  BY MessagesAssumption
<1>. QED
  BY <1>1, SeqParts

LEMMA NestedMessage ==
  ASSUME NEW m \in Messages, NEW f \in Fields, NEW e \in 1 .. Len(m[f]), Type(f) = "message"
  PROVE  /\ f = 18 /\ m[f][e] \in Messages
         /\ Nesting[m] \in Nat /\ Nesting[m[f][e]] \in Nat /\ Nesting[m[f][e]] < Nesting[m]
<1>1. f = 18 /\ DOMAIN m[f] = 1 .. Len(m[f]) /\ m[f][e] \in ValuesOf(f)
  BY MessageParts, TypesAre
<1>2. ValuesOf(f) = Messages
  BY TypesAre DEF ValuesOf
<1>. QED
  BY <1>1, <1>2, NestingAssumption

LEMMA AllIsPlace ==
  ASSUME NEW m \in Messages
  PROVE  /\ All(m) \in Places /\ All(m)[1] = m /\ All(m)[2] = 23 /\ All(m)[3] = Len(m[23])
         /\ All(m) = <<m, 23, Len(m[23])>>
<1>1. Len(m[23]) \in Nat
  BY MessageParts, FieldsAre
<1>2. PICK last \in 1 .. 23 : last = 23
  OBVIOUS
<1>3. <<m, last, Len(m[23])>> \in Places
  BY <1>1, PlaceOf
<1>. QED
  BY <1>2, <1>3 DEF All

(* What the size and the bytes of a place are made of is before it. *)
LEMMA EarlierValue ==
  ASSUME NEW m \in Messages, NEW f \in 1 .. 23, NEW e \in 1 .. Len(m[f])
  PROVE  /\ <<m, f, e>> \in Places /\ <<m, f, e - 1>> \in Places
         /\ <<<<m, f, e - 1>>, <<m, f, e>>>> \in Before
         /\ Type(f) = "message" =>
              /\ All(m[f][e]) \in Places
              /\ <<All(m[f][e]), <<m, f, e>>>> \in Before
<1>0. e \in Nat /\ e - 1 \in Nat
  BY MessageParts, FieldsAre
<1>1. PICK p \in Places, q \in Places : p = <<m, f, e - 1>> /\ q = <<m, f, e>>
  <2>1. <<m, f, e - 1>> \in Places /\ <<m, f, e>> \in Places
    BY <1>0, PlaceOf
  <2>. QED
    BY <2>1
<1>2. p[1] = m /\ p[2] = f /\ p[3] = e - 1 /\ q[1] = m /\ q[2] = f /\ q[3] = e
  BY <1>1
<1>3. <<p, q>> \in Before
  <2>1. Deep(p) = Deep(q) /\ e - 1 < e
    BY <1>2, MessageParts, FieldsAre DEF Deep
  <2>. QED
    BY <1>2, <2>1, BeforeIs
<1>4. ASSUME Type(f) = "message"
      PROVE  All(m[f][e]) \in Places /\ <<All(m[f][e]), q>> \in Before
  <2>1. PICK num \in Messages : num = m[f][e] /\ Nesting[num] < Nesting[m]
    BY <1>4, NestedMessage, FieldsAre
  <2>2. PICK a \in Places : a = All(num) /\ a[1] = num
    BY AllIsPlace
  <2>3. Deep(a) < Deep(q)
    BY <1>2, <2>1, <2>2 DEF Deep
  <2>4. <<a, q>> \in Before
    BY <2>3, BeforeIs
  <2>. QED
    BY <2>1, <2>2, <2>4
<1>. QED
  BY <1>1, <1>3, <1>4

LEMMA EarlierField ==
  ASSUME NEW m \in Messages, NEW f \in 1 .. 23, f # 1, NEW e \in Nat
  PROVE  /\ <<m, f, e>> \in Places /\ <<m, f - 1, Len(m[f - 1])>> \in Places
         /\ <<<<m, f - 1, Len(m[f - 1])>>, <<m, f, e>>>> \in Before
<1>1. PICK g \in 1 .. 23 : g = f - 1
  OBVIOUS
<1>2. PICK p \in Places, q \in Places : p = <<m, g, Len(m[g])>> /\ q = <<m, f, e>>
  BY PlaceOf, MessageParts, FieldsAre
<1>3. p[1] = m /\ p[2] = g /\ q[1] = m /\ q[2] = f
  BY <1>2
<1>4. <<p, q>> \in Before
  <2>1. Deep(p) = Deep(q) /\ g < f
    BY <1>1, <1>3 DEF Deep
  <2>. QED
    BY <1>3, <2>1, BeforeIs
<1>. QED
  BY <1>1, <1>2, <1>4

(* Sizes. *)
LEMMA WordType ==
  ASSUME NEW num
  PROVE  Word(num) \in SUBSET (0 .. 31)
BY DEF Word

LEMMA LengthSize ==
  ASSUME NEW num \in Nat
  PROVE  uint32_size(Word(num)) \in Nat \ {0} /\ delimited_size(num) \in Nat
<1>1. uint32_size(Word(num)) \in Nat \ {0}
  BY WordType, Pack32 DEF IsVarint
<1>. QED
  BY <1>1 DEF delimited_size

LEMMA ValueSizeType ==
  ASSUME NEW f \in Fields, NEW v \in ValuesOf(f), Type(f) # "message"
  PROVE  ValueSize(f, v) \in Nat
<1>1. CASE Type(f) = "uint32"
  <2>1. v \in SUBSET (0 .. 31)
    BY <1>1 DEF ValuesOf
  <2>2. uint32_size(v) \in Nat
    BY <2>1, Pack32 DEF IsVarint
  <2>. QED
    BY <1>1, <2>2 DEF ValueSize
<1>2. CASE Type(f) = "float"
  BY <1>2 DEF ValueSize
<1>3. CASE Type(f) = "string"
  <2>1. v \in Seq(SUBSET (0 .. 7))
    BY <1>3 DEF ValuesOf
  <2>2. Len(v) \in Nat
    BY <2>1, LenProperties
  <2>3. delimited_size(Len(v)) \in Nat
    BY <2>2, LengthSize
  <2>. QED
    BY <1>3, <2>3 DEF ValueSize
<1>. QED
  BY <1>1, <1>2, <1>3, TypesAre

(* What Counted is at a place, given what a function g is elsewhere. *)
SizeAt(g, m, f, e) ==
  IF e \in DOMAIN m[f]
  THEN g[<<m, f, e - 1>>] + TagSize(f)
         + (IF Type(f) = "message"
            THEN delimited_size(g[All(m[f][e])])
            ELSE ValueSize(f, m[f][e]))
  ELSE IF f = 1 THEN 0 ELSE g[<<m, f - 1, Len(m[f - 1])>>]

LEMMA SizeAtType ==
  ASSUME NEW g \in [Places -> Nat], NEW m \in Messages, NEW f \in 1 .. 23, NEW e \in Nat
  PROVE  SizeAt(g, m, f, e) \in Nat
<1>1. TagSize(f) \in Nat
  BY DEF TagSize
<1>2. CASE e \in DOMAIN m[f]
  <2>1. e \in 1 .. Len(m[f]) /\ m[f][e] \in ValuesOf(f)
    BY <1>2, MessageParts, FieldsAre
  <2>2. g[<<m, f, e - 1>>] \in Nat
    BY <2>1, EarlierValue
  <2>3. CASE Type(f) = "message"
    <3>1. g[All(m[f][e])] \in Nat
      BY <2>1, <2>3, EarlierValue
    <3>2. delimited_size(g[All(m[f][e])]) \in Nat
      BY <3>1, LengthSize
    <3>. QED
      BY <1>1, <1>2, <2>2, <2>3, <3>2 DEF SizeAt
  <2>4. CASE Type(f) # "message"
    <3>1. ValueSize(f, m[f][e]) \in Nat
      BY <2>1, <2>4, ValueSizeType, FieldsAre
    <3>. QED
      BY <1>1, <1>2, <2>2, <2>4, <3>1 DEF SizeAt
  <2>. QED
    BY <2>3, <2>4
<1>3. CASE e \notin DOMAIN m[f] /\ f = 1
  BY <1>3 DEF SizeAt
<1>4. CASE e \notin DOMAIN m[f] /\ f # 1
  <2>1. g[<<m, f - 1, Len(m[f - 1])>>] \in Nat
    BY <1>4, EarlierField
  <2>. QED
    BY <1>4, <2>1 DEF SizeAt
<1>. QED
  BY <1>2, <1>3, <1>4

LEMMA SizeAtLocal ==
  ASSUME NEW g, NEW h, NEW m \in Messages, NEW f \in 1 .. 23, NEW e \in Nat,
         \A p \in Places : <<p, <<m, f, e>>>> \in Before => g[p] = h[p]
  PROVE  SizeAt(g, m, f, e) = SizeAt(h, m, f, e)
<1>1. CASE e \in DOMAIN m[f]
  <2>1. e \in 1 .. Len(m[f])
    BY <1>1, MessageParts, FieldsAre
  <2>2. g[<<m, f, e - 1>>] = h[<<m, f, e - 1>>]
    BY <2>1, EarlierValue
  <2>3. Type(f) = "message" => g[All(m[f][e])] = h[All(m[f][e])]
    BY <2>1, EarlierValue
  <2>. QED
    BY <1>1, <2>2, <2>3 DEF SizeAt
<1>2. CASE e \notin DOMAIN m[f] /\ f = 1
  BY <1>2 DEF SizeAt
<1>3. CASE e \notin DOMAIN m[f] /\ f # 1
  <2>1. g[<<m, f - 1, Len(m[f - 1])>>] = h[<<m, f - 1, Len(m[f - 1])>>]
    BY <1>3, EarlierField
  <2>. QED
    BY <1>3, <2>1 DEF SizeAt
<1>. QED
  BY <1>1, <1>2, <1>3

LEMMA CountedEquation ==
  \A m \in Messages, f \in 1 .. 23, e \in Nat : Counted[<<m, f, e>>] = SizeAt(Counted, m, f, e)
<1>. DEFINE H == [p \in Places |-> [g \in [Places -> Nat] |-> SizeAt(g, p[1], p[2], p[3])]]
<1>1. H \in [Places -> [[Places -> Nat] -> Nat]]
  <2>1. ASSUME NEW p \in Places, NEW g \in [Places -> Nat]
        PROVE  SizeAt(g, p[1], p[2], p[3]) \in Nat
    BY SizeAtType, PlaceParts
  <2>. QED
    BY <2>1
<1>2. \A p \in Places, g \in [Places -> Nat] : H[p][g] = SizeAt(g, p[1], p[2], p[3])
  OBVIOUS
<1>. HIDE DEF H
<1>3. IsLocal(Before, Places, Nat, H)
  <2>1. ASSUME NEW d \in Places, NEW g \in [Places -> Nat], NEW h \in [Places -> Nat],
               \A p \in Places : <<p, d>> \in Before => g[p] = h[p]
        PROVE  H[d][g] = H[d][h]
    <3>1. PICK m \in Messages, f \in 1 .. 23, e \in Nat :
            m = d[1] /\ f = d[2] /\ e = d[3] /\ d = <<m, f, e>>
      BY PlaceParts
    <3>2. \A p \in Places : <<p, <<m, f, e>>>> \in Before => g[p] = h[p]
      BY <2>1, <3>1
    <3>3. SizeAt(g, m, f, e) = SizeAt(h, m, f, e)
      BY <3>2, SizeAtLocal
    <3>4. H[d][g] = SizeAt(g, d[1], d[2], d[3]) /\ H[d][h] = SizeAt(h, d[1], d[2], d[3])
      BY <1>2
    <3>. QED
      BY <3>1, <3>3, <3>4
  <2>. QED
    BY <2>1 DEF IsLocal
<1>4. PICK F \in [Places -> Nat] : \A p \in Places : F[p] = H[p][F]
  <2>1. IsBody(Places, Nat, H)
    BY <1>1 DEF IsBody
  <2>2. IsDefined(Places, Nat, H)
    BY <1>3, <2>1, BeforeIsOrder, Recursion
  <2>. QED
    BY <2>2 DEF IsDefined
<1>5. F = [p \in Places |-> SizeAt(F, p[1], p[2], p[3])]
  BY <1>2, <1>4
<1>6. Counted = [p \in Places |-> SizeAt(Counted, p[1], p[2], p[3])]
  BY <1>5 DEF Counted, SizeAt
<1>. DEFINE C == Counted
<1>7. C = [p \in Places |-> SizeAt(C, p[1], p[2], p[3])]
  BY <1>6
<1>. HIDE DEF C
<1>8. ASSUME NEW m \in Messages, NEW f \in 1 .. 23, NEW e \in Nat
      PROVE  C[<<m, f, e>>] = SizeAt(C, m, f, e)
  <2>0. <<m, f, e>> \in Places
    BY PlaceOf
  <2>1. PICK p \in Places : p = <<m, f, e>> /\ p[1] = m /\ p[2] = f /\ p[3] = e
    BY <2>0
  <2>2. C[p] = SizeAt(C, p[1], p[2], p[3])
    BY <1>7
  <2>. QED
    BY <2>1, <2>2
<1>. QED
  BY <1>8 DEF C
-----------------------------------------------------------------------------
(* A number and its word. *)

(* The numbers up to num, in their order. *)
UpTo(num) == {pair \in (0 .. num) \X (0 .. num) : pair[1] < pair[2]}

LEMMA UpToIsOrder ==
  ASSUME NEW num \in Nat
  PROVE  IsOrder(UpTo(num), 0 .. num)
<1>1. \A x, y \in 0 .. num : <<x, y>> \in UpTo(num) <=> x < y
  BY DEF UpTo
<1>2. ASSUME NEW T \in SUBSET (0 .. num), T # {}
      PROVE  \E x \in T : \A y \in T : <<y, x>> \notin UpTo(num)
  <2>1. T \subseteq Nat
    OBVIOUS
  <2>2. Min(T) \in T /\ \A y \in T : Min(T) <= y
    BY <1>2, <2>1, LeastNumber
  <2>3. PICK x \in T : \A y \in T : x <= y
    BY <2>2
  <2>4. \A y \in T : y \in 0 .. num /\ x \in 0 .. num
    OBVIOUS
  <2>5. \A y \in T : ~ (y < x)
    BY <2>3, <2>4
  <2>. QED
    BY <1>1, <2>4, <2>5
<1>. QED
  BY <1>1, <1>2 DEF IsOrder

(* A number shifted right bit by bit. *)
LEMMA WordBits ==
  ASSUME NEW num \in Nat
  PROVE  \E half \in [0 .. 32 -> Nat] :
           /\ half[0] = num
           /\ \A b \in 1 .. 32 : half[b] = half[b - 1] \div 2
           /\ Word(num) = {b \in 0 .. 31 : half[b] % 2 = 1}
<1>. DEFINE D == 0 .. 32
            At(g, b) == IF b = 0 THEN num ELSE g[b - 1] \div 2
            H == [b \in D |-> [g \in [D -> Nat] |-> At(g, b)]]
<1>1. \A b \in D, g \in [D -> Nat] : At(g, b) \in Nat
  OBVIOUS
<1>2. \A b \in D, g \in [D -> Nat] : H[b][g] = At(g, b)
  OBVIOUS
<1>3. IsBody(D, Nat, H)
  <2>. HIDE DEF At
  <2>. QED
    BY <1>1 DEF IsBody
<1>4. PICK last \in Nat : last = 32
  OBVIOUS
<1>5. IsOrder(UpTo(last), 0 .. last)
  BY UpToIsOrder
<1>. HIDE DEF H
<1>6. IsLocal(UpTo(last), D, Nat, H)
  <2>1. ASSUME NEW d \in D, NEW g \in [D -> Nat], NEW h \in [D -> Nat],
               \A e \in D : <<e, d>> \in UpTo(last) => g[e] = h[e]
        PROVE  H[d][g] = H[d][h]
    <3>1. d # 0 => g[d - 1] = h[d - 1]
      BY <1>4, <2>1 DEF UpTo
    <3>. QED
      BY <1>2, <3>1
  <2>. HIDE DEF D
  <2>. QED
    BY <2>1 DEF IsLocal
<1>7. D = 0 .. last
  BY <1>4
<1>8. IsDefined(D, Nat, H)
  <2>. HIDE DEF D
  <2>. QED
    BY <1>3, <1>5, <1>6, <1>7, Recursion
<1>9. PICK half \in [D -> Nat] : \A b \in D : half[b] = At(half, b)
  BY <1>2, <1>8 DEF IsDefined
<1>10. half = [b \in 0 .. 32 |-> IF b = 0 THEN num ELSE half[b - 1] \div 2]
  BY <1>9
<1>. DEFINE word == CHOOSE g : g = [b \in 0 .. 32 |-> IF b = 0 THEN num ELSE g[b - 1] \div 2]
<1>11. word = [b \in 0 .. 32 |-> IF b = 0 THEN num ELSE word[b - 1] \div 2]
  BY <1>10
<1>12. Word(num) = {b \in 0 .. 31 : word[b] % 2 = 1}
  BY DEF Word
<1>. HIDE DEF word
<1>13. word[0] = num /\ \A b \in 1 .. 32 : word[b] = word[b - 1] \div 2
  BY <1>11
<1>14. word \in [0 .. 32 -> Nat]
  <2>. DEFINE T == {b \in 0 .. 32 : word[b] \notin Nat}
  <2>1. ASSUME T # {} PROVE FALSE
    <3>1. T \subseteq Nat
      OBVIOUS
    <3>2. Min(T) \in T /\ \A y \in T : Min(T) <= y
      BY <2>1, <3>1, LeastNumber
    <3>3. PICK b \in T : \A y \in T : b <= y
      BY <3>2
    <3>4. b # 0 /\ b - 1 \in 0 .. 32 /\ b - 1 \notin T
      BY <1>13, <3>3
    <3>. QED
      BY <1>13, <3>3, <3>4
  <2>2. \A b \in 0 .. 32 : word[b] \in Nat
    BY <2>1
  <2>. QED
    BY <1>11, <2>2
<1>. QED
  BY <1>12, <1>13, <1>14
(* What a word stands for, put together from its highest bit. *)
LEMMA NumberBits ==
  ASSUME NEW v
  PROVE  \E upper \in [0 .. 32 -> Nat] :
           /\ upper[0] = 0
           /\ \A k \in 1 .. 32 : upper[k] = 2 * upper[k - 1] + (IF 32 - k \in v THEN 1 ELSE 0)
           /\ Number(v) = upper[32]
<1>. DEFINE D == 0 .. 32
            At(g, k) == IF k = 0 THEN 0 ELSE 2 * g[k - 1] + (IF 32 - k \in v THEN 1 ELSE 0)
            H == [k \in D |-> [g \in [D -> Nat] |-> At(g, k)]]
<1>1. \A k \in D, g \in [D -> Nat] : At(g, k) \in Nat
  OBVIOUS
<1>2. \A k \in D, g \in [D -> Nat] : H[k][g] = At(g, k)
  OBVIOUS
<1>3. IsBody(D, Nat, H)
  <2>. HIDE DEF At
  <2>. QED
    BY <1>1 DEF IsBody
<1>4. PICK last \in Nat : last = 32
  OBVIOUS
<1>5. IsOrder(UpTo(last), 0 .. last)
  BY UpToIsOrder
<1>. HIDE DEF H
<1>6. IsLocal(UpTo(last), D, Nat, H)
  <2>1. ASSUME NEW d \in D, NEW g \in [D -> Nat], NEW h \in [D -> Nat],
               \A e \in D : <<e, d>> \in UpTo(last) => g[e] = h[e]
        PROVE  H[d][g] = H[d][h]
    <3>1. d # 0 => g[d - 1] = h[d - 1]
      BY <1>4, <2>1 DEF UpTo
    <3>. QED
      BY <1>2, <3>1
  <2>. HIDE DEF D
  <2>. QED
    BY <2>1 DEF IsLocal
<1>7. D = 0 .. last
  BY <1>4
<1>8. IsDefined(D, Nat, H)
  <2>. HIDE DEF D
  <2>. QED
    BY <1>3, <1>5, <1>6, <1>7, Recursion
<1>9. PICK some \in [D -> Nat] : \A k \in D : some[k] = At(some, k)
  BY <1>2, <1>8 DEF IsDefined
<1>10. some = [k \in 0 .. 32 |->
                 IF k = 0 THEN 0 ELSE 2 * some[k - 1] + (IF 32 - k \in v THEN 1 ELSE 0)]
  BY <1>9
<1>. DEFINE upper == CHOOSE g : g = [k \in 0 .. 32 |->
                       IF k = 0 THEN 0 ELSE 2 * g[k - 1] + (IF 32 - k \in v THEN 1 ELSE 0)]
<1>11. upper = [k \in 0 .. 32 |->
                  IF k = 0 THEN 0 ELSE 2 * upper[k - 1] + (IF 32 - k \in v THEN 1 ELSE 0)]
  BY <1>10
<1>12. Number(v) = upper[32]
  BY DEF Number
<1>. HIDE DEF upper
<1>13. /\ upper[0] = 0
       /\ \A k \in 1 .. 32 : upper[k] = 2 * upper[k - 1] + (IF 32 - k \in v THEN 1 ELSE 0)
  BY <1>11
<1>14. upper \in [0 .. 32 -> Nat]
  <2>. DEFINE T == {k \in 0 .. 32 : upper[k] \notin Nat}
  <2>1. ASSUME T # {} PROVE FALSE
    <3>1. T \subseteq Nat
      OBVIOUS
    <3>2. Min(T) \in T /\ \A y \in T : Min(T) <= y
      BY <2>1, <3>1, LeastNumber
    <3>3. PICK k \in T : \A y \in T : k <= y
      BY <3>2
    <3>4. k # 0 /\ k - 1 \in 0 .. 32 /\ k - 1 \notin T
      BY <1>13, <3>3
    <3>5. k \in 1 .. 32 /\ upper[k - 1] \in Nat /\ upper[k] \notin Nat
      BY <3>3, <3>4
    <3>6. upper[k] = 2 * upper[k - 1] + (IF 32 - k \in v THEN 1 ELSE 0)
      BY <1>13, <3>5
    <3>7. CASE 32 - k \in v
      BY <3>5, <3>6, <3>7
    <3>8. CASE 32 - k \notin v
      BY <3>5, <3>6, <3>8
    <3>. QED
      BY <3>7, <3>8
  <2>2. \A k \in 0 .. 32 : upper[k] \in Nat
    BY <2>1
  <2>. QED
    BY <1>11, <2>2
<1>. QED
  BY <1>12, <1>13, <1>14

(* The length of what fits in a datagram comes back from its word. *)
LEMMA NumberOfWord ==
  ASSUME NEW num \in Nat, num <= PINBA_UDP_BUFFER_SIZE
  PROVE  Number(Word(num)) = num
<1>1. PICK half \in [0 .. 32 -> Nat] :
        /\ half[0] = num
        /\ \A b \in 1 .. 32 : half[b] = half[b - 1] \div 2
        /\ Word(num) = {b \in 0 .. 31 : half[b] % 2 = 1}
  BY WordBits
<1>2. PICK upper \in [0 .. 32 -> Nat] :
        /\ upper[0] = 0
        /\ \A k \in 1 .. 32 :
             upper[k] = 2 * upper[k - 1] + (IF 32 - k \in Word(num) THEN 1 ELSE 0)
        /\ Number(Word(num)) = upper[32]
  BY NumberBits
<1>3. \A b \in 1 .. 32 : half[b - 1] \in Nat /\ half[b] \in Nat /\ half[b] = half[b - 1] \div 2
  BY <1>1
<1>4. half[32] = 0
  <2>1. half[1] <= 32768
    BY <1>1, <1>3, SMT DEF PINBA_UDP_BUFFER_SIZE
  <2>2. half[2] <= 16384 /\ half[3] <= 8192 /\ half[4] <= 4096
    BY <1>3, <2>1, SMT
  <2>3. half[5] < 2049 /\ half[6] < 1025
    BY <1>3, <2>2, SMT
  <2>4. half[7] < 1024 /\ half[8] < 512 /\ half[9] < 256
    BY <1>3, <2>3, SMT
  <2>5. half[10] < 128 /\ half[11] < 64 /\ half[12] < 32
    BY <1>3, <2>4
  <2>6. half[13] < 16 /\ half[14] < 8 /\ half[15] < 4
    BY <1>3, <2>5
  <2>7. half[16] < 2 /\ half[17] < 1
    BY <1>3, <2>6
  <2>8. half[17] = 0 /\ half[18] = 0 /\ half[19] = 0 /\ half[20] = 0 /\ half[21] = 0
    BY <1>3, <2>7
  <2>9. half[22] = 0 /\ half[23] = 0 /\ half[24] = 0 /\ half[25] = 0 /\ half[26] = 0
    BY <1>3, <2>8
  <2>. QED
    BY <1>3, <2>9
<1>. DEFINE T == {k \in 0 .. 32 : upper[k] # half[32 - k]}
<1>5. ASSUME T # {} PROVE FALSE
  <2>1. T \subseteq Nat
    OBVIOUS
  <2>2. Min(T) \in T /\ \A y \in T : Min(T) <= y
    BY <1>5, <2>1, LeastNumber
  <2>3. PICK k \in T : \A y \in T : k <= y
    BY <2>2
  <2>4. k # 0 /\ k \in 1 .. 32 /\ k - 1 \in 0 .. 32 /\ k - 1 \notin T
    BY <1>2, <1>4, <2>3
  <2>5. upper[k - 1] = half[32 - (k - 1)]
    BY <2>4
  <2>6. PICK b \in 0 .. 31 : b = 32 - k
    BY <2>4
  <2>7. 32 - (k - 1) = b + 1 /\ b + 1 \in 1 .. 32 /\ (b + 1) - 1 = b
    BY <2>4, <2>6
  <2>8. half[b] \in Nat /\ half[b + 1] = half[b] \div 2
    BY <1>3, <2>7
  <2>9. b \in Word(num) <=> half[b] % 2 = 1
    BY <1>1, <2>6
  <2>10. upper[k] = 2 * (half[b] \div 2) + (IF half[b] % 2 = 1 THEN 1 ELSE 0)
    BY <1>2, <2>4, <2>5, <2>6, <2>7, <2>8, <2>9
  <2>11. half[b] = 2 * (half[b] \div 2) + (half[b] % 2) /\ half[b] % 2 \in 0 .. 1
    BY <2>8
  <2>12. upper[k] = half[b]
    BY <2>8, <2>10, <2>11
  <2>. QED
    BY <2>3, <2>6, <2>12
<1>. HIDE DEF T
<1>6. T = {}
  BY <1>5
<1>7. \A k \in 0 .. 32 : upper[k] = half[32 - k]
  BY <1>6 DEF T
<1>8. upper[32] = half[0]
  <2>1. 32 \in 0 .. 32 /\ 32 - 32 = 0
    OBVIOUS
  <2>. QED
    BY <1>7, <2>1
<1>. QED
  BY <1>1, <1>2, <1>8

(* Halves, without the remainders. *)
LEMMA HalfOf ==
  ASSUME NEW x \in Nat, NEW y, y = x \div 2
  PROVE  y \in Nat /\ y + y <= x /\ x <= y + y + 1
OBVIOUS

LEMMA SevenHalves ==
  ASSUME NEW x \in Nat, NEW a \in Nat, NEW b \in Nat, NEW c \in Nat, NEW d \in Nat,
         NEW e \in Nat, NEW f \in Nat, NEW g \in Nat, x < 256,
         a + a <= x, x <= a + a + 1, b + b <= a, a <= b + b + 1, c + c <= b, b <= c + c + 1,
         d + d <= c, c <= d + d + 1, e + e <= d, d <= e + e + 1, f + f <= e, e <= f + f + 1,
         g + g <= f, f <= g + g + 1
  PROVE  g \in 0 .. 1 /\ (g = 1 <=> x >= 128)
OBVIOUS

(* The words of small numbers, which are those of the tags. *)
LEMMA SmallWord ==
  ASSUME NEW num \in Nat, num < 256
  PROVE  /\ Word(num) \in SUBSET (0 .. 7)
         /\ 7 \in Word(num) <=> num >= 128
<1>1. PICK half \in [0 .. 32 -> Nat] :
        /\ half[0] = num
        /\ \A b \in 1 .. 32 : half[b] = half[b - 1] \div 2
        /\ Word(num) = {b \in 0 .. 31 : half[b] % 2 = 1}
  BY WordBits
<1>2. \A b \in 1 .. 32 : half[b - 1] \in Nat /\ half[b] \in Nat /\ half[b] = half[b - 1] \div 2
  BY <1>1
<1>3. half[7] \in 0 .. 1 /\ (half[7] = 1 <=> num >= 128)
  <2>1. \A b \in 1 .. 32 : /\ half[b - 1] \in Nat /\ half[b] \in Nat
                           /\ half[b] + half[b] <= half[b - 1]
                           /\ half[b - 1] <= half[b] + half[b] + 1
    BY <1>2, HalfOf
  <2>2. PICK a, b, c, d, e, f, g :
          /\ a = half[1] /\ b = half[2] /\ c = half[3] /\ d = half[4]
          /\ e = half[5] /\ f = half[6] /\ g = half[7]
    OBVIOUS
  <2>3. a \in Nat /\ a + a <= num /\ num <= a + a + 1
    BY <1>1, <2>1, <2>2
  <2>4. b \in Nat /\ b + b <= a /\ a <= b + b + 1
    BY <2>1, <2>2
  <2>5. c \in Nat /\ c + c <= b /\ b <= c + c + 1
    BY <2>1, <2>2
  <2>6. d \in Nat /\ d + d <= c /\ c <= d + d + 1
    BY <2>1, <2>2
  <2>7. e \in Nat /\ e + e <= d /\ d <= e + e + 1
    BY <2>1, <2>2
  <2>8. f \in Nat /\ f + f <= e /\ e <= f + f + 1
    BY <2>1, <2>2
  <2>9. g \in Nat /\ g + g <= f /\ f <= g + g + 1
    BY <2>1, <2>2
  <2>10. g \in 0 .. 1 /\ (g = 1 <=> num >= 128)
    BY <2>3, <2>4, <2>5, <2>6, <2>7, <2>8, <2>9, SevenHalves
  <2>. QED
    BY <2>2, <2>10
<1>4. half[8] = 0
  <2>1. PICK g, h : g = half[7] /\ h = half[8]
    OBVIOUS
  <2>2. g \in Nat /\ g <= 1 /\ h = g \div 2
    BY <1>2, <1>3, <2>1
  <2>3. h \in Nat /\ h + h <= g
    BY <2>2, HalfOf
  <2>4. h + h <= 1
    BY <2>2, <2>3
  <2>5. h = 0
    BY <2>3, <2>4
  <2>. QED
    BY <2>1, <2>5
<1>. DEFINE T == {b \in 8 .. 32 : half[b] # 0}
<1>5. ASSUME T # {} PROVE FALSE
  <2>1. T \subseteq Nat
    OBVIOUS
  <2>2. Min(T) \in T /\ \A y \in T : Min(T) <= y
    BY <1>5, <2>1, LeastNumber
  <2>3. PICK b \in T : \A y \in T : b <= y
    BY <2>2
  <2>4. b # 8 /\ b - 1 \in 8 .. 32 /\ b - 1 \notin T
    BY <1>4, <2>3
  <2>. QED
    BY <1>2, <2>3, <2>4
<1>6. \A b \in 8 .. 31 : b \notin Word(num)
  BY <1>1, <1>5
<1>7. 7 \in Word(num) <=> num >= 128
  <2>1. half[7] % 2 = half[7]
    BY <1>3
  <2>. QED
    BY <1>1, <1>3, <2>1
<1>. QED
  BY <1>6, <1>7, WordType

(* The tag that the descriptor says is the one in the code. *)
LEMMA TagNumber ==
  ASSUME NEW f \in Fields
  PROVE  /\ 8 * f + WireType(f) = TagBytes[f]
         /\ TagBytes[f] \in Nat /\ TagBytes[f] < 256
         /\ TagBytes[f] >= 128 <=> f >= 16
<1>1. f \in 1 .. 23
  BY FieldsAre
<1>2. /\ Type(f) = "uint32" => WireType(f) = 0
      /\ Type(f) = "float" => WireType(f) = 5
      /\ Type(f) = "string" => WireType(f) = 2
      /\ Type(f) = "message" => WireType(f) = 2
  BY DEF WireType
<1>3. CASE f \in 1 .. 6
  BY <1>2, <1>3, TypesAre DEF TagBytes
<1>4. CASE f \in 7 .. 12
  BY <1>2, <1>4, TypesAre DEF TagBytes
<1>5. CASE f \in 13 .. 18
  BY <1>2, <1>5, TypesAre DEF TagBytes
<1>6. CASE f \in 19 .. 23
  BY <1>2, <1>6, TypesAre DEF TagBytes
<1>. QED
  BY <1>1, <1>3, <1>4, <1>5, <1>6

LEMMA SmallPack ==
  ASSUME NEW w \in SUBSET (0 .. 7)
  PROVE  /\ 7 \notin w => uint32_pack(w) = <<w>> /\ uint32_size(w) = 1
         /\ 7 \in w => uint32_pack(w) = <<w, {0}>> /\ uint32_size(w) = 2
<1>. DEFINE size == uint32_size(w)
            sizes == {k \in 1 .. 5 : k = 5 \/ IsBelow(w, 7 * k)}
            packed == uint32_pack(w)
<1>1. w \in SUBSET (0 .. 31)
  OBVIOUS
<1>2. IsVarint(packed, w, size)
  BY <1>1, Pack32
<1>3. size \in sizes /\ \A k \in sizes : size <= k
  <2>1. sizes \subseteq Nat /\ 5 \in sizes /\ sizes # {}
    OBVIOUS
  <2>2. size = Min(sizes)
    BY DEF uint32_size
  <2>. HIDE DEF sizes, size
  <2>3. sizes \subseteq Nat /\ sizes # {}
    BY <2>1
  <2>4. Min(sizes) \in sizes /\ \A k \in sizes : Min(sizes) <= k
    BY <2>3, LeastNumber
  <2>. QED
    BY <2>2, <2>4
<1>4. size \in Nat /\ size >= 1
  BY <1>3
<1>5. 2 \in sizes
  BY DEF IsBelow
<1>6. 7 \notin w => 1 \in sizes
  BY DEF IsBelow
<1>7. 7 \in w => size # 1
  BY <1>3 DEF IsBelow
<1>8. (7 \notin w => size = 1) /\ (7 \in w => size = 2)
  BY <1>3, <1>4, <1>5, <1>6, <1>7
<1>. HIDE DEF size, packed
<1>9. /\ packed \in Seq(SUBSET (0 .. 7)) /\ Len(packed) = size
      /\ \A k \in 1 .. size : packed[k] = Group(w, k) \union (IF k < size THEN {7} ELSE {})
  BY <1>2 DEF IsVarint
<1>10. Group(w, 1) = w \ {7} /\ (7 \in w => Group(w, 2) = {0})
  <2>1. \A b \in 0 .. 6 : b + (7 * 1 - 7) = b /\ (b + (7 * 2 - 7) = 7 <=> b = 0)
    OBVIOUS
  <2>2. \A b \in 0 .. 6 : b + (7 * 2 - 7) \in w => b = 0
    OBVIOUS
  <2>3. Group(w, 1) = {b \in 0 .. 6 : b \in w}
    BY <2>1 DEF Group
  <2>4. 7 \in w => \A b : b \in Group(w, 2) <=> b = 0
    BY <2>1, <2>2 DEF Group
  <2>5. \A b \in w : b \in 0 .. 6 \/ b = 7
    OBVIOUS
  <2>6. \A b \in 0 .. 6 : b # 7
    OBVIOUS
  <2>7. Group(w, 1) = w \ {7}
    <3>1. \A b : b \in Group(w, 1) <=> b \in w \ {7}
      BY <2>3, <2>5, <2>6
    <3>. QED
      BY <3>1, SameSet
  <2>8. 7 \in w => Group(w, 2) = {0}
    BY <2>4
  <2>. QED
    BY <2>7, <2>8
<1>11. ASSUME 7 \notin w PROVE packed = <<w>>
  <2>1. Len(packed) = 1 /\ packed[1] = w
    <3>1. size = 1 /\ 1 \in 1 .. size /\ ~ (1 < size)
      BY <1>8, <1>11
    <3>2. packed[1] = Group(w, 1)
      BY <1>9, <3>1
    <3>. QED
      BY <1>9, <1>10, <1>11, <3>1, <3>2
  <2>. QED
    BY <1>9, <2>1
<1>12. ASSUME 7 \in w PROVE packed = <<w, {0}>>
  <2>1. Len(packed) = 2 /\ packed[1] = w /\ packed[2] = {0}
    <3>1. size = 2 /\ 1 \in 1 .. size /\ 2 \in 1 .. size /\ 1 < size /\ ~ (2 < size)
      BY <1>8, <1>12
    <3>2. packed[1] = Group(w, 1) \union {7} /\ packed[2] = Group(w, 2)
      BY <1>9, <3>1
    <3>. QED
      BY <1>9, <1>10, <1>12, <3>1, <3>2
  <2>. QED
    BY <1>9, <2>1
<1>. QED
  BY <1>8, <1>11, <1>12 DEF size, packed

Bytes8 == SUBSET (0 .. 7)

LEMMA TagIs ==
  ASSUME NEW f \in Fields
  PROVE  /\ uint32_pack(Word(8 * f + WireType(f))) = Tag(f)
         /\ Tag(f) \in Seq(Bytes8) /\ Len(Tag(f)) = TagSize(f)
         /\ TagSize(f) \in 1 .. 2
<1>. DEFINE num == TagBytes[f]
            w == Word(num)
<1>1. num \in Nat /\ num < 256 /\ 8 * f + WireType(f) = num /\ (num >= 128 <=> f >= 16)
  BY TagNumber
<1>2. f \in 1 .. 23
  BY FieldsAre
<1>. HIDE DEF num
<1>3. w \in SUBSET (0 .. 7) /\ (7 \in w <=> num >= 128)
  BY <1>1, SmallWord
<1>. HIDE DEF w
<1>4. (7 \notin w => uint32_pack(w) = <<w>>) /\ (7 \in w => uint32_pack(w) = <<w, {0}>>)
  BY <1>3, SmallPack
<1>5. Tag(f) = IF TagSize(f) = 1 THEN <<w>> ELSE <<w, {0}>>
  BY DEF Tag, w, num
<1>6. TagSize(f) = IF f < 16 THEN 1 ELSE 2
  BY DEF TagSize
<1>7. CASE f < 16
  <2>1. 7 \notin w /\ TagSize(f) = 1
    BY <1>1, <1>2, <1>3, <1>6, <1>7
  <2>2. Tag(f) = <<w>> /\ uint32_pack(w) = <<w>>
    BY <1>4, <1>5, <2>1
  <2>3. <<w>> \in Seq(Bytes8) /\ Len(<<w>>) = 1
    BY <1>3 DEF Bytes8
  <2>. QED
    BY <1>1, <2>1, <2>2, <2>3 DEF w
<1>8. CASE ~ (f < 16)
  <2>1. 7 \in w /\ TagSize(f) = 2
    BY <1>1, <1>2, <1>3, <1>6, <1>8
  <2>2. Tag(f) = <<w, {0}>> /\ uint32_pack(w) = <<w, {0}>>
    BY <1>4, <1>5, <2>1
  <2>3. <<w, {0}>> \in Seq(Bytes8) /\ Len(<<w, {0}>>) = 2
    BY <1>3 DEF Bytes8
  <2>. QED
    BY <1>1, <2>1, <2>2, <2>3 DEF w
<1>. QED
  BY <1>7, <1>8
-----------------------------------------------------------------------------
(* The bytes up to a place. *)

LEMMA BytesJoined ==
  ASSUME NEW s \in Seq(Bytes8), NEW t \in Seq(Bytes8)
  PROVE  /\ s \o t \in Seq(Bytes8) /\ Len(s \o t) = Len(s) + Len(t)
         /\ Len(s) \in Nat /\ Len(t) \in Nat
BY ConcatProperties, LenProperties

LEMMA LengthPack ==
  ASSUME NEW num \in Nat
  PROVE  /\ uint32_pack(Word(num)) \in Seq(Bytes8)
         /\ Len(uint32_pack(Word(num))) = uint32_size(Word(num))
         /\ uint32_size(Word(num)) \in Nat \ {0}
<1>1. IsVarint(uint32_pack(Word(num)), Word(num), uint32_size(Word(num)))
  BY WordType, Pack32
<1>. QED
  BY <1>1 DEF IsVarint, Bytes8

LEMMA DelimitedPack ==
  ASSUME NEW s \in Seq(Bytes8)
  PROVE  delimited_pack(s) \in Seq(Bytes8) /\ Len(delimited_pack(s)) = delimited_size(Len(s))
<1>1. Len(s) \in Nat
  BY LenProperties
<1>2. PICK front \in Seq(Bytes8) : front = uint32_pack(Word(Len(s)))
  BY <1>1, LengthPack
<1>3. Len(front) = uint32_size(Word(Len(s)))
  BY <1>1, <1>2, LengthPack
<1>4. PICK both : both = front \o s
  OBVIOUS
<1>5. both \in Seq(Bytes8) /\ Len(both) = Len(front) + Len(s)
  BY <1>4, Joined
<1>. QED
  BY <1>2, <1>3, <1>4, <1>5 DEF delimited_pack, delimited_size

LEMMA ValuePack ==
  ASSUME NEW f \in Fields, NEW v \in ValuesOf(f), Type(f) # "message"
  PROVE  Pack(f, v) \in Seq(Bytes8) /\ Len(Pack(f, v)) = ValueSize(f, v)
<1>1. CASE Type(f) = "uint32"
  <2>1. v \in SUBSET (0 .. 31)
    BY <1>1 DEF ValuesOf
  <2>2. IsVarint(uint32_pack(v), v, uint32_size(v))
    BY <2>1, Pack32
  <2>. QED
    BY <1>1, <2>2 DEF Pack, ValueSize, IsVarint, Bytes8
<1>2. CASE Type(f) = "float"
  <2>1. PICK size \in {4, 8} : size = 4
    OBVIOUS
  <2>2. v \in SUBSET (0 .. 8 * size - 1)
    BY <1>2, <2>1 DEF ValuesOf
  <2>3. fixed_pack(v, size) \in Seq(SUBSET (0 .. 7)) /\ Len(fixed_pack(v, size)) = size
    BY <2>2, FixedPack
  <2>. QED
    BY <1>2, <2>1, <2>3 DEF Pack, ValueSize, Bytes8
<1>3. CASE Type(f) = "string"
  <2>1. v \in Seq(Bytes8)
    BY <1>3 DEF ValuesOf, Bytes8
  <2>. QED
    BY <1>3, <2>1, DelimitedPack DEF Pack, ValueSize
<1>. QED
  BY <1>1, <1>2, <1>3, TypesAre

(* What Meant is at a place, given what a function g is elsewhere. *)
LastOf(g, m, f, e) ==
  IF Type(f) = "message" THEN delimited_pack(g[All(m[f][e])]) ELSE Pack(f, m[f][e])

BytesAt(g, m, f, e) ==
  IF e \in DOMAIN m[f]
  THEN g[<<m, f, e - 1>>] \o (uint32_pack(Word(8 * f + WireType(f))) \o LastOf(g, m, f, e))
  ELSE IF f = 1 THEN <<>> ELSE g[<<m, f - 1, Len(m[f - 1])>>]

LEMMA BytesAtType ==
  ASSUME NEW g \in [Places -> Seq(Bytes8)], NEW m \in Messages, NEW f \in 1 .. 23, NEW e \in Nat
  PROVE  BytesAt(g, m, f, e) \in Seq(Bytes8)
<1>1. CASE e \in DOMAIN m[f]
  <2>1. e \in 1 .. Len(m[f]) /\ m[f][e] \in ValuesOf(f) /\ f \in Fields
    BY <1>1, MessageParts, FieldsAre
  <2>2. g[<<m, f, e - 1>>] \in Seq(Bytes8)
    BY <2>1, EarlierValue
  <2>3. uint32_pack(Word(8 * f + WireType(f))) \in Seq(Bytes8)
    BY <2>1, TagIs
  <2>4. LastOf(g, m, f, e) \in Seq(Bytes8)
    <3>1. CASE Type(f) = "message"
      <4>1. g[All(m[f][e])] \in Seq(Bytes8)
        BY <2>1, <3>1, EarlierValue
      <4>. QED
        BY <3>1, <4>1, DelimitedPack DEF LastOf
    <3>2. CASE Type(f) # "message"
      BY <2>1, <3>2, ValuePack DEF LastOf
    <3>. QED
      BY <3>1, <3>2
  <2>5. uint32_pack(Word(8 * f + WireType(f))) \o LastOf(g, m, f, e) \in Seq(Bytes8)
    BY <2>3, <2>4, ConcatProperties
  <2>6. g[<<m, f, e - 1>>] \o (uint32_pack(Word(8 * f + WireType(f))) \o LastOf(g, m, f, e))
          \in Seq(Bytes8)
    BY <2>2, <2>5, ConcatProperties
  <2>. QED
    BY <1>1, <2>6 DEF BytesAt
<1>2. CASE e \notin DOMAIN m[f] /\ f = 1
  BY <1>2, EmptySeq DEF BytesAt
<1>3. CASE e \notin DOMAIN m[f] /\ f # 1
  <2>1. g[<<m, f - 1, Len(m[f - 1])>>] \in Seq(Bytes8)
    BY <1>3, EarlierField
  <2>. QED
    BY <1>3, <2>1 DEF BytesAt
<1>. QED
  BY <1>1, <1>2, <1>3

LEMMA BytesAtLocal ==
  ASSUME NEW g, NEW h, NEW m \in Messages, NEW f \in 1 .. 23, NEW e \in Nat,
         \A p \in Places : <<p, <<m, f, e>>>> \in Before => g[p] = h[p]
  PROVE  BytesAt(g, m, f, e) = BytesAt(h, m, f, e)
<1>1. CASE e \in DOMAIN m[f]
  <2>1. e \in 1 .. Len(m[f])
    BY <1>1, MessageParts, FieldsAre
  <2>2. g[<<m, f, e - 1>>] = h[<<m, f, e - 1>>]
    BY <2>1, EarlierValue
  <2>3. Type(f) = "message" => g[All(m[f][e])] = h[All(m[f][e])]
    BY <2>1, EarlierValue
  <2>4. LastOf(g, m, f, e) = LastOf(h, m, f, e)
    BY <2>3 DEF LastOf
  <2>. QED
    BY <1>1, <2>2, <2>4 DEF BytesAt
<1>2. CASE e \notin DOMAIN m[f] /\ f = 1
  BY <1>2 DEF BytesAt
<1>3. CASE e \notin DOMAIN m[f] /\ f # 1
  <2>1. g[<<m, f - 1, Len(m[f - 1])>>] = h[<<m, f - 1, Len(m[f - 1])>>]
    BY <1>3, EarlierField
  <2>. QED
    BY <1>3, <2>1 DEF BytesAt
<1>. QED
  BY <1>1, <1>2, <1>3

LEMMA MeantEquation ==
  \A m \in Messages, f \in 1 .. 23, e \in Nat : Meant[<<m, f, e>>] = BytesAt(Meant, m, f, e)
<1>. DEFINE V == Seq(Bytes8)
            H == [p \in Places |-> [g \in [Places -> V] |-> BytesAt(g, p[1], p[2], p[3])]]
<1>1. H \in [Places -> [[Places -> V] -> V]]
  <2>1. ASSUME NEW p \in Places, NEW g \in [Places -> V]
        PROVE  BytesAt(g, p[1], p[2], p[3]) \in V
    BY BytesAtType, PlaceParts
  <2>. QED
    BY <2>1
<1>2. \A p \in Places, g \in [Places -> V] : H[p][g] = BytesAt(g, p[1], p[2], p[3])
  OBVIOUS
<1>0. V # {}
  BY EmptySeq
<1>. HIDE DEF H, V
<1>3. IsLocal(Before, Places, V, H)
  <2>1. ASSUME NEW d \in Places, NEW g \in [Places -> V], NEW h \in [Places -> V],
               \A p \in Places : <<p, d>> \in Before => g[p] = h[p]
        PROVE  H[d][g] = H[d][h]
    <3>1. PICK m \in Messages, f \in 1 .. 23, e \in Nat :
            m = d[1] /\ f = d[2] /\ e = d[3] /\ d = <<m, f, e>>
      BY PlaceParts
    <3>2. \A p \in Places : <<p, <<m, f, e>>>> \in Before => g[p] = h[p]
      BY <2>1, <3>1
    <3>3. BytesAt(g, m, f, e) = BytesAt(h, m, f, e)
      BY <3>2, BytesAtLocal
    <3>4. H[d][g] = BytesAt(g, d[1], d[2], d[3]) /\ H[d][h] = BytesAt(h, d[1], d[2], d[3])
      BY <1>2
    <3>. QED
      BY <3>1, <3>3, <3>4
  <2>. QED
    BY <2>1 DEF IsLocal
<1>4. PICK F \in [Places -> V] : \A p \in Places : F[p] = H[p][F]
  <2>1. IsBody(Places, V, H)
    BY <1>0, <1>1 DEF IsBody
  <2>2. IsDefined(Places, V, H)
    BY <1>3, <2>1, BeforeIsOrder, Recursion
  <2>. QED
    BY <2>2 DEF IsDefined
<1>5. F = [p \in Places |-> BytesAt(F, p[1], p[2], p[3])]
  BY <1>2, <1>4
<1>6. Meant = [p \in Places |-> BytesAt(Meant, p[1], p[2], p[3])]
  BY <1>5 DEF Meant, BytesAt, LastOf
<1>. DEFINE C == Meant
<1>7. C = [p \in Places |-> BytesAt(C, p[1], p[2], p[3])]
  BY <1>6
<1>. HIDE DEF C
<1>8. ASSUME NEW m \in Messages, NEW f \in 1 .. 23, NEW e \in Nat
      PROVE  C[<<m, f, e>>] = BytesAt(C, m, f, e)
  <2>0. <<m, f, e>> \in Places
    BY PlaceOf
  <2>1. PICK p \in Places : p = <<m, f, e>> /\ p[1] = m /\ p[2] = f /\ p[3] = e
    BY <2>0
  <2>2. C[p] = BytesAt(C, p[1], p[2], p[3])
    BY <1>7
  <2>. QED
    BY <2>1, <2>2
<1>. QED
  BY <1>8 DEF C

(* What is counted is what is meant. *)
Agrees(p) ==
  /\ Counted[p] \in Nat
  /\ Meant[p] \in Seq(Bytes8)
  /\ Len(Meant[p]) = Counted[p]

LEMMA AgreesAt ==
  ASSUME NEW m \in Messages, NEW f \in 1 .. 23, NEW e \in Nat,
         \A p \in Places : <<p, <<m, f, e>>>> \in Before => Agrees(p)
  PROVE  Agrees(<<m, f, e>>)
<1>1. Counted[<<m, f, e>>] = SizeAt(Counted, m, f, e) /\ Meant[<<m, f, e>>] = BytesAt(Meant, m, f, e)
  BY CountedEquation, MeantEquation
<1>2. CASE e \in DOMAIN m[f]
  <2>1. e \in 1 .. Len(m[f]) /\ m[f][e] \in ValuesOf(f) /\ f \in Fields
    BY <1>2, MessageParts, FieldsAre
  <2>2. Agrees(<<m, f, e - 1>>)
    BY <2>1, EarlierValue
  <2>. DEFINE size == IF Type(f) = "message"
                      THEN delimited_size(Counted[All(m[f][e])])
                      ELSE ValueSize(f, m[f][e])
              tag == uint32_pack(Word(8 * f + WireType(f)))
              last == LastOf(Meant, m, f, e)
              front == Meant[<<m, f, e - 1>>]
  <2>3. last \in Seq(Bytes8) /\ Len(last) = size
    <3>1. CASE Type(f) = "message"
      <4>1. Agrees(All(m[f][e]))
        BY <2>1, <3>1, EarlierValue
      <4>. QED
        BY <3>1, <4>1, DelimitedPack DEF LastOf, Agrees
    <3>2. CASE Type(f) # "message"
      BY <2>1, <3>2, ValuePack DEF LastOf
    <3>. QED
      BY <3>1, <3>2
  <2>4. tag \in Seq(Bytes8) /\ Len(tag) = TagSize(f)
    BY <2>1, TagIs
  <2>5. front \in Seq(Bytes8) /\ Len(front) = Counted[<<m, f, e - 1>>]
    BY <2>2 DEF Agrees
  <2>6. /\ Counted[<<m, f, e>>] = Counted[<<m, f, e - 1>>] + TagSize(f) + size
        /\ Meant[<<m, f, e>>] = front \o (tag \o last)
    BY <1>1, <1>2 DEF SizeAt, BytesAt
  <2>. HIDE DEF front, tag, last, size
  <2>7. /\ tag \o last \in Seq(Bytes8) /\ Len(tag \o last) = Len(tag) + Len(last)
        /\ Len(tag) \in Nat /\ Len(last) \in Nat
    BY <2>3, <2>4, BytesJoined
  <2>8. /\ front \o (tag \o last) \in Seq(Bytes8)
        /\ Len(front \o (tag \o last)) = Len(front) + Len(tag \o last) /\ Len(front) \in Nat
    BY <2>5, <2>7, BytesJoined
  <2>. QED
    BY <2>3, <2>4, <2>5, <2>6, <2>7, <2>8 DEF Agrees
<1>3. CASE e \notin DOMAIN m[f] /\ f = 1
  BY <1>1, <1>3, EmptySeq DEF SizeAt, BytesAt, Agrees
<1>4. CASE e \notin DOMAIN m[f] /\ f # 1
  <2>1. Agrees(<<m, f - 1, Len(m[f - 1])>>)
    BY <1>4, EarlierField
  <2>. QED
    BY <1>1, <1>4, <2>1 DEF SizeAt, BytesAt, Agrees
<1>. QED
  BY <1>2, <1>3, <1>4

LEMMA AllAgree == \A p \in Places : Agrees(p)
<1>. DEFINE T == {p \in Places : ~ Agrees(p)}
<1>1. ASSUME T # {} PROVE FALSE
  <2>1. T \in SUBSET Places
    OBVIOUS
  <2>2. PICK p \in T : \A q \in T : <<q, p>> \notin Before
    <3>. HIDE DEF T
    <3>. QED
      BY <1>1, <2>1, BeforeIsOrder DEF IsOrder
  <2>3. p \in Places /\ ~ Agrees(p) /\ \A q \in Places : <<q, p>> \in Before => Agrees(q)
    BY <2>2
  <2>4. PICK m \in Messages, f \in 1 .. 23, e \in Nat : p = <<m, f, e>>
    BY <2>3, PlaceParts
  <2>5. \A q \in Places : <<q, <<m, f, e>>>> \in Before => Agrees(q)
    BY <2>3, <2>4
  <2>6. Agrees(<<m, f, e>>)
    BY <2>5, AgreesAt
  <2>. QED
    BY <2>3, <2>4, <2>6
<1>. QED
  BY <1>1
-----------------------------------------------------------------------------
(* Sequences that are put together and taken apart. *)

LEMMA SameSeq ==
  ASSUME NEW S, NEW s \in Seq(S), NEW t \in Seq(S), Len(s) = Len(t),
         \A k \in 1 .. Len(s) : s[k] = t[k]
  PROVE  s = t
BY SeqEqual

LEMMA JoinedThree ==
  ASSUME NEW S, NEW a \in Seq(S), NEW b \in Seq(S), NEW c \in Seq(S)
  PROVE  (a \o b) \o c = a \o (b \o c)
<1>1. PICK ab, bc, left, right : ab = a \o b /\ bc = b \o c /\ left = ab \o c /\ right = a \o bc
  OBVIOUS
<1>2. /\ ab \in Seq(S) /\ Len(ab) = Len(a) + Len(b) /\ Len(a) \in Nat /\ Len(b) \in Nat
      /\ \A k \in 1 .. Len(a) : ab[k] = a[k]
      /\ \A k \in 1 .. Len(b) : ab[k + Len(a)] = b[k]
  BY <1>1, Joined
<1>3. /\ bc \in Seq(S) /\ Len(bc) = Len(b) + Len(c) /\ Len(c) \in Nat
      /\ \A k \in 1 .. Len(b) : bc[k] = b[k]
      /\ \A k \in 1 .. Len(c) : bc[k + Len(b)] = c[k]
  BY <1>1, Joined
<1>4. /\ left \in Seq(S) /\ Len(left) = Len(ab) + Len(c)
      /\ \A k \in 1 .. Len(ab) : left[k] = ab[k]
      /\ \A k \in 1 .. Len(c) : left[k + Len(ab)] = c[k]
  BY <1>1, <1>2, Joined
<1>5. /\ right \in Seq(S) /\ Len(right) = Len(a) + Len(bc)
      /\ \A k \in 1 .. Len(a) : right[k] = a[k]
      /\ \A k \in 1 .. Len(bc) : right[k + Len(a)] = bc[k]
  BY <1>1, <1>3, Joined
<1>6. Len(left) = Len(right)
  BY <1>2, <1>3, <1>4, <1>5
<1>7. ASSUME NEW k \in 1 .. Len(left) PROVE left[k] = right[k]
  <2>1. CASE k <= Len(a)
    BY <1>2, <1>4, <1>5, <2>1
  <2>2. CASE k > Len(a) /\ k <= Len(a) + Len(b)
    <3>1. PICK j \in 1 .. Len(b) : k = j + Len(a)
      <4>1. k - Len(a) \in 1 .. Len(b) /\ k = (k - Len(a)) + Len(a)
        BY <1>2, <2>2
      <4>. QED
        BY <4>1
    <3>2. k \in 1 .. Len(ab) /\ j \in 1 .. Len(bc)
      BY <1>2, <1>3, <3>1
    <3>3. left[k] = ab[j + Len(a)] /\ right[k] = bc[j]
      BY <1>4, <1>5, <3>1, <3>2
    <3>. QED
      BY <1>2, <1>3, <3>1, <3>3
  <2>3. CASE k > Len(a) + Len(b)
    <3>1. PICK j \in 1 .. Len(c) : k = j + (Len(a) + Len(b))
      <4>1. k - (Len(a) + Len(b)) \in 1 .. Len(c) /\ k = (k - (Len(a) + Len(b))) + (Len(a) + Len(b))
        BY <1>2, <1>3, <1>4, <2>3
      <4>. QED
        BY <4>1
    <3>2. /\ k = j + Len(ab) /\ k = (j + Len(b)) + Len(a)
          /\ j + Len(b) \in 1 .. Len(bc)
      BY <1>2, <1>3, <3>1
    <3>3. left[k] = c[j] /\ right[k] = bc[j + Len(b)]
      BY <1>4, <1>5, <3>2
    <3>. QED
      BY <1>3, <3>3
  <2>. QED
    BY <1>2, <1>3, <1>4, <2>1, <2>2, <2>3
<1>8. left = right
  BY <1>4, <1>5, <1>6, <1>7, SameSeq
<1>. QED
  BY <1>1, <1>8

LEMMA WholePart ==
  ASSUME NEW S, NEW s \in Seq(S), NEW num, num = Len(s)
  PROVE  SubSeq(s, 1, num) = s
<1>1. PICK first \in Nat \ {0} : first = 1
  OBVIOUS
<1>2. PICK part : part = SubSeq(s, first, num)
  OBVIOUS
<1>3. num \in Nat
  BY LenProperties
<1>4. /\ part \in Seq(S) /\ Len(part) = num - first + 1
      /\ \A k \in 1 .. Len(part) : part[k] = s[k + (first - 1)]
  BY <1>1, <1>2, <1>3, PartOf
<1>5. Len(part) = Len(s) /\ \A k \in 1 .. Len(part) : part[k] = s[k]
  BY <1>1, <1>3, <1>4
<1>6. part = s
  BY <1>4, <1>5, SameSeq
<1>. QED
  BY <1>1, <1>2, <1>6

LEMMA FrontPart ==
  ASSUME NEW S, NEW s \in Seq(S), NEW num \in 0 .. Len(s)
  PROVE  /\ SubSeq(s, 1, num) \in Seq(S) /\ Len(SubSeq(s, 1, num)) = num
         /\ \A k \in 1 .. num : SubSeq(s, 1, num)[k] = s[k]
<1>1. PICK first \in Nat \ {0} : first = 1
  OBVIOUS
<1>2. PICK part : part = SubSeq(s, first, num)
  OBVIOUS
<1>3. num \in Nat /\ num <= Len(s) /\ Len(s) \in Nat
  BY LenProperties
<1>4. /\ part \in Seq(S) /\ Len(part) = num - first + 1
      /\ \A k \in 1 .. Len(part) : part[k] = s[k + (first - 1)]
  BY <1>1, <1>2, <1>3, PartOf
<1>5. Len(part) = num /\ \A k \in 1 .. num : part[k] = s[k]
  BY <1>1, <1>3, <1>4
<1>. QED
  BY <1>1, <1>2, <1>4, <1>5

LEMMA FrontOfJoined ==
  ASSUME NEW S, NEW a \in Seq(S), NEW b \in Seq(S), NEW num \in 0 .. Len(a)
  PROVE  SubSeq(a \o b, 1, num) = SubSeq(a, 1, num)
<1>1. PICK ab : ab = a \o b
  OBVIOUS
<1>2. /\ ab \in Seq(S) /\ Len(ab) = Len(a) + Len(b) /\ Len(a) \in Nat /\ Len(b) \in Nat
      /\ \A k \in 1 .. Len(a) : ab[k] = a[k]
  BY <1>1, Joined
<1>3. num \in 0 .. Len(ab)
  BY <1>2
<1>4. PICK left, right : left = SubSeq(ab, 1, num) /\ right = SubSeq(a, 1, num)
  OBVIOUS
<1>5. left \in Seq(S) /\ Len(left) = num /\ \A k \in 1 .. num : left[k] = ab[k]
  BY <1>2, <1>3, <1>4, FrontPart
<1>6. right \in Seq(S) /\ Len(right) = num /\ \A k \in 1 .. num : right[k] = a[k]
  BY <1>4, FrontPart
<1>7. \A k \in 1 .. num : left[k] = right[k]
  BY <1>2, <1>5, <1>6
<1>8. left = right
  BY <1>5, <1>6, <1>7, SameSeq
<1>. QED
  BY <1>1, <1>4, <1>8

LEMMA BackOfJoined ==
  ASSUME NEW S, NEW a \in Seq(S), NEW b \in Seq(S), NEW num, num = Len(a) + Len(b)
  PROVE  SubSeq(a \o b, Len(a) + 1, num) = b
<1>1. PICK ab : ab = a \o b
  OBVIOUS
<1>2. /\ ab \in Seq(S) /\ Len(ab) = Len(a) + Len(b) /\ Len(a) \in Nat /\ Len(b) \in Nat
      /\ \A k \in 1 .. Len(b) : ab[k + Len(a)] = b[k]
  BY <1>1, Joined
<1>3. PICK first \in Nat \ {0} : first = Len(a) + 1
  BY <1>2
<1>4. PICK last \in Nat : last = Len(a) + Len(b)
  BY <1>2
<1>5. PICK part : part = SubSeq(ab, first, last)
  OBVIOUS
<1>6. first <= last + 1 /\ last <= Len(ab)
  BY <1>2, <1>3, <1>4
<1>7. /\ part \in Seq(S) /\ Len(part) = last - first + 1
      /\ \A k \in 1 .. Len(part) : part[k] = ab[k + (first - 1)]
  <2>1. ab \in Seq(S)
    BY <1>2
  <2>. QED
    BY <1>5, <1>6, <2>1, PartOf
<1>8. Len(part) = Len(b) /\ \A k \in 1 .. Len(part) : part[k] = b[k]
  BY <1>2, <1>3, <1>4, <1>7
<1>9. part = b
  BY <1>7, <1>8, SameSeq
<1>. QED
  BY <1>1, <1>3, <1>4, <1>5, <1>9

LEMMA Divided ==
  ASSUME NEW S, NEW s \in Seq(S), NEW num \in 0 .. Len(s)
  PROVE  /\ SubSeq(s, num + 1, Len(s)) \in Seq(S)
         /\ Len(SubSeq(s, num + 1, Len(s))) = Len(s) - num
         /\ s = SubSeq(s, 1, num) \o SubSeq(s, num + 1, Len(s))
<1>1. num \in Nat /\ Len(s) \in Nat
  BY LenProperties
<1>2. PICK first \in Nat \ {0} : first = num + 1
  BY <1>1
<1>3. PICK last \in Nat : last = Len(s)
  BY <1>1
<1>4. PICK front : front = SubSeq(s, 1, num)
  OBVIOUS
<1>5. PICK back : back = SubSeq(s, first, last)
  OBVIOUS
<1>6. front \in Seq(S) /\ Len(front) = num /\ \A k \in 1 .. num : front[k] = s[k]
  BY <1>4, FrontPart
<1>7. first <= last + 1 /\ last <= Len(s)
  BY <1>1, <1>2, <1>3
<1>8. /\ back \in Seq(S) /\ Len(back) = last - first + 1
      /\ \A k \in 1 .. Len(back) : back[k] = s[k + (first - 1)]
  BY <1>5, <1>7, PartOf
<1>9. PICK both : both = front \o back
  OBVIOUS
<1>10. /\ both \in Seq(S) /\ Len(both) = Len(front) + Len(back)
       /\ \A k \in 1 .. Len(front) : both[k] = front[k]
       /\ \A k \in 1 .. Len(back) : both[k + Len(front)] = back[k]
  <2>1. front \in Seq(S) /\ back \in Seq(S)
    BY <1>6, <1>8
  <2>. QED
    BY <1>9, <2>1, Joined
<1>11. Len(back) = Len(s) - num /\ Len(both) = Len(s)
  BY <1>1, <1>2, <1>3, <1>6, <1>8, <1>10
<1>12. ASSUME NEW k \in 1 .. Len(s) PROVE s[k] = both[k]
  <2>1. CASE k <= num
    <3>1. k \in 1 .. num /\ k \in 1 .. Len(front)
      BY <1>6, <2>1
    <3>. QED
      BY <1>6, <1>10, <3>1
  <2>2. CASE k > num
    <3>1. PICK j \in 1 .. Len(back) : k = j + num
      <4>1. k - num \in 1 .. Len(back) /\ k = (k - num) + num
        BY <1>1, <1>11, <2>2
      <4>. QED
        BY <4>1
    <3>2. j + (first - 1) = k /\ j + Len(front) = k
      BY <1>1, <1>2, <1>6, <3>1
    <3>. QED
      BY <1>8, <1>10, <3>2
  <2>. QED
    BY <1>1, <2>1, <2>2
<1>13. both = s
  BY <1>10, <1>11, <1>12, SameSeq
<1>. QED
  BY <1>2, <1>3, <1>4, <1>5, <1>8, <1>9, <1>11, <1>13
-----------------------------------------------------------------------------
(* The bytes of a value, and of all the values of a request. *)

LEMMA PlaceAgrees ==
  ASSUME NEW m \in Messages, NEW f \in 1 .. 23, NEW e \in Nat
  PROVE  /\ Counted[<<m, f, e>>] \in Nat /\ Meant[<<m, f, e>>] \in Seq(Bytes8)
         /\ Len(Meant[<<m, f, e>>]) = Counted[<<m, f, e>>]
<1>1. <<m, f, e>> \in Places
  BY PlaceOf
<1>. QED
  BY <1>1, AllAgree DEF Agrees

LEMMA WholeAgrees ==
  ASSUME NEW m \in Messages
  PROVE  /\ Counted[All(m)] \in Nat /\ Meant[All(m)] \in Seq(Bytes8)
         /\ Len(Meant[All(m)]) = Counted[All(m)]
BY AllIsPlace, AllAgree DEF Agrees

(* What the code writes for a value after its tag. *)
Written(f, v) == IF Type(f) = "message" THEN delimited_pack(Meant[All(v)]) ELSE Pack(f, v)

LEMMA WrittenType ==
  ASSUME NEW m \in Messages, NEW f \in 1 .. 23, NEW e \in 1 .. Len(m[f])
  PROVE  Written(f, m[f][e]) \in Seq(Bytes8) /\ Len(Written(f, m[f][e])) \in Nat
<1>1. m[f][e] \in ValuesOf(f) /\ f \in Fields
  BY MessageParts, FieldsAre
<1>2. CASE Type(f) = "message"
  <2>1. m[f][e] \in Messages
    BY <1>1, <1>2, NestedMessage
  <2>2. Meant[All(m[f][e])] \in Seq(Bytes8)
    BY <2>1, WholeAgrees
  <2>. QED
    BY <1>2, <2>2, DelimitedPack, LenProperties DEF Written
<1>3. CASE Type(f) # "message"
  BY <1>1, <1>3, ValuePack, LenProperties DEF Written
<1>. QED
  BY <1>2, <1>3

(* The bytes of one more value. *)
LEMMA OneMore ==
  ASSUME NEW m \in Messages, NEW f \in 1 .. 23, NEW e \in 1 .. Len(m[f])
  PROVE  /\ e \in Nat /\ e - 1 \in Nat
         /\ Meant[<<m, f, e>>] = Meant[<<m, f, e - 1>>] \o (Tag(f) \o Written(f, m[f][e]))
         /\ Counted[<<m, f, e>>] = Counted[<<m, f, e - 1>>] + (TagSize(f) + Len(Written(f, m[f][e])))
         /\ Counted[<<m, f, e - 1>>] \in Nat /\ Meant[<<m, f, e - 1>>] \in Seq(Bytes8)
<1>1. e \in DOMAIN m[f] /\ f \in Fields /\ e \in Nat /\ e - 1 \in Nat
  BY MessageParts, FieldsAre
<1>2. Meant[<<m, f, e>>] = BytesAt(Meant, m, f, e)
  BY <1>1, MeantEquation
<1>3. uint32_pack(Word(8 * f + WireType(f))) = Tag(f) /\ Tag(f) \in Seq(Bytes8)
      /\ Len(Tag(f)) = TagSize(f)
  BY <1>1, TagIs
<1>4. LastOf(Meant, m, f, e) = Written(f, m[f][e])
  BY DEF LastOf, Written
<1>5. Meant[<<m, f, e>>] = Meant[<<m, f, e - 1>>] \o (Tag(f) \o Written(f, m[f][e]))
  BY <1>1, <1>2, <1>3, <1>4 DEF BytesAt
<1>6. /\ Len(Meant[<<m, f, e>>]) = Counted[<<m, f, e>>]
      /\ Counted[<<m, f, e - 1>>] \in Nat /\ Meant[<<m, f, e - 1>>] \in Seq(Bytes8)
      /\ Len(Meant[<<m, f, e - 1>>]) = Counted[<<m, f, e - 1>>]
  BY <1>1, PlaceAgrees
<1>7. Written(f, m[f][e]) \in Seq(Bytes8)
  BY WrittenType
<1>8. /\ Tag(f) \o Written(f, m[f][e]) \in Seq(Bytes8)
      /\ Len(Tag(f) \o Written(f, m[f][e])) = TagSize(f) + Len(Written(f, m[f][e]))
  BY <1>3, <1>7, BytesJoined
<1>9. Len(Meant[<<m, f, e>>])
        = Counted[<<m, f, e - 1>>] + (TagSize(f) + Len(Written(f, m[f][e])))
  BY <1>5, <1>6, <1>8, BytesJoined
<1>. QED
  BY <1>1, <1>5, <1>6, <1>9

(* Where nothing is left of a field, the next one starts. *)
LEMMA AtNext ==
  ASSUME NEW m \in Messages, NEW f \in 1 .. 22
  PROVE  /\ Counted[<<m, f + 1, 0>>] = Counted[<<m, f, Len(m[f])>>]
         /\ Meant[<<m, f + 1, 0>>] = Meant[<<m, f, Len(m[f])>>]
<1>1. PICK g \in 1 .. 23 : g = f + 1 /\ g # 1 /\ g - 1 = f
  OBVIOUS
<1>2. PICK e \in Nat : e = 0
  OBVIOUS
<1>3. e \notin DOMAIN m[g]
  <2>1. g \in Fields
    BY FieldsAre
  <2>2. DOMAIN m[g] = 1 .. Len(m[g])
    BY <2>1, MessageParts
  <2>. QED
    BY <1>2, <2>2
<1>4. Counted[<<m, g, e>>] = SizeAt(Counted, m, g, e) /\ Meant[<<m, g, e>>] = BytesAt(Meant, m, g, e)
  BY CountedEquation, MeantEquation
<1>5. /\ Counted[<<m, g, e>>] = Counted[<<m, g - 1, Len(m[g - 1])>>]
      /\ Meant[<<m, g, e>>] = Meant[<<m, g - 1, Len(m[g - 1])>>]
  BY <1>1, <1>3, <1>4 DEF SizeAt, BytesAt
<1>. QED
  BY <1>1, <1>2, <1>5

LEMMA AtStart ==
  ASSUME NEW m \in Messages
  PROVE  Counted[<<m, 1, 0>>] = 0 /\ Meant[<<m, 1, 0>>] = <<>>
<1>1. PICK g \in 1 .. 23 : g = 1
  OBVIOUS
<1>2. PICK e \in Nat : e = 0
  OBVIOUS
<1>3. e \notin DOMAIN m[g]
  <2>1. g \in Fields
    BY FieldsAre
  <2>2. DOMAIN m[g] = 1 .. Len(m[g])
    BY <2>1, MessageParts
  <2>. QED
    BY <1>2, <2>2
<1>4. Counted[<<m, g, e>>] = SizeAt(Counted, m, g, e) /\ Meant[<<m, g, e>>] = BytesAt(Meant, m, g, e)
  BY CountedEquation, MeantEquation
<1>. QED
  BY <1>1, <1>2, <1>3, <1>4 DEF SizeAt, BytesAt

(* What is written at a place is the start of what is written in the end. *)
StartsWith(s, t) == \E r \in Seq(Bytes8) : s = t \o r

LEMMA StartsTransitive ==
  ASSUME NEW s, NEW t, NEW u \in Seq(Bytes8), StartsWith(s, t), StartsWith(t, u)
  PROVE  StartsWith(s, u)
<1>1. PICK r \in Seq(Bytes8) : s = t \o r
  BY DEF StartsWith
<1>2. PICK q \in Seq(Bytes8) : t = u \o q
  BY DEF StartsWith
<1>3. s = u \o (q \o r) /\ q \o r \in Seq(Bytes8)
  BY <1>1, <1>2, JoinedThree, BytesJoined
<1>. QED
  BY <1>3 DEF StartsWith

LEMMA StartsItself ==
  ASSUME NEW s \in Seq(Bytes8)
  PROVE  StartsWith(s, s)
<1>1. <<>> \in Seq(Bytes8) /\ s \o <<>> = s
  BY EmptySeq, ConcatEmptySeq
<1>. QED
  BY <1>1 DEF StartsWith

LEMMA FieldStarts ==
  ASSUME NEW m \in Messages, NEW f \in 1 .. 23, NEW e \in 0 .. Len(m[f])
  PROVE  StartsWith(Meant[<<m, f, Len(m[f])>>], Meant[<<m, f, e>>])
<1>0. Len(m[f]) \in Nat /\ e \in Nat
  BY MessageParts, FieldsAre
<1>. DEFINE T == {d \in e .. Len(m[f]) : ~ StartsWith(Meant[<<m, f, d>>], Meant[<<m, f, e>>])}
<1>1. ASSUME T # {} PROVE FALSE
  <2>1. T \subseteq Nat
    BY <1>0
  <2>2. Min(T) \in T /\ \A y \in T : Min(T) <= y
    BY <1>1, <2>1, LeastNumber
  <2>3. PICK d \in T : \A y \in T : d <= y
    BY <2>2
  <2>4. Meant[<<m, f, e>>] \in Seq(Bytes8)
    BY <1>0, PlaceAgrees
  <2>5. d # e
    BY <2>3, <2>4, StartsItself
  <2>6. d \in 1 .. Len(m[f]) /\ d - 1 \in e .. Len(m[f]) /\ d - 1 \notin T
    BY <1>0, <2>3, <2>5
  <2>7. StartsWith(Meant[<<m, f, d - 1>>], Meant[<<m, f, e>>])
    BY <2>6
  <2>8. StartsWith(Meant[<<m, f, d>>], Meant[<<m, f, d - 1>>])
    <3>1. Written(f, m[f][d]) \in Seq(Bytes8) /\ Tag(f) \in Seq(Bytes8)
      BY <2>6, WrittenType, TagIs, FieldsAre
    <3>2. Tag(f) \o Written(f, m[f][d]) \in Seq(Bytes8)
      BY <3>1, BytesJoined
    <3>3. Meant[<<m, f, d>>] = Meant[<<m, f, d - 1>>] \o (Tag(f) \o Written(f, m[f][d]))
      BY <2>6, OneMore
    <3>. QED
      BY <3>2, <3>3 DEF StartsWith
  <2>9. StartsWith(Meant[<<m, f, d>>], Meant[<<m, f, e>>])
    BY <2>4, <2>7, <2>8, StartsTransitive
  <2>. QED
    BY <2>3, <2>9
<1>2. Len(m[f]) \in e .. Len(m[f])
  BY <1>0
<1>. QED
  BY <1>1, <1>2

LEMMA WholeStarts ==
  ASSUME NEW m \in Messages, NEW f \in 1 .. 23, NEW e \in 0 .. Len(m[f])
  PROVE  StartsWith(Meant[All(m)], Meant[<<m, f, e>>])
<1>0. Len(m[f]) \in Nat /\ e \in Nat
  BY MessageParts, FieldsAre
<1>. DEFINE T == {g \in f .. 23 : ~ StartsWith(Meant[<<m, g, Len(m[g])>>], Meant[<<m, f, e>>])}
<1>1. ASSUME T # {} PROVE FALSE
  <2>1. T \subseteq Nat
    <3>1. T \subseteq f .. 23
      OBVIOUS
    <3>2. f .. 23 \subseteq Nat
      OBVIOUS
    <3>. HIDE DEF T
    <3>. QED
      BY <3>1, <3>2
  <2>2. Min(T) \in T /\ \A y \in T : Min(T) <= y
    BY <1>1, <2>1, LeastNumber
  <2>3. PICK g \in T : \A y \in T : g <= y
    BY <2>2
  <2>4. Meant[<<m, f, e>>] \in Seq(Bytes8)
    BY <1>0, PlaceAgrees
  <2>5. g # f
    BY <2>3, FieldStarts
  <2>6. g \in 2 .. 23 /\ g - 1 \in f .. 23 /\ g - 1 \notin T
    BY <2>3, <2>5
  <2>7. StartsWith(Meant[<<m, g - 1, Len(m[g - 1])>>], Meant[<<m, f, e>>])
    BY <2>6
  <2>8. StartsWith(Meant[<<m, g, Len(m[g])>>], Meant[<<m, g - 1, Len(m[g - 1])>>])
    <3>1. PICK h \in 1 .. 22 : h = g - 1 /\ g = h + 1
      BY <2>6
    <3>2. Meant[<<m, g, 0>>] = Meant[<<m, h, Len(m[h])>>]
      BY <3>1, AtNext
    <3>3. g \in 1 .. 23 /\ 0 \in 0 .. Len(m[g])
      <4>1. g \in Fields /\ g \in 1 .. 23
        BY <2>6, FieldsAre
      <4>2. Len(m[g]) \in Nat
        BY <4>1, MessageParts
      <4>. QED
        BY <4>1, <4>2
    <3>4. StartsWith(Meant[<<m, g, Len(m[g])>>], Meant[<<m, g, 0>>])
      BY <3>3, FieldStarts
    <3>. QED
      BY <3>1, <3>2, <3>4
  <2>9. StartsWith(Meant[<<m, g, Len(m[g])>>], Meant[<<m, f, e>>])
    BY <2>4, <2>7, <2>8, StartsTransitive
  <2>. QED
    BY <2>3, <2>9
<1>2. 23 \in f .. 23
  OBVIOUS
<1>3. StartsWith(Meant[<<m, 23, Len(m[23])>>], Meant[<<m, f, e>>])
  BY <1>1, <1>2
<1>. QED
  BY <1>3, AllIsPlace

LEMMA WholeCounts ==
  ASSUME NEW m \in Messages, NEW f \in 1 .. 23, NEW e \in 0 .. Len(m[f])
  PROVE  Counted[<<m, f, e>>] <= Counted[All(m)]
<1>0. e \in Nat
  BY MessageParts, FieldsAre
<1>1. PICK r \in Seq(Bytes8) : Meant[All(m)] = Meant[<<m, f, e>>] \o r
  BY WholeStarts DEF StartsWith
<1>2. /\ Counted[<<m, f, e>>] \in Nat /\ Meant[<<m, f, e>>] \in Seq(Bytes8)
      /\ Len(Meant[<<m, f, e>>]) = Counted[<<m, f, e>>]
  BY <1>0, PlaceAgrees
<1>3. Len(Meant[All(m)]) = Counted[All(m)]
  BY WholeAgrees
<1>4. Len(Meant[All(m)]) = Counted[<<m, f, e>>] + Len(r) /\ Len(r) \in Nat
  BY <1>1, <1>2, BytesJoined
<1>. QED
  BY <1>2, <1>3, <1>4
-----------------------------------------------------------------------------
(* The stack of calls. *)

(* The last call of a stack may change, another come on top of it, or end. *)
LEMMA StackIsSeq ==
  ASSUME Depth \in Nat, stack = [k \in 1 .. Depth |-> stack[k]], NEW c
  PROVE  \E S : stack \in Seq(S) /\ c \in S
<1>. DEFINE S == {stack[k] : k \in 1 .. Depth} \union {c}
            depth == Depth
<1>1. stack \in [1 .. depth -> S] /\ depth \in Nat
  OBVIOUS
<1>. HIDE DEF S, depth
<1>2. stack \in Seq(S)
  BY <1>1, FunctionIsSeq
<1>. QED
  BY <1>2 DEF S

LEMMA StackChanged ==
  ASSUME Depth \in Nat \ {0}, stack = [k \in 1 .. Depth |-> stack[k]], NEW c,
         stack' = [stack EXCEPT ![Depth] = c]
  PROVE  /\ Depth' = Depth
         /\ stack' = [k \in 1 .. Depth' |-> stack'[k]]
         /\ stack'[Depth] = c
         /\ \A k \in 1 .. Depth : k # Depth => stack'[k] = stack[k]
<1>1. PICK S : stack \in Seq(S) /\ c \in S
  BY StackIsSeq
<1>. DEFINE depth == Depth
<1>2. depth \in Nat \ {0} /\ depth \in 1 .. depth
  OBVIOUS
<1>3. stack \in [1 .. depth -> S]
  BY <1>1, LenProperties
<1>. HIDE DEF depth
<1>4. stack' = [stack EXCEPT ![depth] = c]
  BY DEF depth
<1>5. stack' \in [1 .. depth -> S]
  BY <1>1, <1>3, <1>4
<1>6. Len(stack') = depth
  BY <1>2, <1>5, FunctionIsSeq
<1>7. stack' = [k \in 1 .. depth |-> stack'[k]] /\ stack'[depth] = c
      /\ \A k \in 1 .. depth : k # depth => stack'[k] = stack[k]
  BY <1>2, <1>3, <1>4, <1>5
<1>. QED
  BY <1>6, <1>7 DEF Depth, depth

LEMMA StackPushed ==
  ASSUME Depth \in Nat \ {0}, stack = [k \in 1 .. Depth |-> stack[k]], NEW c, NEW d,
         stack' = Append([stack EXCEPT ![Depth] = c], d)
  PROVE  /\ Depth' = Depth + 1
         /\ stack' = [k \in 1 .. Depth' |-> stack'[k]]
         /\ stack'[Depth] = c /\ stack'[Depth + 1] = d
         /\ \A k \in 1 .. Depth : k # Depth => stack'[k] = stack[k]
<1>. DEFINE depth == Depth
            S == {stack[k] : k \in 1 .. depth} \union {c, d}
            changed == [stack EXCEPT ![depth] = c]
<1>1. depth \in Nat \ {0} /\ depth \in 1 .. depth
  OBVIOUS
<1>2. stack \in [1 .. depth -> S] /\ c \in S /\ d \in S
  OBVIOUS
<1>. HIDE DEF depth, S
<1>3. changed \in [1 .. depth -> S] /\ changed[depth] = c
      /\ \A k \in 1 .. depth : k # depth => changed[k] = stack[k]
  BY <1>1, <1>2
<1>4. stack' = Append(changed, d)
  BY DEF depth
<1>. HIDE DEF changed
<1>5. changed \in Seq(S) /\ Len(changed) = depth
  BY <1>1, <1>3, FunctionIsSeq
<1>6. /\ stack' \in Seq(S) /\ Len(stack') = depth + 1
      /\ \A k \in 1 .. depth : stack'[k] = changed[k]
      /\ stack'[depth + 1] = d
  BY <1>2, <1>4, <1>5, AppendProperties
<1>7. stack' = [k \in 1 .. depth + 1 |-> stack'[k]]
  BY <1>6, LenProperties
<1>. QED
  BY <1>1, <1>3, <1>6, <1>7 DEF Depth, depth

LEMMA FrontOf ==
  ASSUME NEW S, NEW s \in Seq(S), Len(s) > 1
  PROVE  /\ Front(s) \in [1 .. Len(s) - 1 -> S]
         /\ \A k \in 1 .. Len(s) - 1 : Front(s)[k] = s[k]
<1>1. PICK last \in Nat : last = Len(s) - 1
  BY LenProperties
<1>2. PICK first \in Nat \ {0} : first = 1
  OBVIOUS
<1>3. first <= last + 1 /\ last <= Len(s) /\ Front(s) = SubSeq(s, first, last)
  BY <1>1, <1>2, LenProperties DEF Front
<1>4. /\ Front(s) \in Seq(S) /\ Len(Front(s)) = last - first + 1
      /\ \A k \in 1 .. Len(Front(s)) : Front(s)[k] = s[k + (first - 1)]
  BY <1>3, PartOf
<1>5. Len(Front(s)) = last /\ \A k \in 1 .. last : k + (first - 1) = k
  BY <1>2, <1>4
<1>6. Front(s) \in [1 .. last -> S] /\ \A k \in 1 .. last : Front(s)[k] = s[k]
  BY <1>4, <1>5, LenProperties
<1>. QED
  BY <1>1, <1>6

LEMMA StackPopped ==
  ASSUME Depth \in Nat, Depth > 1, stack = [k \in 1 .. Depth |-> stack[k]], NEW c,
         stack' = [Front(stack) EXCEPT ![Depth - 1] = c]
  PROVE  /\ Depth' = Depth - 1
         /\ stack' = [k \in 1 .. Depth' |-> stack'[k]]
         /\ stack'[Depth - 1] = c
         /\ \A k \in 1 .. Depth - 1 : k # Depth - 1 => stack'[k] = stack[k]
<1>. DEFINE below == Depth - 1
            front == Front(stack)
<1>1. below \in Nat \ {0} /\ below \in 1 .. below
  OBVIOUS
<1>2. PICK S : stack \in Seq(S) /\ c \in S
  BY StackIsSeq
<1>3. stack' = [front EXCEPT ![below] = c]
  OBVIOUS
<1>4. front \in [1 .. below -> S] /\ \A k \in 1 .. below : front[k] = stack[k]
  BY <1>2, FrontOf DEF Depth
<1>. HIDE DEF below, front
<1>5. /\ stack' \in [1 .. below -> S] /\ stack'[below] = c
      /\ \A k \in 1 .. below : k # below => stack'[k] = stack[k]
  BY <1>1, <1>2, <1>3, <1>4
<1>6. Len(stack') = below
  BY <1>1, <1>5, FunctionIsSeq
<1>7. stack' = [k \in 1 .. below |-> stack'[k]]
  BY <1>5
<1>. QED
  BY <1>5, <1>6, <1>7 DEF Depth, below

(* A call is at a value of a request; the calls above the first one are of   *)
(* the requests that those below have come to.                               *)
IsAt(c) == c.message \in Messages /\ c.field \in 1 .. 23 /\ c.index \in 0 .. Len(c.message[c.field])

Nests(c, d) == c.field = 18 /\ c.index >= 1 /\ d.message = c.message[18][c.index]

IsChain ==
  /\ Depth \in Nat \ {0}
  /\ stack = [k \in 1 .. Depth |-> stack[k]]
  /\ stack[1].message = message
  /\ \A k \in 1 .. Depth : IsAt(stack[k])
  /\ \A k \in 1 .. Depth - 1 : Nests(stack[k], stack[k + 1])

(* The place up to which a call has written, all but the request it nests. *)
Reached(s, k) ==
  <<s[k].message, s[k].field, IF k = Len(s) THEN s[k].index ELSE s[k].index - 1>>

LEMMA ChainChanged ==
  ASSUME IsChain, message' = message, NEW c, IsAt(c), c.message = Top.message,
         stack' = [stack EXCEPT ![Depth] = c]
  PROVE  /\ IsChain' /\ Depth' = Depth /\ Depth \in Nat \ {0} /\ stack'[Depth] = c
         /\ \A k \in 1 .. Depth : k # Depth => stack'[k] = stack[k] /\ Reached(stack', k) = Reached(stack, k)
         /\ Reached(stack', Depth) = <<c.message, c.field, c.index>>
<1>1. Depth \in Nat \ {0} /\ stack = [k \in 1 .. Depth |-> stack[k]]
  BY DEF IsChain
<1>2. /\ Depth' = Depth
      /\ stack' = [k \in 1 .. Depth' |-> stack'[k]]
      /\ stack'[Depth] = c
      /\ \A k \in 1 .. Depth : k # Depth => stack'[k] = stack[k]
  BY <1>1, StackChanged
<1>3. stack'[1].message = message'
  <2>1. CASE Depth = 1
    BY <1>2, <2>1 DEF IsChain, Top
  <2>2. CASE Depth # 1
    BY <1>1, <1>2, <2>2 DEF IsChain
  <2>. QED
    BY <2>1, <2>2
<1>4. \A k \in 1 .. Depth : IsAt(stack'[k])
  BY <1>2 DEF IsChain
<1>5. ASSUME NEW k \in 1 .. Depth - 1 PROVE Nests(stack'[k], stack'[k + 1])
  <2>0. Nests(stack[k], stack[k + 1])
    BY DEF IsChain
  <2>1. k \in 1 .. Depth /\ k # Depth /\ k + 1 \in 1 .. Depth /\ Nests(stack[k], stack[k + 1])
    BY <1>1, <2>0
  <2>2. stack'[k] = stack[k] /\ stack'[k + 1].message = stack[k + 1].message
    BY <1>2, <2>1 DEF Top
  <2>. QED
    BY <2>1, <2>2 DEF Nests
<1>6. IsChain'
  BY <1>1, <1>2, <1>3, <1>4, <1>5 DEF IsChain
<1>7. PICK top : top = Depth
  OBVIOUS
<1>8. Reached(stack', top) = <<c.message, c.field, c.index>>
  BY <1>2, <1>7 DEF Reached, Depth
<1>9. \A k \in 1 .. Depth : k # Depth => Reached(stack', k) = Reached(stack, k)
  BY <1>2 DEF Reached, Depth
<1>. QED
  BY <1>1, <1>2, <1>6, <1>7, <1>8, <1>9

LEMMA ChainPushed ==
  ASSUME IsChain, message' = message, NEW c, NEW d, IsAt(c), c.message = Top.message,
         IsAt(d), Nests(c, d),
         stack' = Append([stack EXCEPT ![Depth] = c], d)
  PROVE  /\ IsChain' /\ Depth' = Depth + 1 /\ Depth \in Nat \ {0}
         /\ stack'[Depth] = c /\ stack'[Depth + 1] = d
         /\ \A k \in 1 .. Depth : k # Depth => stack'[k] = stack[k] /\ Reached(stack', k) = Reached(stack, k)
         /\ Reached(stack', Depth) = <<c.message, c.field, c.index - 1>>
         /\ Reached(stack', Depth + 1) = <<d.message, d.field, d.index>>
<1>1. Depth \in Nat \ {0} /\ stack = [k \in 1 .. Depth |-> stack[k]]
  BY DEF IsChain
<1>2. /\ Depth' = Depth + 1
      /\ stack' = [k \in 1 .. Depth' |-> stack'[k]]
      /\ stack'[Depth] = c /\ stack'[Depth + 1] = d
      /\ \A k \in 1 .. Depth : k # Depth => stack'[k] = stack[k]
  BY <1>1, StackPushed
<1>3. stack'[1].message = message'
  <2>1. CASE Depth = 1
    BY <1>2, <2>1 DEF IsChain, Top
  <2>2. CASE Depth # 1
    BY <1>1, <1>2, <2>2 DEF IsChain
  <2>. QED
    BY <2>1, <2>2
<1>4. ASSUME NEW k \in 1 .. Depth + 1 PROVE IsAt(stack'[k])
  <2>1. k \in 1 .. Depth \/ k = Depth + 1
    BY <1>1
  <2>. QED
    BY <1>2, <2>1 DEF IsChain
<1>5. ASSUME NEW k \in 1 .. Depth PROVE Nests(stack'[k], stack'[k + 1])
  <2>1. CASE k = Depth
    BY <1>2, <2>1
  <2>2. CASE k # Depth
    <3>1. k \in 1 .. Depth - 1 /\ k + 1 \in 1 .. Depth
      BY <1>1, <2>2
    <3>2. Nests(stack[k], stack[k + 1])
      BY <3>1 DEF IsChain
    <3>3. stack'[k] = stack[k] /\ stack'[k + 1].message = stack[k + 1].message
      BY <1>2, <2>2, <3>1 DEF Top
    <3>. QED
      BY <3>2, <3>3 DEF Nests
  <2>. QED
    BY <2>1, <2>2
<1>6. IsChain'
  <2>1. Depth' \in Nat \ {0} /\ Depth' - 1 = Depth
    BY <1>1, <1>2
  <2>. QED
    BY <1>2, <1>3, <1>4, <1>5, <2>1 DEF IsChain
<1>7. PICK top \in Nat : top = Depth
  BY <1>1
<1>8. /\ Reached(stack', top) = <<c.message, c.field, c.index - 1>>
      /\ Reached(stack', top + 1) = <<d.message, d.field, d.index>>
  <2>1. PICK s : s = stack'
    OBVIOUS
  <2>0. stack'[top] = c /\ stack'[top + 1] = d /\ Depth' = top + 1
    BY <1>2, <1>7
  <2>a. Depth' = Len(stack')
    BY DEF Depth
  <2>b. Len(stack') = top + 1
    BY <2>0, <2>a
  <2>c. s[top] = c /\ s[top + 1] = d
    BY <2>0, <2>1
  <2>2. s[top] = c /\ s[top + 1] = d /\ Len(s) = top + 1 /\ top # top + 1
    BY <2>b, <2>c, <2>1
  <2>3. Reached(s, top) = <<c.message, c.field, c.index - 1>>
    BY <2>2 DEF Reached
  <2>4. Reached(s, top + 1) = <<d.message, d.field, d.index>>
    BY <2>2 DEF Reached
  <2>. QED
    BY <2>1, <2>3, <2>4
<1>9. \A k \in 1 .. Depth : k # Depth /\ k # Depth + 1 => Reached(stack', k) = Reached(stack, k)
  BY <1>2 DEF Reached, Depth
<1>10. \A k \in 1 .. Depth : k # Depth + 1
  BY <1>1
<1>. QED
  BY <1>1, <1>2, <1>6, <1>7, <1>8, <1>9, <1>10

LEMMA ChainPopped ==
  ASSUME IsChain, message' = message, Depth > 1, NEW c,
         c.message = stack[Depth - 1].message, c.field = stack[Depth - 1].field,
         c.index = stack[Depth - 1].index,
         stack' = [Front(stack) EXCEPT ![Depth - 1] = c]
  PROVE  /\ IsChain' /\ Depth' = Depth - 1 /\ Depth \in Nat /\ stack'[Depth - 1] = c
         /\ \A k \in 1 .. Depth - 1 : k # Depth - 1 => stack'[k] = stack[k] /\ Reached(stack', k) = Reached(stack, k)
         /\ Reached(stack', Depth - 1) = <<c.message, c.field, c.index>>
         /\ Nests(stack[Depth - 1], Top) /\ IsAt(stack[Depth - 1])
<1>1. Depth \in Nat /\ stack = [k \in 1 .. Depth |-> stack[k]] /\ Depth - 1 \in 1 .. Depth - 1
      /\ Depth - 1 \in 1 .. Depth
  BY DEF IsChain
<1>2. /\ Depth' = Depth - 1
      /\ stack' = [k \in 1 .. Depth' |-> stack'[k]]
      /\ stack'[Depth - 1] = c
      /\ \A k \in 1 .. Depth - 1 : k # Depth - 1 => stack'[k] = stack[k]
  BY <1>1, StackPopped
<1>3. /\ IsAt(stack[Depth - 1])
      /\ Nests(stack[Depth - 1], Top)
  <2>1. (Depth - 1) + 1 = Depth
    BY <1>1
  <2>2. Nests(stack[Depth - 1], stack[(Depth - 1) + 1])
    BY <1>1 DEF IsChain
  <2>. QED
    BY <1>1, <2>1, <2>2 DEF IsChain, Top
<1>4. IsAt(c)
  BY <1>3 DEF IsAt
<1>5. stack'[1].message = message'
  <2>1. CASE Depth - 1 = 1
    BY <1>2, <2>1 DEF IsChain
  <2>2. CASE Depth - 1 # 1
    BY <1>1, <1>2, <2>2 DEF IsChain
  <2>. QED
    BY <2>1, <2>2
<1>6. ASSUME NEW k \in 1 .. Depth - 1 PROVE IsAt(stack'[k])
  <2>1. k \in 1 .. Depth
    BY <1>1
  <2>. QED
    BY <1>2, <1>4, <2>1 DEF IsChain
<1>7. ASSUME NEW k \in 1 .. (Depth - 1) - 1 PROVE Nests(stack'[k], stack'[k + 1])
  <2>1. k \in 1 .. Depth - 1 /\ k # Depth - 1 /\ k + 1 \in 1 .. Depth - 1
    BY <1>1
  <2>2. Nests(stack[k], stack[k + 1])
    BY <2>1 DEF IsChain
  <2>3. stack'[k] = stack[k] /\ stack'[k + 1].message = stack[k + 1].message
    BY <1>2, <2>1
  <2>. QED
    BY <2>2, <2>3 DEF Nests
<1>8. IsChain'
  <2>1. Depth' \in Nat \ {0}
    BY <1>1, <1>2
  <2>. QED
    BY <1>2, <1>5, <1>6, <1>7, <2>1 DEF IsChain
<1>9. PICK below \in Nat : below = Depth - 1
  BY <1>1
<1>10. Reached(stack', below) = <<c.message, c.field, c.index>>
  BY <1>2, <1>9 DEF Reached, Depth
<1>11. \A k \in 1 .. Depth - 1 : k # Depth - 1 /\ k # Depth => Reached(stack', k) = Reached(stack, k)
  BY <1>2 DEF Reached, Depth
<1>12. \A k \in 1 .. Depth - 1 : k # Depth
  BY <1>1
<1>. QED
  BY <1>1, <1>2, <1>3, <1>8, <1>9, <1>10, <1>11, <1>12
-----------------------------------------------------------------------------
(* `pack'. *)

(* A call of `pack' has left one byte for the length of its request, and has *)
(* room for the request from there on.                                       *)
PackFields == {"message", "field", "index", "varint_length_p"}

FrontOfCall(o, c) == SubSeq(o, 1, c.varint_length_p)

IsPackCall(o, m, c) ==
  /\ DOMAIN c = PackFields
  /\ c.varint_length_p \in 0 .. Len(o)
  /\ c.varint_length_p + Counted[All(c.message)] <= Counted[All(m)]

(* Call d was made by c, which had written up to place p. *)
Follows(o, c, d, p) ==
  FrontOfCall(o, d) = ((FrontOfCall(o, c) \o Meant[p]) \o Tag(18)) \o <<{}>>

IsPacking ==
  /\ IsChain
  /\ message \in Messages
  /\ out \in Seq(Bytes8)
  /\ stack[1].varint_length_p = 0
  /\ \A k \in 1 .. Depth : IsPackCall(out, message, stack[k])
  /\ \A j, k \in 1 .. Depth : j < k => stack[j].varint_length_p < stack[k].varint_length_p
  /\ \A k \in 1 .. Depth - 1 : Follows(out, stack[k], stack[k + 1], Reached(stack, k))
  /\ out = FrontOfCall(out, stack[Depth]) \o Meant[Reached(stack, Depth)]

IsSame(c, d) == d.message = c.message /\ d.varint_length_p = c.varint_length_p

(* The calls that stay are as they were, where what is in front of them does. *)
LEMMA PackKept ==
  ASSUME IsPacking, message' = message, NEW num \in 1 .. Depth,
         \A k \in 1 .. num : /\ IsSame(stack[k], stack'[k])
                           /\ DOMAIN stack'[k] = PackFields
                           /\ stack[k].varint_length_p \in 0 .. Len(out')
                           /\ FrontOfCall(out', stack[k]) = FrontOfCall(out, stack[k]),
         \A k \in 1 .. num - 1 : Reached(stack', k) = Reached(stack, k)
  PROVE  /\ stack'[1].varint_length_p = 0
         /\ \A k \in 1 .. num : IsPackCall(out', message', stack'[k])
         /\ \A j, k \in 1 .. num : j < k => stack'[j].varint_length_p < stack'[k].varint_length_p
         /\ \A k \in 1 .. num - 1 : Follows(out', stack'[k], stack'[k + 1], Reached(stack', k))
<1>0. Depth \in Nat \ {0} /\ num \in Nat \ {0} /\ 1 \in 1 .. num
  BY DEF IsPacking, IsChain
<1>1. stack'[1].varint_length_p = 0
  BY <1>0 DEF IsPacking, IsSame
<1>2. ASSUME NEW k \in 1 .. num PROVE IsPackCall(out', message', stack'[k])
  <2>1. k \in 1 .. Depth
    BY <1>0
  <2>2. IsPackCall(out, message, stack[k])
    BY <2>1 DEF IsPacking
  <2>. QED
    BY <2>2 DEF IsPackCall, IsSame
<1>3. ASSUME NEW j \in 1 .. num, NEW k \in 1 .. num, j < k
      PROVE  stack'[j].varint_length_p < stack'[k].varint_length_p
  <2>1. j \in 1 .. Depth /\ k \in 1 .. Depth
    BY <1>0
  <2>2. stack[j].varint_length_p < stack[k].varint_length_p
    BY <1>3, <2>1 DEF IsPacking
  <2>. QED
    BY <2>2 DEF IsSame
<1>4. ASSUME NEW k \in 1 .. num - 1
      PROVE  Follows(out', stack'[k], stack'[k + 1], Reached(stack', k))
  <2>1. k \in 1 .. Depth - 1 /\ k \in 1 .. num /\ k + 1 \in 1 .. num
    BY <1>0
  <2>2. Follows(out, stack[k], stack[k + 1], Reached(stack, k))
    BY <2>1 DEF IsPacking
  <2>3. /\ FrontOfCall(out', stack[k]) = FrontOfCall(out, stack[k])
        /\ FrontOfCall(out', stack[k + 1]) = FrontOfCall(out, stack[k + 1])
    BY <2>1
  <2>4. /\ FrontOfCall(out', stack'[k]) = FrontOfCall(out', stack[k])
        /\ FrontOfCall(out', stack'[k + 1]) = FrontOfCall(out', stack[k + 1])
    BY <2>1 DEF FrontOfCall, IsSame
  <2>5. Reached(stack', k) = Reached(stack, k)
    OBVIOUS
  <2>. QED
    BY <2>2, <2>3, <2>4, <2>5 DEF Follows
<1>. QED
  BY <1>1, <1>2, <1>3, <1>4

(* Where bytes are written after the others, what was in front of a call is. *)
LEMMA FrontStays ==
  ASSUME NEW o \in Seq(Bytes8), NEW x \in Seq(Bytes8), NEW c, c.varint_length_p \in 0 .. Len(o)
  PROVE  /\ c.varint_length_p \in 0 .. Len(o \o x)
         /\ FrontOfCall(o \o x, c) = FrontOfCall(o, c)
<1>. DEFINE more == o \o x
<1>1. Len(more) = Len(o) + Len(x) /\ Len(o) \in Nat /\ Len(x) \in Nat
  BY BytesJoined
<1>2. SubSeq(more, 1, c.varint_length_p) = SubSeq(o, 1, c.varint_length_p)
  BY FrontOfJoined
<1>. QED
  BY <1>1, <1>2 DEF FrontOfCall

LEMMA FrontType ==
  ASSUME NEW o \in Seq(Bytes8), NEW c, c.varint_length_p \in 0 .. Len(o)
  PROVE  FrontOfCall(o, c) \in Seq(Bytes8) /\ Len(FrontOfCall(o, c)) = c.varint_length_p
BY FrontPart DEF FrontOfCall

(* The call on top goes on, and writes the bytes up to another place. *)
LEMMA PackTopGrows ==
  ASSUME IsPacking, message' = message, NEW c, NEW x \in Seq(Bytes8),
         out' = out \o x, IsAt(c), IsSame(Top, c), DOMAIN c = PackFields,
         Meant[Reached(stack, Depth)] \in Seq(Bytes8),
         Meant[<<c.message, c.field, c.index>>] = Meant[Reached(stack, Depth)] \o x,
         stack' = [stack EXCEPT ![Depth] = c]
  PROVE  IsPacking'
<1>1. IsChain /\ c.message = Top.message /\ out \in Seq(Bytes8) /\ message \in Messages
  BY DEF IsPacking, IsSame
<1>2. /\ IsChain' /\ Depth' = Depth /\ Depth \in Nat \ {0} /\ stack'[Depth] = c
      /\ \A k \in 1 .. Depth : k # Depth => stack'[k] = stack[k] /\ Reached(stack', k) = Reached(stack, k)
      /\ Reached(stack', Depth) = <<c.message, c.field, c.index>>
  BY <1>1, ChainChanged
<1>3. \A k \in 1 .. Depth : IsPackCall(out, message, stack[k])
  BY DEF IsPacking
<1>4. ASSUME NEW k \in 1 .. Depth
      PROVE  /\ IsSame(stack[k], stack'[k])
             /\ DOMAIN stack'[k] = PackFields
             /\ stack[k].varint_length_p \in 0 .. Len(out')
             /\ FrontOfCall(out', stack[k]) = FrontOfCall(out, stack[k])
  <2>1. IsPackCall(out, message, stack[k])
    BY <1>3
  <2>2. stack[k].varint_length_p \in 0 .. Len(out) /\ DOMAIN stack[k] = PackFields
    BY <2>1 DEF IsPackCall
  <2>3. stack[k].varint_length_p \in 0 .. Len(out') /\ FrontOfCall(out', stack[k]) = FrontOfCall(out, stack[k])
    <3>1. PICK d, o, more : d = stack[k] /\ o = out /\ more = out'
      OBVIOUS
    <3>2. o \in Seq(Bytes8) /\ d.varint_length_p \in 0 .. Len(o) /\ more = o \o x
      BY <1>1, <2>2, <3>1
    <3>3. o \in Seq(Bytes8) /\ d.varint_length_p \in 0 .. Len(o)
      BY <3>2
    <3>4. d.varint_length_p \in 0 .. Len(o \o x) /\ FrontOfCall(o \o x, d) = FrontOfCall(o, d)
      BY <3>3, FrontStays
    <3>. QED
      BY <3>1, <3>2, <3>4
  <2>4. IsSame(stack[k], stack'[k]) /\ DOMAIN stack'[k] = PackFields
    <3>1. CASE k = Depth
      BY <1>2, <3>1 DEF Top
    <3>2. CASE k # Depth
      BY <1>2, <2>2, <3>2 DEF IsSame
    <3>. QED
      BY <3>1, <3>2
  <2>. QED
    BY <2>3, <2>4
<1>5. \A k \in 1 .. Depth - 1 : Reached(stack', k) = Reached(stack, k)
  <2>1. ASSUME NEW k \in 1 .. Depth - 1 PROVE k \in 1 .. Depth /\ k # Depth
    BY <1>2
  <2>. QED
    BY <1>2, <2>1
<1>6. Depth \in 1 .. Depth
  BY <1>2
<1>7. /\ stack'[1].varint_length_p = 0
      /\ \A k \in 1 .. Depth : IsPackCall(out', message', stack'[k])
      /\ \A j, k \in 1 .. Depth : j < k => stack'[j].varint_length_p < stack'[k].varint_length_p
      /\ \A k \in 1 .. Depth - 1 : Follows(out', stack'[k], stack'[k + 1], Reached(stack', k))
  BY <1>4, <1>5, <1>6, PackKept
<1>8. out' \in Seq(Bytes8)
  BY <1>1, BytesJoined
<1>9. out' = FrontOfCall(out', c) \o Meant[<<c.message, c.field, c.index>>]
  <2>1. FrontOfCall(out', stack[Depth]) = FrontOfCall(out, stack[Depth])
    BY <1>4, <1>6
  <2>2. FrontOfCall(out', c) = FrontOfCall(out, stack[Depth])
    BY <2>1 DEF IsSame, FrontOfCall, Top
  <2>3. out = FrontOfCall(out, stack[Depth]) \o Meant[Reached(stack, Depth)]
    BY DEF IsPacking
  <2>4. FrontOfCall(out, stack[Depth]) \in Seq(Bytes8)
    BY <1>1, <1>3, <1>6, FrontType DEF IsPackCall
  <2>5. PICK a, b, d : a = FrontOfCall(out, stack[Depth]) /\ b = Meant[Reached(stack, Depth)]
                       /\ d = Meant[<<c.message, c.field, c.index>>]
    OBVIOUS
  <2>6. a \in Seq(Bytes8) /\ b \in Seq(Bytes8)
    BY <2>4, <2>5
  <2>7. (a \o b) \o x = a \o (b \o x)
    BY <2>6, JoinedThree
  <2>8. out = a \o b /\ out' = out \o x /\ d = b \o x
    BY <2>3, <2>5
  <2>9. out' = a \o d
    BY <2>7, <2>8
  <2>. QED
    BY <2>2, <2>5, <2>9
<1>10. out' = FrontOfCall(out', stack'[Depth]) \o Meant[Reached(stack', Depth)]
  BY <1>2, <1>9
<1>. QED
  BY <1>1, <1>2, <1>7, <1>8, <1>10 DEF IsPacking

LEMMA AtParts ==
  ASSUME NEW c, IsAt(c)
  PROVE  /\ c.message \in Messages /\ c.field \in 1 .. 23 /\ c.field \in Fields
         /\ Len(c.message[c.field]) \in Nat
         /\ c.index \in 0 .. Len(c.message[c.field]) /\ c.index \in Nat
<1>1. c.message \in Messages /\ c.field \in 1 .. 23 /\ c.field \in Fields
      /\ c.index \in 0 .. Len(c.message[c.field])
  BY FieldsAre DEF IsAt
<1>2. Len(c.message[c.field]) \in Nat
  BY <1>1, MessageParts
<1>. QED
  BY <1>1, <1>2

LEMMA TopParts ==
  ASSUME IsChain
  PROVE  /\ Depth \in Nat \ {0} /\ IsAt(Top) /\ Top = stack[Depth]
         /\ Reached(stack, Depth) = <<Top.message, Top.field, Top.index>>
<1>1. Depth \in Nat \ {0} /\ Depth \in 1 .. Depth
  BY DEF IsChain
<1>2. IsAt(stack[Depth])
  BY <1>1 DEF IsChain
<1>. QED
  BY <1>1, <1>2 DEF Top, Reached, Depth

LEMMA ReachedType ==
  ASSUME NEW c, IsAt(c), NEW p, p = <<c.message, c.field, c.index>>
  PROVE  /\ Counted[p] \in Nat /\ Meant[p] \in Seq(Bytes8) /\ Len(Meant[p]) = Counted[p]
         /\ Counted[p] <= Counted[All(c.message)] /\ Counted[All(c.message)] \in Nat
<1>1. c.message \in Messages /\ c.field \in 1 .. 23 /\ c.index \in Nat
      /\ c.index \in 0 .. Len(c.message[c.field])
  BY AtParts
<1>2. PICK m \in Messages : m = c.message
  BY <1>1
<1>3. PICK f \in 1 .. 23 : f = c.field
  BY <1>1
<1>4. PICK e \in Nat : e = c.index
  BY <1>1
<1>5. e \in 0 .. Len(m[f])
  BY <1>1, <1>2, <1>3, <1>4
<1>6. Counted[<<m, f, e>>] \in Nat /\ Meant[<<m, f, e>>] \in Seq(Bytes8)
      /\ Len(Meant[<<m, f, e>>]) = Counted[<<m, f, e>>]
  BY PlaceAgrees
<1>7. Counted[<<m, f, e>>] <= Counted[All(m)] /\ Counted[All(m)] \in Nat
  BY <1>5, WholeCounts, WholeAgrees
<1>. QED
  BY <1>2, <1>3, <1>4, <1>6, <1>7

LEMMA PackTop ==
  ASSUME IsPacking
  PROVE  /\ Depth \in Nat \ {0} /\ IsAt(Top) /\ Top = stack[Depth]
         /\ IsPackCall(out, message, Top) /\ DOMAIN Top = PackFields
         /\ FrontOfCall(out, Top) \in Seq(Bytes8)
         /\ Len(FrontOfCall(out, Top)) = Top.varint_length_p /\ Top.varint_length_p \in Nat
         /\ Reached(stack, Depth) = <<Top.message, Top.field, Top.index>>
         /\ out = FrontOfCall(out, Top) \o Meant[<<Top.message, Top.field, Top.index>>]
<1>1. /\ Depth \in Nat \ {0} /\ IsAt(Top) /\ Top = stack[Depth]
      /\ Reached(stack, Depth) = <<Top.message, Top.field, Top.index>>
  BY TopParts DEF IsPacking
<1>2. Depth \in 1 .. Depth
  BY <1>1
<1>3. IsPackCall(out, message, stack[Depth]) /\ out \in Seq(Bytes8)
      /\ out = FrontOfCall(out, stack[Depth]) \o Meant[Reached(stack, Depth)]
  BY <1>2 DEF IsPacking
<1>4. IsPackCall(out, message, Top)
      /\ out = FrontOfCall(out, Top) \o Meant[<<Top.message, Top.field, Top.index>>]
  BY <1>1, <1>3
<1>5. Top.varint_length_p \in 0 .. Len(out) /\ DOMAIN Top = PackFields
  BY <1>4 DEF IsPackCall
<1>6. FrontOfCall(out, Top) \in Seq(Bytes8) /\ Len(FrontOfCall(out, Top)) = Top.varint_length_p
  BY <1>3, <1>5, FrontType
<1>7. Top.varint_length_p \in Nat
  BY <1>5
<1>. QED
  BY <1>1, <1>4, <1>5, <1>6, <1>7

LEMMA EmptyJoined ==
  ASSUME NEW s \in Seq(Bytes8)
  PROVE  <<>> \in Seq(Bytes8) /\ s \o <<>> = s /\ <<>> \o s = s
BY EmptySeq, ConcatEmptySeq

LEMMA NextFieldPacks ==
  ASSUME IsPacking, NextField
  PROVE  IsPacking'
<1>1. /\ Depth \in Nat \ {0} /\ IsAt(Top) /\ Top = stack[Depth] /\ DOMAIN Top = PackFields
      /\ Reached(stack, Depth) = <<Top.message, Top.field, Top.index>>
  BY PackTop
<1>2. /\ Top.message \in Messages /\ Top.field \in 1 .. 23
      /\ Len(Top.message[Top.field]) \in Nat
      /\ Top.index \in 0 .. Len(Top.message[Top.field]) /\ Top.index \in Nat
  BY <1>1, AtParts
<1>3. /\ ~ (Top.index < Len(Top.message[Top.field])) /\ Top.field < 23
      /\ stack' = [stack EXCEPT ![Depth].field = @ + 1, ![Depth].index = 0]
      /\ message' = message /\ out' = out
  BY DEF NextField, HasValue, FieldValues
<1>4. Top.field \in 1 .. 22 /\ Top.index = Len(Top.message[Top.field])
  BY <1>2, <1>3
<1>5. PICK c : c = [Top EXCEPT !.field = @ + 1, !.index = 0]
  OBVIOUS
<1>6. /\ DOMAIN c = PackFields /\ c.field = Top.field + 1 /\ c.index = 0
      /\ c.message = Top.message /\ c.varint_length_p = Top.varint_length_p
  BY <1>1, <1>5 DEF PackFields
<1>7. stack' = [stack EXCEPT ![Depth] = c]
  BY <1>1, <1>3, <1>5 DEF IsPacking, IsChain
<1>8. IsAt(c) /\ IsSame(Top, c)
  <2>0. c.field \in 1 .. 23
    <3>1. PICK f \in 1 .. 22 : f = Top.field
      BY <1>4
    <3>2. c.field = f + 1
      BY <1>6, <3>1
    <3>. QED
      BY <3>2
  <2>1. c.field \in 1 .. 23 /\ c.message \in Messages
    BY <1>2, <1>6, <2>0
  <2>2. c.field \in Fields
    BY <2>1, FieldsAre
  <2>3. Len(c.message[c.field]) \in Nat
    BY <2>1, <2>2, MessageParts
  <2>. QED
    BY <1>6, <2>1, <2>3 DEF IsAt, IsSame
<1>9. Meant[<<c.message, c.field, c.index>>] = Meant[Reached(stack, Depth)]
  <2>1. PICK m \in Messages : m = Top.message
    BY <1>2
  <2>2. PICK f \in 1 .. 22 : f = Top.field
    BY <1>4
  <2>3. Meant[<<m, f + 1, 0>>] = Meant[<<m, f, Len(m[f])>>]
    BY AtNext
  <2>4. c.message = m /\ c.field = f + 1 /\ c.index = 0 /\ Top.index = Len(m[f])
    BY <1>4, <1>6, <2>1, <2>2
  <2>. QED
    BY <1>1, <2>1, <2>2, <2>3, <2>4
<1>10. PICK p : p = Reached(stack, Depth)
  OBVIOUS
<1>11. Meant[p] \in Seq(Bytes8)
  BY <1>1, <1>10, ReachedType
<1>12. /\ <<>> \in Seq(Bytes8) /\ Meant[Reached(stack, Depth)] \in Seq(Bytes8)
       /\ Meant[p] \o <<>> = Meant[p] /\ out' = out \o <<>>
  BY <1>3, <1>10, <1>11, EmptyJoined DEF IsPacking
<1>13. Meant[<<c.message, c.field, c.index>>] = Meant[Reached(stack, Depth)] \o <<>>
  BY <1>9, <1>10, <1>12
<1>. QED
  BY <1>3, <1>6, <1>7, <1>8, <1>12, <1>13, PackTopGrows

(* Call c is at place p, in field f, and v is the next value, up to place q. *)
IsNext(c, f, v, p, q) ==
  /\ IsAt(c)
  /\ f = c.field
  /\ p = <<c.message, f, c.index>>
  /\ c.index < Len(c.message[f])
  /\ v = c.message[f][c.index + 1]
  /\ q = <<c.message, f, c.index + 1>>

(* What is written up to place q is what is up to place p, and one value. *)
Extends(q, p, f, v) == Meant[q] = Meant[p] \o (Tag(f) \o Written(f, v))

LEMMA ValueHere ==
  ASSUME NEW c, NEW f, NEW v, NEW p, NEW q, IsNext(c, f, v, p, q)
  PROVE  /\ c.index + 1 \in 1 .. Len(c.message[f]) /\ f \in Fields
         /\ v \in ValuesOf(f)
         /\ Tag(f) \in Seq(Bytes8) /\ Len(Tag(f)) = TagSize(f) /\ TagSize(f) \in 1 .. 2
         /\ Written(f, v) \in Seq(Bytes8) /\ Len(Written(f, v)) \in Nat
         /\ Meant[p] \in Seq(Bytes8) /\ Counted[p] \in Nat /\ Len(Meant[p]) = Counted[p]
         /\ Extends(q, p, f, v)
         /\ Counted[q] = Counted[p] + (TagSize(f) + Len(Written(f, v)))
         /\ Counted[q] <= Counted[All(c.message)] /\ Counted[All(c.message)] \in Nat
<1>0. /\ IsAt(c) /\ f = c.field /\ p = <<c.message, f, c.index>>
      /\ c.index < Len(c.message[f])
      /\ v = c.message[f][c.index + 1] /\ q = <<c.message, f, c.index + 1>>
  BY DEF IsNext
<1>1. c.message \in Messages /\ c.field \in 1 .. 23 /\ c.field \in Fields
      /\ Len(c.message[c.field]) \in Nat /\ c.index \in Nat
  BY <1>0, AtParts
<1>2. PICK m \in Messages : m = c.message
  BY <1>1
<1>3. PICK g \in 1 .. 23 : g = c.field
  BY <1>1
<1>4. PICK idx \in Nat : idx = c.index
  BY <1>1
<1>5. PICK e \in Nat : e = idx + 1
  OBVIOUS
<1>6. f = g /\ g \in Fields /\ p = <<m, g, idx>> /\ idx < Len(m[g]) /\ v = m[g][idx + 1] /\ q = <<m, g, idx + 1>>
      /\ Len(m[g]) \in Nat
  BY <1>0, <1>1, <1>2, <1>3, <1>4
<1>7. e \in 1 .. Len(m[g]) /\ e - 1 = idx /\ v = m[g][e] /\ q = <<m, g, e>>
  BY <1>5, <1>6
<1>8. m[g][e] \in ValuesOf(g)
  BY <1>6, <1>7, MessageParts
<1>9. Tag(g) \in Seq(Bytes8) /\ Len(Tag(g)) = TagSize(g) /\ TagSize(g) \in 1 .. 2
  BY <1>6, TagIs
<1>10. Written(g, m[g][e]) \in Seq(Bytes8) /\ Len(Written(g, m[g][e])) \in Nat
  BY <1>7, WrittenType
<1>11. /\ Meant[<<m, g, e>>] = Meant[<<m, g, e - 1>>] \o (Tag(g) \o Written(g, m[g][e]))
       /\ Counted[<<m, g, e>>] = Counted[<<m, g, e - 1>>] + (TagSize(g) + Len(Written(g, m[g][e])))
  BY <1>7, OneMore
<1>12. Counted[<<m, g, idx>>] \in Nat /\ Meant[<<m, g, idx>>] \in Seq(Bytes8)
       /\ Len(Meant[<<m, g, idx>>]) = Counted[<<m, g, idx>>]
  BY PlaceAgrees
<1>13. e \in 0 .. Len(m[g])
  BY <1>7
<1>14. Counted[<<m, g, e>>] <= Counted[All(m)] /\ Counted[All(m)] \in Nat
  BY <1>13, WholeCounts, WholeAgrees
<1>15. c.index + 1 \in 1 .. Len(c.message[f])
  BY <1>2, <1>4, <1>5, <1>6, <1>7
<1>16. /\ Meant[q] = Meant[p] \o (Tag(g) \o Written(g, v))
       /\ Counted[q] = Counted[p] + (TagSize(g) + Len(Written(g, v)))
  BY <1>6, <1>7, <1>11
<1>17. Extends(q, p, f, v)
  BY <1>6, <1>16 DEF Extends
<1>. QED
  BY <1>2, <1>6, <1>7, <1>8, <1>9, <1>10, <1>12, <1>14, <1>15, <1>16, <1>17

(* The call goes on to the next value of the field. *)
LEMMA DoneIs ==
  ASSUME NEW c, IsAt(c), "index" \in DOMAIN c, c.index < Len(c.message[c.field])
  PROVE  /\ DOMAIN Done(c) = DOMAIN c /\ Done(c).index = c.index + 1
         /\ Done(c).message = c.message /\ Done(c).field = c.field
         /\ Done(c).varint_length_p = c.varint_length_p
         /\ Done(c).pieces = c.pieces /\ Done(c).buffer = c.buffer /\ Done(c).sz = c.sz
         /\ IsAt(Done(c))
<1>1. /\ DOMAIN Done(c) = DOMAIN c /\ Done(c).index = c.index + 1
      /\ Done(c).message = c.message /\ Done(c).field = c.field
      /\ Done(c).varint_length_p = c.varint_length_p
      /\ Done(c).pieces = c.pieces /\ Done(c).buffer = c.buffer /\ Done(c).sz = c.sz
  BY DEF Done
<1>2. c.message \in Messages /\ c.field \in 1 .. 23
      /\ Len(c.message[c.field]) \in Nat /\ c.index \in Nat
  BY AtParts
<1>3. c.index + 1 \in 0 .. Len(c.message[c.field])
  BY <1>2
<1>4. IsAt(Done(c))
  BY <1>1, <1>2, <1>3 DEF IsAt
<1>. QED
  BY <1>1, <1>4

LEMMA PackValuePacks ==
  ASSUME IsPacking, PackValue
  PROVE  IsPacking'
<1>1. /\ Depth \in Nat \ {0} /\ IsAt(Top) /\ Top = stack[Depth] /\ DOMAIN Top = PackFields
      /\ Reached(stack, Depth) = <<Top.message, Top.field, Top.index>>
  BY PackTop
<1>2. PICK f, v, p, q :
        /\ f = Top.field /\ p = <<Top.message, f, Top.index>>
        /\ v = Top.message[f][Top.index + 1]
        /\ q = <<Top.message, f, Top.index + 1>>
  OBVIOUS
<1>3. /\ Top.index < Len(Top.message[Top.field]) /\ Type(f) # "message"
      /\ out' = out \o Tag(f) \o Pack(f, v)
      /\ stack' = [stack EXCEPT ![Depth] = Done(@)] /\ message' = message
  BY <1>2 DEF PackValue, HasValue, FieldValues, Value
<1>4. Top.index < Len(Top.message[f])
  BY <1>2, <1>3
<1>5. /\ Tag(f) \in Seq(Bytes8) /\ Written(f, v) \in Seq(Bytes8)
      /\ Meant[p] \in Seq(Bytes8)
      /\ Meant[q] = Meant[p] \o (Tag(f) \o Written(f, v))
  <2>1. IsNext(Top, f, v, p, q)
    BY <1>1, <1>2, <1>4 DEF IsNext
  <2>2. /\ Tag(f) \in Seq(Bytes8) /\ Written(f, v) \in Seq(Bytes8)
        /\ Meant[p] \in Seq(Bytes8) /\ Extends(q, p, f, v)
    BY <2>1, ValueHere
  <2>. QED
    BY <2>2 DEF Extends
<1>6. Written(f, v) = Pack(f, v)
  BY <1>3 DEF Written
<1>7. PICK x : x = Tag(f) \o Written(f, v)
  OBVIOUS
<1>8. x \in Seq(Bytes8)
  BY <1>5, <1>7, BytesJoined
<1>9. out' = out \o x
  <2>1. out \in Seq(Bytes8)
    BY DEF IsPacking
  <2>2. (out \o Tag(f)) \o Written(f, v) = out \o (Tag(f) \o Written(f, v))
    BY <1>5, <2>1, JoinedThree
  <2>. QED
    BY <1>3, <1>6, <1>7, <2>2
<1>10. PICK c : c = Done(Top)
  OBVIOUS
<1>11. "index" \in DOMAIN Top
  BY <1>1 DEF PackFields
<1>12. /\ DOMAIN c = DOMAIN Top /\ c.index = Top.index + 1
       /\ c.message = Top.message /\ c.field = Top.field
       /\ c.varint_length_p = Top.varint_length_p /\ IsAt(c)
  BY <1>1, <1>3, <1>10, <1>11, DoneIs
<1>13. DOMAIN c = PackFields /\ IsSame(Top, c) /\ stack' = [stack EXCEPT ![Depth] = c]
  <2>1. Depth \in DOMAIN stack
    BY <1>1 DEF IsPacking, IsChain
  <2>. QED
    BY <1>1, <1>3, <1>10, <1>12, <2>1 DEF IsSame
<1>14. <<c.message, c.field, c.index>> = q /\ Reached(stack, Depth) = p
  BY <1>1, <1>2, <1>12
<1>15. /\ Meant[Reached(stack, Depth)] \in Seq(Bytes8)
       /\ Meant[<<c.message, c.field, c.index>>] = Meant[Reached(stack, Depth)] \o x
  BY <1>5, <1>7, <1>14
<1>. QED
  BY <1>3, <1>8, <1>9, <1>12, <1>13, <1>15, PackTopGrows

(* The call on top has one byte left for the length of a request, and makes  *)
(* the call that writes the request.                                         *)
LEMMA PackPushes ==
  ASSUME IsPacking, message' = message, NEW c, NEW d, NEW x \in Seq(Bytes8),
         x = Tag(18) \o <<{}>>, out' = out \o x,
         IsAt(c), IsSame(Top, c), DOMAIN c = PackFields,
         <<c.message, c.field, c.index - 1>> = Reached(stack, Depth),
         IsAt(d), Nests(c, d), DOMAIN d = PackFields,
         d.varint_length_p = Len(out'), Top.varint_length_p < Len(out'),
         Len(out') + Counted[All(d.message)] <= Counted[All(message)],
         Meant[<<d.message, d.field, d.index>>] = <<>>,
         stack' = Append([stack EXCEPT ![Depth] = c], d)
  PROVE  IsPacking'
<1>1. IsChain /\ c.message = Top.message /\ out \in Seq(Bytes8) /\ message \in Messages
  BY DEF IsPacking, IsSame
<1>2. /\ IsChain' /\ Depth' = Depth + 1 /\ Depth \in Nat \ {0}
      /\ stack'[Depth] = c /\ stack'[Depth + 1] = d
      /\ \A k \in 1 .. Depth : k # Depth => stack'[k] = stack[k] /\ Reached(stack', k) = Reached(stack, k)
      /\ Reached(stack', Depth) = <<c.message, c.field, c.index - 1>>
      /\ Reached(stack', Depth + 1) = <<d.message, d.field, d.index>>
  BY <1>1, ChainPushed
<1>3. \A k \in 1 .. Depth : IsPackCall(out, message, stack[k])
  BY DEF IsPacking
<1>4. ASSUME NEW k \in 1 .. Depth
      PROVE  /\ IsSame(stack[k], stack'[k])
             /\ DOMAIN stack'[k] = PackFields
             /\ stack[k].varint_length_p \in 0 .. Len(out')
             /\ FrontOfCall(out', stack[k]) = FrontOfCall(out, stack[k])
  <2>1. IsPackCall(out, message, stack[k])
    BY <1>3
  <2>2. stack[k].varint_length_p \in 0 .. Len(out) /\ DOMAIN stack[k] = PackFields
    BY <2>1 DEF IsPackCall
  <2>3. stack[k].varint_length_p \in 0 .. Len(out') /\ FrontOfCall(out', stack[k]) = FrontOfCall(out, stack[k])
    <3>1. PICK b, o, more : b = stack[k] /\ o = out /\ more = out'
      OBVIOUS
    <3>2. o \in Seq(Bytes8) /\ b.varint_length_p \in 0 .. Len(o) /\ more = o \o x
      BY <1>1, <2>2, <3>1
    <3>3. o \in Seq(Bytes8) /\ b.varint_length_p \in 0 .. Len(o)
      BY <3>2
    <3>4. b.varint_length_p \in 0 .. Len(o \o x) /\ FrontOfCall(o \o x, b) = FrontOfCall(o, b)
      BY <3>3, FrontStays
    <3>. QED
      BY <3>1, <3>2, <3>4
  <2>4. IsSame(stack[k], stack'[k]) /\ DOMAIN stack'[k] = PackFields
    <3>1. CASE k = Depth
      BY <1>2, <3>1 DEF Top
    <3>2. CASE k # Depth
      BY <1>2, <2>2, <3>2 DEF IsSame
    <3>. QED
      BY <3>1, <3>2
  <2>. QED
    BY <2>3, <2>4
<1>5. \A k \in 1 .. Depth - 1 : Reached(stack', k) = Reached(stack, k)
  <2>1. ASSUME NEW k \in 1 .. Depth - 1 PROVE k \in 1 .. Depth /\ k # Depth
    BY <1>2
  <2>. QED
    BY <1>2, <2>1
<1>6. Depth \in 1 .. Depth
  BY <1>2
<1>7. /\ stack'[1].varint_length_p = 0
      /\ \A k \in 1 .. Depth : IsPackCall(out', message', stack'[k])
      /\ \A j, k \in 1 .. Depth : j < k => stack'[j].varint_length_p < stack'[k].varint_length_p
      /\ \A k \in 1 .. Depth - 1 : Follows(out', stack'[k], stack'[k + 1], Reached(stack', k))
  BY <1>4, <1>5, <1>6, PackKept
<1>8. out' \in Seq(Bytes8) /\ Len(out') \in Nat
  BY <1>1, BytesJoined, LenProperties
<1>9. IsPackCall(out', message', d)
  BY <1>8 DEF IsPackCall
<1>10. FrontOfCall(out', d) = out'
  BY <1>8, WholePart DEF FrontOfCall
<1>11. out' = FrontOfCall(out', stack'[Depth + 1]) \o Meant[Reached(stack', Depth + 1)]
  <2>1. out' \o <<>> = out'
    BY <1>8, EmptyJoined
  <2>. QED
    BY <1>2, <1>10, <2>1
<1>12. Follows(out', c, d, Reached(stack', Depth))
  <2>1. FrontOfCall(out', stack[Depth]) = FrontOfCall(out, stack[Depth])
    BY <1>4, <1>6
  <2>2. FrontOfCall(out', c) = FrontOfCall(out, stack[Depth])
    BY <2>1 DEF IsSame, FrontOfCall, Top
  <2>3. out = FrontOfCall(out, stack[Depth]) \o Meant[Reached(stack, Depth)]
    BY DEF IsPacking
  <2>4. Reached(stack', Depth) = Reached(stack, Depth)
    BY <1>2
  <2>5. out' = (out \o Tag(18)) \o <<{}>>
    <3>1. Tag(18) \in Seq(Bytes8) /\ <<{}>> \in Seq(Bytes8)
      BY TagIs, FieldsAre DEF Bytes8
    <3>2. (out \o Tag(18)) \o <<{}>> = out \o (Tag(18) \o <<{}>>)
      BY <1>1, <3>1, JoinedThree
    <3>. QED
      BY <3>2
  <2>. QED
    BY <1>10, <2>2, <2>3, <2>4, <2>5 DEF Follows
<1>13. \A k \in 1 .. Depth' : IsPackCall(out', message', stack'[k])
  <2>1. ASSUME NEW k \in 1 .. Depth + 1 PROVE k \in 1 .. Depth \/ k = Depth + 1
    BY <1>2
  <2>. QED
    BY <1>2, <1>7, <1>9, <2>1
<1>14. \A k \in 1 .. Depth : stack'[k].varint_length_p <= Top.varint_length_p
  <2>1. ASSUME NEW k \in 1 .. Depth PROVE stack[k].varint_length_p <= Top.varint_length_p
    <3>1. CASE k = Depth
      <4>1. stack[k] = Top /\ IsPackCall(out, message, stack[k])
        BY <1>3, <3>1 DEF Top
      <4>. QED
        BY <4>1 DEF IsPackCall
    <3>2. CASE k # Depth
      <4>1. k < Depth
        BY <1>2, <3>2
      <4>2. stack[k].varint_length_p < stack[Depth].varint_length_p
        BY <1>6, <4>1 DEF IsPacking
      <4>3. IsPackCall(out, message, stack[k]) /\ IsPackCall(out, message, stack[Depth])
        BY <1>3, <1>6
      <4>. QED
        BY <4>2, <4>3 DEF IsPackCall, Top
    <3>. QED
      BY <3>1, <3>2
  <2>. QED
    BY <1>4, <2>1 DEF IsSame
<1>15. ASSUME NEW j \in 1 .. Depth + 1, NEW k \in 1 .. Depth + 1, j < k
       PROVE  stack'[j].varint_length_p < stack'[k].varint_length_p
  <2>1. CASE k = Depth + 1
    <3>1. j \in 1 .. Depth
      BY <1>2, <1>15, <2>1
    <3>2. stack'[j].varint_length_p <= Top.varint_length_p /\ stack'[k] = d
      BY <1>2, <1>14, <2>1, <3>1
    <3>3. PICK a, b, l : /\ a = stack'[j].varint_length_p /\ b = Top.varint_length_p
                         /\ l = stack'[k].varint_length_p
      OBVIOUS
    <3>4. IsPackCall(out', message', stack'[j]) /\ IsPackCall(out, message, Top)
      BY <1>3, <1>6, <1>7, <3>1 DEF Top
    <3>5. a \in 0 .. Len(out')
      BY <3>3, <3>4 DEF IsPackCall
    <3>6. b \in 0 .. Len(out)
      BY <3>3, <3>4 DEF IsPackCall
    <3>7. a \in Nat /\ b \in Nat
      <4>1. Len(out) \in Nat /\ Len(out') \in Nat
        BY <1>1, <1>8, LenProperties
      <4>. QED
        BY <3>5, <3>6, <4>1
    <3>8. l \in Nat
      BY <1>8, <3>2, <3>3
    <3>9. a <= b /\ b < l
      BY <3>2, <3>3
    <3>10. a < l
      BY <3>7, <3>8, <3>9
    <3>. QED
      BY <3>3, <3>10
  <2>2. CASE k # Depth + 1
    <3>1. j \in 1 .. Depth /\ k \in 1 .. Depth
      BY <1>2, <1>15, <2>2
    <3>. QED
      BY <1>7, <1>15, <3>1
  <2>. QED
    BY <2>1, <2>2
<1>16. ASSUME NEW k \in 1 .. Depth
       PROVE  Follows(out', stack'[k], stack'[k + 1], Reached(stack', k))
  <2>1. CASE k = Depth
    BY <1>2, <1>12, <2>1
  <2>2. CASE k # Depth
    <3>1. k \in 1 .. Depth - 1
      BY <1>2, <2>2
    <3>. QED
      BY <1>7, <3>1
  <2>. QED
    BY <2>1, <2>2
<1>17. Depth' - 1 = Depth
  BY <1>2
<1>. QED
  BY <1>1, <1>2, <1>7, <1>8, <1>11, <1>13, <1>15, <1>16, <1>17 DEF IsPacking

LEMMA RequestWritten ==
  ASSUME NEW v \in Messages
  PROVE  /\ Written(18, v) = uint32_pack(Word(Counted[All(v)])) \o Meant[All(v)]
         /\ Len(Written(18, v)) = uint32_size(Word(Counted[All(v)])) + Counted[All(v)]
         /\ uint32_pack(Word(Counted[All(v)])) \in Seq(Bytes8)
         /\ uint32_size(Word(Counted[All(v)])) \in Nat \ {0}
         /\ Meant[All(v)] \in Seq(Bytes8) /\ Counted[All(v)] \in Nat
         /\ Len(Meant[All(v)]) = Counted[All(v)]
<1>1. /\ Counted[All(v)] \in Nat /\ Meant[All(v)] \in Seq(Bytes8)
      /\ Len(Meant[All(v)]) = Counted[All(v)]
  BY WholeAgrees
<1>2. Type(18) = "message"
  BY FieldsAre, TypesAre
<1>3. Written(18, v) = delimited_pack(Meant[All(v)])
  BY <1>2 DEF Written
<1>4. Written(18, v) = uint32_pack(Word(Counted[All(v)])) \o Meant[All(v)]
  BY <1>1, <1>3 DEF delimited_pack
<1>5. PICK num \in Nat : num = Counted[All(v)]
  BY <1>1
<1>6. /\ uint32_pack(Word(num)) \in Seq(Bytes8)
      /\ Len(uint32_pack(Word(num))) = uint32_size(Word(num))
      /\ uint32_size(Word(num)) \in Nat \ {0}
  BY LengthPack
<1>7. Len(uint32_pack(Word(num)) \o Meant[All(v)]) = uint32_size(Word(num)) + num
  BY <1>1, <1>5, <1>6, BytesJoined
<1>. QED
  BY <1>1, <1>4, <1>5, <1>6, <1>7

LEMMA NewPackCall ==
  ASSUME NEW v \in Messages, NEW at
  PROVE  LET d == PackCall(v, at)
         IN  /\ DOMAIN d = PackFields /\ d.message = v /\ d.field = 1 /\ d.index = 0
             /\ d.varint_length_p = at /\ IsAt(d)
             /\ Meant[<<d.message, d.field, d.index>>] = <<>>
<1>1. PICK d : d = PackCall(v, at)
  OBVIOUS
<1>2. /\ DOMAIN d = PackFields /\ d.message = v /\ d.field = 1 /\ d.index = 0
      /\ d.varint_length_p = at
  BY <1>1 DEF PackCall, PackFields
<1>3. Len(v[1]) \in Nat
  BY FieldsAre, MessageParts
<1>4. IsAt(d)
  BY <1>2, <1>3 DEF IsAt
<1>5. Meant[<<v, 1, 0>>] = <<>>
  BY AtStart
<1>. QED
  BY <1>1, <1>2, <1>4, <1>5

LEMMA PackRequestPacks ==
  ASSUME IsPacking, PackRequest
  PROVE  IsPacking'
<1>1. /\ Depth \in Nat \ {0} /\ IsAt(Top) /\ Top = stack[Depth] /\ DOMAIN Top = PackFields
      /\ IsPackCall(out, message, Top)
      /\ FrontOfCall(out, Top) \in Seq(Bytes8)
      /\ Len(FrontOfCall(out, Top)) = Top.varint_length_p /\ Top.varint_length_p \in Nat
      /\ Reached(stack, Depth) = <<Top.message, Top.field, Top.index>>
      /\ out = FrontOfCall(out, Top) \o Meant[<<Top.message, Top.field, Top.index>>]
  BY PackTop
<1>2. PICK f, v, p, q :
        /\ f = Top.field /\ p = <<Top.message, f, Top.index>>
        /\ v = Top.message[f][Top.index + 1]
        /\ q = <<Top.message, f, Top.index + 1>>
  OBVIOUS
<1>3. /\ Top.index < Len(Top.message[Top.field]) /\ Type(f) = "message"
      /\ out' = out \o Tag(f) \o <<{}>>
      /\ stack' = Append([stack EXCEPT ![Depth] = Done(@)], PackCall(v, Len(out')))
      /\ message' = message
  BY <1>2 DEF PackRequest, HasValue, FieldValues, Value
<1>4. Top.index < Len(Top.message[f])
  BY <1>2, <1>3
<1>5. IsNext(Top, f, v, p, q)
  BY <1>1, <1>2, <1>4 DEF IsNext
<1>6. /\ f \in Fields /\ v \in ValuesOf(f)
      /\ Tag(f) \in Seq(Bytes8) /\ Len(Tag(f)) = TagSize(f) /\ TagSize(f) \in 1 .. 2
      /\ Meant[p] \in Seq(Bytes8) /\ Counted[p] \in Nat /\ Len(Meant[p]) = Counted[p]
      /\ Counted[q] = Counted[p] + (TagSize(f) + Len(Written(f, v)))
      /\ Counted[q] <= Counted[All(Top.message)] /\ Counted[All(Top.message)] \in Nat
  BY <1>5, ValueHere
<1>7. f = 18 /\ v \in Messages
  BY <1>3, <1>6, TypesAre DEF ValuesOf
<1>8. PICK x : x = Tag(18) \o <<{}>>
  OBVIOUS
<1>9. <<{}>> \in Seq(Bytes8) /\ Len(<<{}>>) = 1
  BY DEF Bytes8
<1>10. x \in Seq(Bytes8) /\ Len(x) = TagSize(f) + 1
  BY <1>6, <1>7, <1>8, <1>9, BytesJoined
<1>11. out' = out \o x
  <2>1. out \in Seq(Bytes8)
    BY DEF IsPacking
  <2>2. (out \o Tag(f)) \o <<{}>> = out \o (Tag(f) \o <<{}>>)
    BY <1>6, <1>9, <2>1, JoinedThree
  <2>. QED
    BY <1>3, <1>7, <1>8, <2>2
<1>12. Len(out') = Top.varint_length_p + Counted[p] + (TagSize(f) + 1)
  <2>1. PICK a, b, o : a = FrontOfCall(out, Top) /\ b = Meant[p] /\ o = out
    OBVIOUS
  <2>2. a \in Seq(Bytes8) /\ b \in Seq(Bytes8) /\ o = a \o b
        /\ Len(a) = Top.varint_length_p /\ Len(b) = Counted[p]
    BY <1>1, <1>2, <1>6, <2>1
  <2>3. o \in Seq(Bytes8) /\ Len(o) = Top.varint_length_p + Counted[p]
    BY <2>2, BytesJoined
  <2>4. Len(o \o x) = Top.varint_length_p + Counted[p] + (TagSize(f) + 1)
    BY <1>10, <2>3, BytesJoined
  <2>. QED
    BY <1>11, <2>1, <2>4
<1>13. PICK c : c = Done(Top)
  OBVIOUS
<1>14. PICK d : d = PackCall(v, Len(out'))
  OBVIOUS
<1>15. "index" \in DOMAIN Top
  BY <1>1 DEF PackFields
<1>16. /\ DOMAIN c = DOMAIN Top /\ c.index = Top.index + 1
       /\ c.message = Top.message /\ c.field = Top.field
       /\ c.varint_length_p = Top.varint_length_p /\ IsAt(c)
  BY <1>1, <1>3, <1>13, <1>15, DoneIs
<1>17. DOMAIN c = PackFields /\ IsSame(Top, c)
       /\ stack' = Append([stack EXCEPT ![Depth] = c], d)
  <2>1. Depth \in DOMAIN stack
    BY <1>1 DEF IsPacking, IsChain
  <2>. QED
    BY <1>1, <1>3, <1>13, <1>14, <1>16, <2>1 DEF IsSame
<1>18. /\ DOMAIN d = PackFields /\ d.message = v /\ d.field = 1 /\ d.index = 0
       /\ d.varint_length_p = Len(out') /\ IsAt(d)
       /\ Meant[<<d.message, d.field, d.index>>] = <<>>
  <2>1. PICK at : at = Len(out')
    OBVIOUS
  <2>2. d = PackCall(v, at)
    BY <1>14, <2>1
  <2>. QED
    BY <1>7, <2>1, <2>2, NewPackCall
<1>19. Top.index \in Nat
  BY <1>1, AtParts
<1>20. <<c.message, c.field, c.index - 1>> = Reached(stack, Depth)
  <2>1. c.index - 1 = Top.index
    BY <1>16, <1>19
  <2>. QED
    BY <1>1, <1>16, <2>1
<1>21. Nests(c, d)
  <2>1. c.field = 18 /\ c.index >= 1
    <3>1. PICK idx \in Nat : idx = Top.index
      BY <1>19
    <3>2. c.index = idx + 1
      BY <1>16, <3>1
    <3>3. c.field = 18
      BY <1>2, <1>7, <1>16
    <3>. QED
      BY <3>2, <3>3
  <2>2. d.message = c.message[18][c.index]
    BY <1>2, <1>7, <1>16, <1>18
  <2>. QED
    BY <2>1, <2>2 DEF Nests
<1>22. Top.varint_length_p < Len(out')
  BY <1>1, <1>6, <1>12
<1>23. Len(out') + Counted[All(d.message)] <= Counted[All(message)]
  <2>1. PICK num, s : num = Counted[All(v)] /\ s = uint32_size(Word(Counted[All(v)]))
    OBVIOUS
  <2>2. Len(Written(f, v)) = s + num /\ s \in Nat \ {0} /\ num \in Nat
    BY <1>7, <2>1, RequestWritten
  <2>3. Counted[q] = Counted[p] + (TagSize(f) + (s + num))
    BY <1>6, <2>2
  <2>4. Top.varint_length_p + Counted[All(Top.message)] <= Counted[All(message)]
    BY <1>1 DEF IsPackCall
  <2>5. Counted[All(message)] \in Nat
    BY WholeAgrees DEF IsPacking
  <2>6. PICK total, whole, there, here, at :
           /\ total = Counted[All(message)] /\ whole = Counted[All(Top.message)]
           /\ there = Counted[q] /\ here = Counted[p] /\ at = Top.varint_length_p
    OBVIOUS
  <2>7. /\ total \in Nat /\ whole \in Nat /\ here \in Nat /\ at \in Nat
        /\ there = here + (TagSize(f) + (s + num)) /\ there <= whole /\ at + whole <= total
    BY <1>1, <1>6, <2>3, <2>4, <2>5, <2>6
  <2>8. at + here + (TagSize(f) + 1) + num <= total
    <3>1. PICK t \in 1 .. 2 : t = TagSize(f)
      BY <1>6
    <3>2. there = here + (t + (s + num))
      BY <2>7, <3>1
    <3>3. at + here + (t + 1) + num <= total
      BY <2>2, <2>7, <3>2
    <3>. QED
      BY <3>1, <3>3
  <2>9. Len(out') = at + here + (TagSize(f) + 1) /\ Counted[All(d.message)] = num
    BY <1>12, <1>18, <2>1, <2>6
  <2>. QED
    BY <2>6, <2>8, <2>9
<1>. QED
  BY <1>3, <1>8, <1>10, <1>11, <1>16, <1>17, <1>18, <1>20, <1>21, <1>22, <1>23, PackPushes

(* What is in front of the byte left for a length, and what comes after it. *)
IsAround(o, at, B, z, N) ==
  /\ SubSeq(o, 1, at - 1) = B
  /\ SubSeq(o, at + 1, Len(o)) = N
  /\ Len(o) - at = Len(N)
  /\ o = B \o (z \o N) /\ z \o N \in Seq(Bytes8)

LEMMA AroundLength ==
  ASSUME NEW B \in Seq(Bytes8), NEW z \in Seq(Bytes8), NEW N \in Seq(Bytes8), Len(z) = 1,
         NEW o, o = (B \o z) \o N, NEW at, at = Len(B \o z)
  PROVE  IsAround(o, at, B, z, N)
<1>1. PICK a : a = B \o z
  OBVIOUS
<1>2. a \in Seq(Bytes8) /\ Len(a) = Len(B) + Len(z) /\ Len(B) \in Nat /\ Len(N) \in Nat
  BY <1>1, BytesJoined
<1>3. a \o N \in Seq(Bytes8) /\ Len(a \o N) = Len(a) + Len(N)
  BY <1>2, BytesJoined
<1>4. Len(o) = Len(a) + Len(N) /\ at = Len(a) /\ at - 1 = Len(B) /\ Len(o) - at = Len(N)
  BY <1>1, <1>2, <1>3
<1>5. SubSeq(a \o N, Len(a) + 1, Len(a) + Len(N)) = N
  BY <1>2, BackOfJoined
<1>6. SubSeq(o, at + 1, Len(o)) = N
  BY <1>1, <1>4, <1>5
<1>7. z \o N \in Seq(Bytes8)
  BY BytesJoined
<1>8. (B \o z) \o N = B \o (z \o N)
  BY JoinedThree
<1>9. PICK num : num = Len(B)
  OBVIOUS
<1>10. PICK zn \in Seq(Bytes8) : zn = z \o N
  BY <1>7
<1>11. num \in 0 .. Len(B) /\ num = Len(B)
  BY <1>2, <1>9
<1>12. SubSeq(B \o zn, 1, num) = SubSeq(B, 1, num)
  BY <1>11, FrontOfJoined
<1>13. SubSeq(B, 1, num) = B
  BY <1>11, WholePart
<1>14. SubSeq(o, 1, at - 1) = B
  <2>1. o = B \o zn /\ at - 1 = num
    BY <1>4, <1>8, <1>9, <1>10
  <2>. QED
    BY <1>12, <1>13, <2>1
<1>. QED
  BY <1>4, <1>6, <1>7, <1>8, <1>14 DEF IsAround

LEMMA PackPopped ==
  ASSUME IsChain, message' = message, Depth > 1, stack' = Front(stack),
         NEW c, c = stack[Depth - 1]
  PROVE  /\ IsChain' /\ Depth' = Depth - 1 /\ Depth \in Nat /\ Depth - 1 \in 1 .. Depth
         /\ \A k \in 1 .. Depth - 1 : stack'[k] = stack[k]
         /\ \A k \in 1 .. (Depth - 1) - 1 : Reached(stack', k) = Reached(stack, k)
         /\ Reached(stack', Depth - 1) = <<c.message, c.field, c.index>>
         /\ Reached(stack, Depth - 1) = <<c.message, c.field, c.index - 1>>
         /\ Nests(c, Top) /\ IsAt(c)
<1>1. Depth \in Nat /\ stack = [k \in 1 .. Depth |-> stack[k]]
  BY DEF IsChain
<1>2. PICK S : stack \in Seq(S) /\ c \in S
  BY <1>1, StackIsSeq
<1>3. PICK below \in Nat : below = Depth - 1
  BY <1>1
<1>4. PICK front : front = Front(stack)
  OBVIOUS
<1>5. front \in [1 .. below -> S] /\ \A k \in 1 .. below : front[k] = stack[k]
  BY <1>2, <1>3, <1>4, FrontOf DEF Depth
<1>6. below \in 1 .. below /\ c = stack[below]
  BY <1>1, <1>3
<1>7. front = [front EXCEPT ![below] = c]
  BY <1>5, <1>6
<1>8. stack' = [Front(stack) EXCEPT ![Depth - 1] = c]
  BY <1>3, <1>4, <1>7
<1>9. /\ IsChain' /\ Depth' = Depth - 1 /\ Depth \in Nat /\ stack'[Depth - 1] = c
      /\ \A k \in 1 .. Depth - 1 : k # Depth - 1 => stack'[k] = stack[k] /\ Reached(stack', k) = Reached(stack, k)
      /\ Reached(stack', Depth - 1) = <<c.message, c.field, c.index>>
      /\ Nests(stack[Depth - 1], Top) /\ IsAt(stack[Depth - 1])
  <2>1. /\ c.message = stack[Depth - 1].message /\ c.field = stack[Depth - 1].field
        /\ c.index = stack[Depth - 1].index
    OBVIOUS
  <2>. QED
    BY <1>8, <2>1, ChainPopped
<1>10. \A k \in 1 .. Depth - 1 : stack'[k] = stack[k]
  BY <1>9
<1>11. \A k \in 1 .. (Depth - 1) - 1 : Reached(stack', k) = Reached(stack, k)
  <2>1. ASSUME NEW k \in 1 .. (Depth - 1) - 1 PROVE k \in 1 .. Depth - 1 /\ k # Depth - 1
    BY <1>1
  <2>. QED
    BY <1>9, <2>1
<1>12. Reached(stack, Depth - 1) = <<c.message, c.field, c.index - 1>>
  <2>1. below # Depth
    BY <1>1, <1>3
  <2>2. Reached(stack, below) = <<c.message, c.field, c.index - 1>>
    BY <1>6, <2>1 DEF Reached, Depth
  <2>. QED
    BY <1>3, <2>2
<1>13. Depth - 1 \in 1 .. Depth
  BY <1>1
<1>. QED
  BY <1>9, <1>10, <1>11, <1>12, <1>13

(* A call that returns has written all of its request. *)
LEMMA ReturnsAtEnd ==
  ASSUME NEW c, IsAt(c), ~ (c.index < Len(c.message[c.field])), c.field = 23
  PROVE  <<c.message, c.field, c.index>> = All(c.message)
<1>1. Len(c.message[c.field]) \in Nat /\ c.index \in 0 .. Len(c.message[c.field])
  BY AtParts
<1>2. c.index = Len(c.message[c.field])
  BY <1>1
<1>. QED
  BY <1>2 DEF All

(* What a call is at is that of the one it made, and its length and bytes.  *)
LEMMA NestedWritten ==
  ASSUME NEW c, IsAt(c), NEW d, Nests(c, d), NEW p, p = <<c.message, c.field, c.index - 1>>,
         NEW q, q = <<c.message, c.field, c.index>>
  PROVE  /\ d.message \in Messages /\ c.field = 18
         /\ Meant[p] \in Seq(Bytes8) /\ Counted[p] \in Nat /\ Len(Meant[p]) = Counted[p]
         /\ Extends(q, p, 18, d.message)
         /\ Counted[q] = Counted[p] + (TagSize(18) + Len(Written(18, d.message)))
<1>1. c.message \in Messages /\ c.field \in 1 .. 23 /\ c.field \in Fields
      /\ Len(c.message[c.field]) \in Nat
      /\ c.index \in 0 .. Len(c.message[c.field]) /\ c.index \in Nat
  BY AtParts
<1>2. c.field = 18 /\ c.index >= 1 /\ d.message = c.message[18][c.index]
  BY DEF Nests
<1>3. PICK m \in Messages : m = c.message
  BY <1>1
<1>4. PICK e : e = c.index
  OBVIOUS
<1>5. PICK f \in 1 .. 23 : f = 18
  OBVIOUS
<1>6. e \in 1 .. Len(m[f]) /\ f \in Fields /\ Type(f) = "message"
  BY <1>1, <1>2, <1>3, <1>4, <1>5, TypesAre
<1>7. m[f][e] \in Messages
  BY <1>6, NestedMessage
<1>8. /\ e - 1 \in Nat
      /\ Meant[<<m, f, e>>] = Meant[<<m, f, e - 1>>] \o (Tag(f) \o Written(f, m[f][e]))
      /\ Counted[<<m, f, e>>] = Counted[<<m, f, e - 1>>] + (TagSize(f) + Len(Written(f, m[f][e])))
  BY <1>6, OneMore
<1>9. PICK idx \in Nat : idx = e - 1
  BY <1>8
<1>10. Counted[<<m, f, idx>>] \in Nat /\ Meant[<<m, f, idx>>] \in Seq(Bytes8)
       /\ Len(Meant[<<m, f, idx>>]) = Counted[<<m, f, idx>>]
  BY PlaceAgrees
<1>11. p = <<m, f, idx>> /\ q = <<m, f, e>> /\ d.message = m[f][e]
  BY <1>2, <1>3, <1>4, <1>5, <1>9
<1>12. Extends(q, p, f, m[f][e])
  BY <1>8, <1>9, <1>11 DEF Extends
<1>. QED
  BY <1>2, <1>5, <1>7, <1>8, <1>9, <1>10, <1>11, <1>12

LEMMA PackLengthPacks ==
  ASSUME IsPacking, PackLength
  PROVE  IsPacking'
<1>1. /\ Depth \in Nat \ {0} /\ IsAt(Top) /\ Top = stack[Depth]
      /\ FrontOfCall(out, Top) \in Seq(Bytes8)
      /\ Len(FrontOfCall(out, Top)) = Top.varint_length_p
      /\ out = FrontOfCall(out, Top) \o Meant[<<Top.message, Top.field, Top.index>>]
  BY PackTop
<1>2. /\ Depth > 1 /\ ~ (Top.index < Len(Top.message[Top.field])) /\ Top.field = 23
      /\ out' = SubSeq(out, 1, Top.varint_length_p - 1)
                  \o uint32_pack(Word(Len(out) - Top.varint_length_p))
                  \o SubSeq(out, Top.varint_length_p + 1, Len(out))
      /\ stack' = Front(stack) /\ message' = message
  BY DEF PackLength, Returns, HasValue, FieldValues
<1>3. PICK c : c = stack[Depth - 1]
  OBVIOUS
<1>4. /\ IsChain' /\ Depth' = Depth - 1 /\ Depth - 1 \in 1 .. Depth
      /\ \A k \in 1 .. Depth - 1 : stack'[k] = stack[k]
      /\ \A k \in 1 .. (Depth - 1) - 1 : Reached(stack', k) = Reached(stack, k)
      /\ Reached(stack', Depth - 1) = <<c.message, c.field, c.index>>
      /\ Reached(stack, Depth - 1) = <<c.message, c.field, c.index - 1>>
      /\ Nests(c, Top) /\ IsAt(c)
  BY <1>2, <1>3, PackPopped DEF IsPacking
<1>5. PICK v, p, q : /\ v = Top.message /\ p = <<c.message, c.field, c.index - 1>>
                     /\ q = <<c.message, c.field, c.index>>
  OBVIOUS
<1>6. /\ v \in Messages /\ Meant[p] \in Seq(Bytes8) /\ Extends(q, p, 18, v)
  <2>1. PICK d : d = Top
    OBVIOUS
  <2>2. IsAt(c) /\ Nests(c, d)
    BY <1>4, <2>1
  <2>3. d.message \in Messages /\ Meant[p] \in Seq(Bytes8) /\ Extends(q, p, 18, d.message)
    BY <1>5, <2>2, NestedWritten
  <2>. QED
    BY <1>5, <2>1, <2>3
<1>7. <<Top.message, Top.field, Top.index>> = All(v)
  <2>1. PICK d : d = Top
    OBVIOUS
  <2>2. IsAt(d) /\ ~ (d.index < Len(d.message[d.field])) /\ d.field = 23
    BY <1>1, <1>2, <2>1
  <2>3. <<d.message, d.field, d.index>> = All(d.message)
    BY <2>2, ReturnsAtEnd
  <2>. QED
    BY <1>5, <2>1, <2>3
<1>8. /\ Written(18, v) = uint32_pack(Word(Counted[All(v)])) \o Meant[All(v)]
      /\ uint32_pack(Word(Counted[All(v)])) \in Seq(Bytes8)
      /\ Meant[All(v)] \in Seq(Bytes8)
      /\ Len(Meant[All(v)]) = Counted[All(v)]
  BY <1>6, RequestWritten
<1>9. /\ Follows(out, c, Top, p)
      /\ IsPackCall(out, message, c)
      /\ out \in Seq(Bytes8)
  <2>1. (Depth - 1) \in 1 .. Depth - 1 /\ (Depth - 1) + 1 = Depth
    BY <1>1, <1>2
  <2>2. Follows(out, stack[Depth - 1], stack[(Depth - 1) + 1], Reached(stack, Depth - 1))
    BY <2>1 DEF IsPacking
  <2>3. IsPackCall(out, message, stack[Depth - 1]) /\ out \in Seq(Bytes8)
    BY <1>4 DEF IsPacking
  <2>. QED
    BY <1>1, <1>3, <1>4, <1>5, <2>1, <2>2, <2>3
<1>10. PICK F, M, T, z, B, L, N, at :
         /\ F = FrontOfCall(out, c) /\ M = Meant[p] /\ T = Tag(18) /\ z = <<{}>>
         /\ B = (F \o M) \o T
         /\ L = uint32_pack(Word(Counted[All(v)])) /\ N = Meant[All(v)]
         /\ at = Top.varint_length_p
  OBVIOUS
<1>11. /\ F \in Seq(Bytes8) /\ M \in Seq(Bytes8) /\ T \in Seq(Bytes8) /\ z \in Seq(Bytes8)
       /\ L \in Seq(Bytes8) /\ N \in Seq(Bytes8) /\ Len(z) = 1
       /\ Len(F) = c.varint_length_p /\ c.varint_length_p \in 0 .. Len(out)
  <2>1. c.varint_length_p \in 0 .. Len(out)
    BY <1>9 DEF IsPackCall
  <2>2. FrontOfCall(out, c) \in Seq(Bytes8) /\ Len(FrontOfCall(out, c)) = c.varint_length_p
    BY <1>9, <2>1, FrontType
  <2>3. Tag(18) \in Seq(Bytes8)
    BY FieldsAre, TagIs
  <2>4. <<{}>> \in Seq(Bytes8) /\ Len(<<{}>>) = 1
    BY DEF Bytes8
  <2>. QED
    BY <1>6, <1>8, <1>10, <2>1, <2>2, <2>3, <2>4
<1>12. /\ F \o M \in Seq(Bytes8) /\ B \in Seq(Bytes8)
       /\ Len(B) = (Len(F) + Len(M)) + Len(T)
       /\ Len(F) \in Nat /\ Len(M) \in Nat /\ Len(T) \in Nat
  <2>1. PICK fm : fm = F \o M
    OBVIOUS
  <2>2. fm \in Seq(Bytes8) /\ Len(fm) = Len(F) + Len(M) /\ Len(F) \in Nat /\ Len(M) \in Nat
    BY <1>11, <2>1, BytesJoined
  <2>3. fm \o T \in Seq(Bytes8) /\ Len(fm \o T) = Len(fm) + Len(T) /\ Len(T) \in Nat
    BY <1>11, <2>2, BytesJoined
  <2>. QED
    BY <1>10, <2>1, <2>2, <2>3
<1>13. PICK o : o = out
  OBVIOUS
<1>14. FrontOfCall(out, Top) = B \o z /\ o = (B \o z) \o N
  <2>1. FrontOfCall(out, Top) = B \o z
    BY <1>9, <1>10 DEF Follows
  <2>. QED
    BY <1>1, <1>7, <1>10, <1>13, <2>1
<1>15. /\ SubSeq(o, 1, at - 1) = B
       /\ SubSeq(o, at + 1, Len(o)) = N
       /\ Len(o) - at = Len(N)
       /\ o = B \o (z \o N) /\ z \o N \in Seq(Bytes8)
  <2>1. B \in Seq(Bytes8) /\ z \in Seq(Bytes8) /\ N \in Seq(Bytes8) /\ Len(z) = 1
    BY <1>11, <1>12
  <2>2. o = (B \o z) \o N /\ at = Len(B \o z)
    <3>1. Top.varint_length_p = Len(FrontOfCall(out, Top))
      BY <1>1
    <3>. QED
      BY <1>10, <1>13, <1>14, <3>1
  <2>3. IsAround(o, at, B, z, N)
    BY <2>1, <2>2, AroundLength
  <2>. QED
    BY <2>3 DEF IsAround
<1>16. out' = (B \o L) \o N
  <2>1. out' = SubSeq(o, 1, at - 1) \o uint32_pack(Word(Len(o) - at)) \o SubSeq(o, at + 1, Len(o))
    BY <1>2, <1>10, <1>13
  <2>2. uint32_pack(Word(Len(o) - at)) = L
    BY <1>8, <1>10, <1>15
  <2>. QED
    BY <1>15, <2>1, <2>2
<1>17. PICK W, new : W = L \o N /\ new = out'
  OBVIOUS
<1>18. W \in Seq(Bytes8) /\ new = B \o W
  <2>1. (B \o L) \o N = B \o (L \o N)
    <3>1. B \in Seq(Bytes8) /\ L \in Seq(Bytes8) /\ N \in Seq(Bytes8)
      BY <1>11, <1>12
    <3>. QED
      BY <3>1, JoinedThree
  <2>2. L \o N \in Seq(Bytes8)
    BY <1>11, BytesJoined
  <2>. QED
    BY <1>16, <1>17, <2>1, <2>2
<1>19. new \in Seq(Bytes8) /\ Len(new) = Len(B) + Len(W) /\ Len(W) \in Nat
  BY <1>12, <1>18, BytesJoined
<1>20. new = F \o Meant[q]
  <2>1. Meant[q] = M \o (T \o W)
    BY <1>6, <1>8, <1>10, <1>17 DEF Extends
  <2>2. ((F \o M) \o T) \o W = (F \o M) \o (T \o W)
    <3>1. PICK fm \in Seq(Bytes8) : fm = F \o M
      BY <1>12
    <3>2. T \in Seq(Bytes8) /\ W \in Seq(Bytes8)
      BY <1>11, <1>18
    <3>3. (fm \o T) \o W = fm \o (T \o W)
      BY <3>2, JoinedThree
    <3>. QED
      BY <3>1, <3>3
  <2>3. PICK tw : tw = T \o W
    OBVIOUS
  <2>4. tw \in Seq(Bytes8)
    BY <1>11, <1>18, <2>3, BytesJoined
  <2>5. (F \o M) \o tw = F \o (M \o tw)
    <3>1. F \in Seq(Bytes8) /\ M \in Seq(Bytes8)
      BY <1>11
    <3>. QED
      BY <2>4, <3>1, JoinedThree
  <2>. QED
    BY <1>10, <1>18, <2>1, <2>2, <2>3, <2>5
<1>21. ASSUME NEW b, b.varint_length_p \in 0 .. Len(B)
       PROVE  /\ b.varint_length_p \in 0 .. Len(out')
              /\ FrontOfCall(out', b) = FrontOfCall(out, b)
  <2>1. PICK r : r = z \o N
    OBVIOUS
  <2>2. r \in Seq(Bytes8) /\ o = B \o r
    BY <1>15, <2>1
  <2>3. FrontOfCall(B \o r, b) = FrontOfCall(B, b)
    BY <1>12, <1>21, <2>2, FrontStays
  <2>4. /\ b.varint_length_p \in 0 .. Len(B \o W)
        /\ FrontOfCall(B \o W, b) = FrontOfCall(B, b)
    BY <1>12, <1>18, <1>21, FrontStays
  <2>. QED
    BY <1>13, <1>17, <1>18, <2>2, <2>3, <2>4
<1>22. ASSUME NEW k \in 1 .. Depth - 1
       PROVE  stack[k].varint_length_p \in 0 .. Len(B)
  <2>1. k \in 1 .. Depth
    BY <1>1
  <2>2. stack[k].varint_length_p \in 0 .. Len(out)
    BY <2>1 DEF IsPacking, IsPackCall
  <2>3. Len(out) \in Nat
    BY <1>9, LenProperties
  <2>4. PICK num : num = stack[k].varint_length_p
    OBVIOUS
  <2>5. num \in Nat
    BY <2>2, <2>3, <2>4
  <2>6. num <= c.varint_length_p
    <3>1. CASE k = Depth - 1
      BY <1>3, <2>4, <2>5, <3>1
    <3>2. CASE k # Depth - 1
      <4>1. k < Depth - 1 /\ Depth - 1 \in 1 .. Depth
        BY <1>1, <1>4, <3>2
      <4>2. stack[k].varint_length_p < stack[Depth - 1].varint_length_p
        BY <2>1, <4>1 DEF IsPacking
      <4>. QED
        BY <1>3, <1>11, <1>12, <2>4, <2>5, <4>2
    <3>. QED
      BY <3>1, <3>2
  <2>7. num <= Len(F)
    BY <1>11, <2>6
  <2>. QED
    BY <1>12, <2>4, <2>5, <2>7
<1>23. ASSUME NEW k \in 1 .. Depth - 1
       PROVE  /\ IsSame(stack[k], stack'[k])
              /\ DOMAIN stack'[k] = PackFields
              /\ stack[k].varint_length_p \in 0 .. Len(out')
              /\ FrontOfCall(out', stack[k]) = FrontOfCall(out, stack[k])
  <2>1. PICK b : b = stack[k]
    OBVIOUS
  <2>2. b.varint_length_p \in 0 .. Len(B)
    BY <1>22, <2>1
  <2>3. b.varint_length_p \in 0 .. Len(out') /\ FrontOfCall(out', b) = FrontOfCall(out, b)
    BY <1>21, <2>2
  <2>4. stack'[k] = stack[k] /\ k \in 1 .. Depth
    BY <1>1, <1>4
  <2>5. IsPackCall(out, message, stack[k])
    BY <2>4 DEF IsPacking
  <2>. QED
    BY <2>1, <2>3, <2>4, <2>5 DEF IsSame, IsPackCall
<1>24. PICK below \in 1 .. Depth : below = Depth - 1
  BY <1>4
<1>25. /\ stack'[1].varint_length_p = 0
       /\ \A k \in 1 .. below : IsPackCall(out', message', stack'[k])
       /\ \A j, k \in 1 .. below : j < k => stack'[j].varint_length_p < stack'[k].varint_length_p
       /\ \A k \in 1 .. below - 1 : Follows(out', stack'[k], stack'[k + 1], Reached(stack', k))
  <2>1. /\ \A k \in 1 .. below : /\ IsSame(stack[k], stack'[k])
                                 /\ DOMAIN stack'[k] = PackFields
                                 /\ stack[k].varint_length_p \in 0 .. Len(out')
                                 /\ FrontOfCall(out', stack[k]) = FrontOfCall(out, stack[k])
        /\ \A k \in 1 .. below - 1 : Reached(stack', k) = Reached(stack, k)
    BY <1>4, <1>23, <1>24
  <2>. QED
    BY <1>2, <2>1, PackKept
<1>26. out' = FrontOfCall(out', stack'[below]) \o Meant[Reached(stack', below)]
  <2>1. stack'[below] = c /\ Reached(stack', below) = q
    <3>1. below \in 1 .. Depth - 1
      BY <1>1, <1>24
    <3>. QED
      BY <1>3, <1>4, <1>5, <1>24, <3>1
  <2>2. c.varint_length_p \in 0 .. Len(B)
    BY <1>11, <1>12
  <2>3. FrontOfCall(out', c) = FrontOfCall(out, c)
    BY <1>21, <2>2
  <2>. QED
    BY <1>10, <1>17, <1>20, <2>1, <2>3
<1>27. Depth' = below /\ out' \in Seq(Bytes8) /\ message' \in Messages
  BY <1>2, <1>4, <1>17, <1>19, <1>24 DEF IsPacking
<1>. QED
  BY <1>4, <1>25, <1>26, <1>27 DEF IsPacking
-----------------------------------------------------------------------------
(* `pack_to_buffer'. *)

(* Sizes that are doubled until there is room: the last one comes first. *)
Sizes2 == Nat \ {0}
Doubled(room) == {pair \in Sizes2 \X Sizes2 : pair[1] > pair[2] /\ pair[2] < room}

LEMMA DoubledIsOrder ==
  ASSUME NEW room \in Nat
  PROVE  IsOrder(Doubled(room), Sizes2)
<1>. DEFINE R == Doubled(room)
<1>1. \A x, y \in Sizes2 : <<x, y>> \in R <=> x > y /\ y < room
  BY DEF Doubled
<1>. HIDE DEF R
<1>2. ASSUME NEW x \in Sizes2, NEW y \in Sizes2, NEW z \in Sizes2, <<x, y>> \in R, <<y, z>> \in R
      PROVE  <<x, z>> \in R
  BY <1>1, <1>2 DEF Sizes2
<1>3. ASSUME NEW T \in SUBSET Sizes2, T # {}
      PROVE  \E x \in T : \A y \in T : <<y, x>> \notin R
  <2>1. CASE \E x \in T : x >= room
    <3>1. PICK x \in T : x >= room
      BY <2>1
    <3>2. \A y \in T : <<y, x>> \notin R
      BY <1>1, <1>3, <3>1 DEF Sizes2
    <3>. QED
      BY <3>2
  <2>2. CASE \A x \in T : x < room
    <3>. DEFINE L == {num \in Nat : room - num \in T}
    <3>1. PICK t \in T : TRUE
      BY <1>3
    <3>2. t \in Nat /\ t < room /\ room - t \in Nat /\ room - (room - t) = t
      BY <1>3, <2>2, <3>1 DEF Sizes2
    <3>3. L \subseteq Nat /\ L # {}
      BY <3>1, <3>2
    <3>4. Min(L) \in L /\ \A y \in L : Min(L) <= y
      <4>. HIDE DEF L
      <4>. QED
        BY <3>3, LeastNumber
    <3>5. PICK l \in Nat : room - l \in T /\ \A num \in Nat : room - num \in T => l <= num
      BY <3>4
    <3>6. PICK x \in T : x = room - l
      BY <3>5
    <3>7. ASSUME NEW y \in T, <<y, x>> \in R PROVE FALSE
      <4>1. y > x /\ y \in Nat /\ y < room
        BY <1>1, <1>3, <2>2, <3>7 DEF Sizes2
      <4>2. room - y \in Nat /\ room - (room - y) = y
        BY <4>1
      <4>3. l <= room - y
        BY <3>5, <4>2
      <4>. QED
        BY <3>6, <4>1, <4>3
    <3>. QED
      BY <3>7
  <2>3. \A x \in T : x < room \/ x >= room
    BY <1>3 DEF Sizes2
  <2>. QED
    BY <2>1, <2>2, <2>3
<1>. QED
  BY <1>2, <1>3 DEF IsOrder, R

(* The new size is found, and there is room. *)
LEMMA NewAllocedHasRoom ==
  ASSUME NEW b, b.alloced \in Nat \ {0}, NEW room \in Nat
  PROVE  NewAlloced(b, room) \in Nat \ {0} /\ NewAlloced(b, room) >= room
<1>. DEFINE D == Sizes2
            At(g, num) == IF num < room THEN g[num + num] ELSE num
            H == [num \in D |-> [g \in [D -> D] |-> At(g, num)]]
<1>1. \A num \in D : num + num \in D /\ num + num > num
  BY DEF Sizes2
<1>2. \A num \in D, g \in [D -> D] : At(g, num) \in D
  BY <1>1
<1>3. \A num \in D, g \in [D -> D] : H[num][g] = At(g, num)
  OBVIOUS
<1>4. IsBody(D, D, H)
  <2>1. D # {}
    BY DEF Sizes2
  <2>. HIDE DEF At, D
  <2>. QED
    BY <1>2, <2>1 DEF IsBody
<1>5. IsOrder(Doubled(room), D)
  BY DoubledIsOrder
<1>6. \A x, y \in D : <<x, y>> \in Doubled(room) <=> x > y /\ y < room
  BY DEF Doubled
<1>. HIDE DEF H
<1>7. IsLocal(Doubled(room), D, D, H)
  <2>1. ASSUME NEW d \in D, NEW g \in [D -> D], NEW h \in [D -> D],
               \A e \in D : <<e, d>> \in Doubled(room) => g[e] = h[e]
        PROVE  H[d][g] = H[d][h]
    <3>1. d < room => <<d + d, d>> \in Doubled(room)
      BY <1>1, <1>6
    <3>2. d < room => g[d + d] = h[d + d]
      BY <1>1, <2>1, <3>1
    <3>. QED
      BY <1>3, <3>2
  <2>. HIDE DEF D
  <2>. QED
    BY <2>1 DEF IsLocal
<1>8. IsDefined(D, D, H)
  <2>. HIDE DEF D
  <2>. QED
    BY <1>4, <1>5, <1>7, Recursion
<1>9. PICK f \in [D -> D] : \A num \in D : f[num] = At(f, num)
  BY <1>3, <1>8 DEF IsDefined
<1>10. f = [num \in Nat \ {0} |-> IF num < room THEN f[num + num] ELSE num]
  BY <1>9 DEF Sizes2
<1>. DEFINE grown == CHOOSE g : g = [num \in Nat \ {0} |-> IF num < room THEN g[num + num] ELSE num]
<1>11. grown = [num \in Nat \ {0} |-> IF num < room THEN grown[num + num] ELSE num]
  BY <1>10
<1>12. NewAlloced(b, room) = grown[2 * b.alloced]
  BY DEF NewAlloced
<1>. HIDE DEF grown
<1>13. \A num \in D : grown[num] = IF num < room THEN grown[num + num] ELSE num
  BY <1>11 DEF Sizes2
<1>14. ASSUME NEW num \in D PROVE grown[num] \in D /\ grown[num] >= room
  <2>. DEFINE T == {x \in D : ~ (grown[x] \in D /\ grown[x] >= room)}
  <2>1. ASSUME T # {} PROVE FALSE
    <3>1. T \in SUBSET D
      OBVIOUS
    <3>2. \E x \in T : \A y \in T : <<y, x>> \notin Doubled(room)
      <4>. HIDE DEF T, D
      <4>. QED
        BY <1>5, <2>1, <3>1 DEF IsOrder
    <3>3. PICK x \in T : \A y \in T : <<y, x>> \notin Doubled(room)
      BY <3>2
    <3>4. x < room
      BY <1>13, <3>3 DEF Sizes2
    <3>5. x + x \in D /\ <<x + x, x>> \in Doubled(room)
      BY <1>1, <1>6, <3>3, <3>4
    <3>6. x + x \notin T
      BY <3>3, <3>5
    <3>7. grown[x] = grown[x + x]
      BY <1>13, <3>3, <3>4
    <3>. QED
      BY <3>3, <3>5, <3>6, <3>7
  <2>. QED
    BY <2>1
<1>15. 2 * b.alloced \in D
  BY DEF Sizes2
<1>. QED
  BY <1>12, <1>14, <1>15 DEF Sizes2

(* A cell of memory has a byte, or what nobody wrote. *)
Cells == SUBSET (0 .. 8)

AppendFields == {"message", "field", "index", "pieces", "buffer", "sz"}
BufferFields == {"data", "alloced", "must_free_data"}

IsPiece(x) == x.data \in Seq(Cells)

IsPieces(pieces) ==
  \/ pieces = <<>>
  \/ \E a : IsPiece(a) /\ pieces = <<a>>
  \/ \E a, b : IsPiece(a) /\ IsPiece(b) /\ pieces = <<a, b>>

(* What the call has still to pass on. *)
Pending(pieces) ==
  CASE pieces = <<>> -> <<>>
    [] Len(pieces) = 1 -> pieces[1].data
    [] Len(pieces) = 2 -> pieces[1].data \o pieces[2].data

IsAppendCall(c, p) ==
  /\ DOMAIN c = AppendFields /\ DOMAIN c.buffer = BufferFields
  /\ c.buffer.data \in Seq(Cells)
  /\ IsPieces(c.pieces)
  /\ c.sz \in Nat
  /\ c.buffer.alloced \in Nat \ {0}
  /\ Len(c.buffer.data) <= c.buffer.alloced
  /\ Len(c.buffer.data) <= c.sz
  /\ c.sz + Len(Pending(c.pieces)) = Counted[p]

IsWhole(c, p) == c.buffer.data \o Pending(c.pieces) = Meant[p]

IsDamaged(c) ==
  \/ Len(c.buffer.data) < c.sz
  \/ \E j \in 1 .. Len(c.buffer.data) : c.buffer.data[j] = Junk
  \/ \E j \in 1 .. Len(Pending(c.pieces)) : Pending(c.pieces)[j] = Junk

IsAppending ==
  /\ IsChain
  /\ message \in Messages
  /\ \A k \in 1 .. Depth : IsAppendCall(stack[k], Reached(stack, k))
  /\ \A k \in 1 .. Depth - 1 : stack[k].pieces = <<>>
  /\ ~failed => \A k \in 1 .. Depth : IsWhole(stack[k], Reached(stack, k))
  /\ failed => \E k \in 1 .. Depth : IsDamaged(stack[k])

(* The pieces of a value are passed on one by one. *)
LEMMA PendingTwo ==
  ASSUME NEW a, NEW b, NEW pieces, pieces = <<a, b>>
  PROVE  Pending(pieces) = a.data \o b.data
<1>1. pieces # <<>> /\ Len(pieces) = 2 /\ pieces[1] = a /\ pieces[2] = b
  OBVIOUS
<1>2. PICK l : l = Len(pieces)
  OBVIOUS
<1>3. l = 2 /\ l # 1
  BY <1>1, <1>2
<1>4. PICK s, empty, one : s = pieces[1].data \o pieces[2].data /\ empty = <<>> /\ one = pieces[1].data
  OBVIOUS
<1>5. Pending(pieces) = CASE pieces = <<>> -> empty [] l = 1 -> one [] l = 2 -> s
  BY <1>2, <1>4 DEF Pending
<1>6. Pending(pieces) = s
  BY <1>1, <1>3, <1>5
<1>. QED
  BY <1>1, <1>4, <1>6

LEMMA PendingType ==
  ASSUME NEW pieces, IsPieces(pieces)
  PROVE  Pending(pieces) \in Seq(Cells) /\ Len(Pending(pieces)) \in Nat
<1>1. CASE pieces = <<>>
  BY <1>1, EmptySeq DEF Pending
<1>2. ASSUME NEW a, IsPiece(a), pieces = <<a>> PROVE Pending(pieces) \in Seq(Cells)
  BY <1>2 DEF Pending, IsPiece
<1>3. ASSUME NEW a, NEW b, IsPiece(a), IsPiece(b), pieces = <<a, b>> PROVE Pending(pieces) \in Seq(Cells)
  <2>1. Pending(pieces) = a.data \o b.data
    BY <1>3, PendingTwo
  <2>. QED
    BY <1>3, <2>1, ConcatProperties DEF IsPiece
<1>4. Pending(pieces) \in Seq(Cells)
  <2>1. \/ pieces = <<>>
        \/ \E a : IsPiece(a) /\ pieces = <<a>>
        \/ \E a, b : IsPiece(a) /\ IsPiece(b) /\ pieces = <<a, b>>
    BY DEF IsPieces
  <2>. QED
    BY <1>1, <1>2, <1>3, <2>1
<1>. QED
  BY <1>4, LenProperties

LEMMA PiecesPassed ==
  ASSUME NEW pieces, IsPieces(pieces), pieces # <<>>
  PROVE  /\ IsPieces(Tail(pieces)) /\ IsPiece(Head(pieces))
         /\ Pending(pieces) = Head(pieces).data \o Pending(Tail(pieces))
<1>1. ASSUME NEW a, IsPiece(a), pieces = <<a>>
      PROVE  /\ IsPieces(Tail(pieces)) /\ IsPiece(Head(pieces))
             /\ Pending(pieces) = Head(pieces).data \o Pending(Tail(pieces))
  <2>1. Tail(pieces) = <<>> /\ Head(pieces) = a /\ pieces[1] = a /\ Len(pieces) = 1
    BY <1>1
  <2>2. Pending(pieces) = a.data /\ Pending(Tail(pieces)) = <<>>
    BY <1>1, <2>1 DEF Pending
  <2>3. a.data \o <<>> = a.data
    BY <1>1, ConcatEmptySeq DEF IsPiece
  <2>4. IsPieces(Tail(pieces))
    BY <2>1 DEF IsPieces
  <2>. QED
    BY <1>1, <2>1, <2>2, <2>3, <2>4
<1>2. ASSUME NEW a, NEW b, IsPiece(a), IsPiece(b), pieces = <<a, b>>
      PROVE  /\ IsPieces(Tail(pieces)) /\ IsPiece(Head(pieces))
             /\ Pending(pieces) = Head(pieces).data \o Pending(Tail(pieces))
  <2>1. Head(pieces) = a /\ pieces[1] = a /\ pieces[2] = b /\ Len(pieces) = 2
    BY <1>2
  <2>2. PICK rest : rest = Tail(pieces)
    OBVIOUS
  <2>3. rest = <<b>>
    BY <1>2, <2>2
  <2>4. Pending(rest) = b.data
    BY <2>3 DEF Pending
  <2>5. Pending(pieces) = a.data \o b.data
    BY <1>2, PendingTwo
  <2>6. IsPieces(rest)
    BY <1>2, <2>3 DEF IsPieces
  <2>. QED
    BY <1>2, <2>1, <2>2, <2>4, <2>5, <2>6
<1>. QED
  BY <1>1, <1>2 DEF IsPieces

(* The call on top goes on; the others wait. *)
LEMMA AppendTopChanges ==
  ASSUME IsAppending, message' = message, NEW c, IsAt(c), c.message = Top.message,
         stack' = [stack EXCEPT ![Depth] = c],
         NEW p, p = <<c.message, c.field, c.index>>, IsAppendCall(c, p),
         failed => failed',
         ~failed' => (IsWhole(Top, Reached(stack, Depth)) => IsWhole(c, p)),
         failed' => \/ IsDamaged(c)
                    \/ failed /\ (IsDamaged(Top) => IsDamaged(c))
  PROVE  IsAppending'
<1>2. /\ IsChain' /\ Depth' = Depth /\ Depth \in Nat \ {0} /\ stack'[Depth] = c
      /\ \A k \in 1 .. Depth : k # Depth => stack'[k] = stack[k] /\ Reached(stack', k) = Reached(stack, k)
      /\ Reached(stack', Depth) = p
  BY ChainChanged DEF IsAppending
<1>3. Depth \in 1 .. Depth /\ Top = stack[Depth]
  BY <1>2 DEF Top
<1>4. ASSUME NEW k \in 1 .. Depth PROVE IsAppendCall(stack'[k], Reached(stack', k))
  <2>1. CASE k = Depth
    BY <1>2, <2>1
  <2>2. CASE k # Depth
    BY <1>2, <2>2 DEF IsAppending
  <2>. QED
    BY <2>1, <2>2
<1>5. ASSUME NEW k \in 1 .. Depth - 1 PROVE stack'[k].pieces = <<>>
  <2>1. k \in 1 .. Depth /\ k # Depth
    BY <1>2
  <2>. QED
    BY <1>2, <2>1 DEF IsAppending
<1>6. ASSUME ~failed', NEW k \in 1 .. Depth PROVE IsWhole(stack'[k], Reached(stack', k))
  <2>1. \A idx \in 1 .. Depth : IsWhole(stack[idx], Reached(stack, idx))
    BY <1>6 DEF IsAppending
  <2>2. CASE k = Depth
    BY <1>2, <1>3, <1>6, <2>1, <2>2
  <2>3. CASE k # Depth
    BY <1>2, <2>1, <2>3
  <2>. QED
    BY <2>2, <2>3
<1>7. ASSUME failed' PROVE \E k \in 1 .. Depth : IsDamaged(stack'[k])
  <2>1. CASE IsDamaged(c)
    BY <1>2, <1>3, <2>1
  <2>2. CASE failed /\ (IsDamaged(Top) => IsDamaged(c))
    <3>1. PICK k \in 1 .. Depth : IsDamaged(stack[k])
      BY <2>2 DEF IsAppending
    <3>2. CASE k = Depth
      BY <1>2, <1>3, <2>2, <3>1, <3>2
    <3>3. CASE k # Depth
      BY <1>2, <3>1, <3>3
    <3>. QED
      BY <3>2, <3>3
  <2>. QED
    BY <1>7, <2>1, <2>2
<1>8. message' \in Messages
  BY DEF IsAppending
<1>. QED
  BY <1>2, <1>4, <1>5, <1>6, <1>7, <1>8 DEF IsAppending

LEMMA CellsJoined ==
  ASSUME NEW s \in Seq(Cells), NEW t \in Seq(Cells)
  PROVE  /\ s \o t \in Seq(Cells) /\ Len(s \o t) = Len(s) + Len(t)
         /\ Len(s) \in Nat /\ Len(t) \in Nat
BY ConcatProperties, LenProperties

LEMMA BytesAreCells ==
  ASSUME NEW s \in Seq(Bytes8)
  PROVE  s \in Seq(Cells)
<1>1. Bytes8 \subseteq Cells
  BY DEF Bytes8, Cells
<1>2. Len(s) \in Nat /\ s \in [1 .. Len(s) -> Bytes8]
  BY LenProperties
<1>3. PICK size \in Nat : size = Len(s)
  BY <1>2
<1>4. s \in [1 .. size -> Cells]
  BY <1>1, <1>2, <1>3
<1>. QED
  BY <1>4, FunctionIsSeq

LEMMA AppendTop ==
  ASSUME IsAppending
  PROVE  /\ Depth \in Nat \ {0} /\ IsAt(Top) /\ Top = stack[Depth]
         /\ Reached(stack, Depth) = <<Top.message, Top.field, Top.index>>
         /\ IsAppendCall(Top, <<Top.message, Top.field, Top.index>>)
<1>1. /\ Depth \in Nat \ {0} /\ IsAt(Top) /\ Top = stack[Depth]
      /\ Reached(stack, Depth) = <<Top.message, Top.field, Top.index>>
  BY TopParts DEF IsAppending
<1>2. Depth \in 1 .. Depth
  BY <1>1
<1>3. IsAppendCall(stack[Depth], Reached(stack, Depth))
  BY <1>2 DEF IsAppending
<1>. QED
  BY <1>1, <1>3

LEMMA NonePending == Pending(<<>>) = <<>> /\ Len(Pending(<<>>)) = 0 /\ IsPieces(<<>>)
<1>1. Pending(<<>>) = <<>>
  BY DEF Pending
<1>. QED
  BY <1>1 DEF IsPieces

(* The call is at the start of the next field: nothing more is written.     *)
LEMMA NextPlace ==
  ASSUME NEW c, IsAt(c), ~ (c.index < Len(c.message[c.field])), c.field < 23,
         NEW d, d.message = c.message, d.field = c.field + 1, d.index = 0,
         NEW p, p = <<c.message, c.field, c.index>>,
         NEW q, q = <<d.message, d.field, d.index>>
  PROVE  IsAt(d) /\ Counted[q] = Counted[p] /\ Meant[q] = Meant[p]
<1>1. /\ c.message \in Messages /\ c.field \in 1 .. 23
      /\ Len(c.message[c.field]) \in Nat
      /\ c.index \in 0 .. Len(c.message[c.field]) /\ c.index \in Nat
  BY AtParts
<1>2. PICK m \in Messages : m = c.message
  BY <1>1
<1>3. PICK f \in 1 .. 22 : f = c.field
  BY <1>1
<1>4. PICK g \in 1 .. 23 : g = f + 1
  OBVIOUS
<1>5. c.index = Len(m[f])
  BY <1>1, <1>2, <1>3
<1>6. Counted[<<m, f + 1, 0>>] = Counted[<<m, f, Len(m[f])>>]
      /\ Meant[<<m, f + 1, 0>>] = Meant[<<m, f, Len(m[f])>>]
  BY AtNext
<1>7. p = <<m, f, Len(m[f])>> /\ q = <<m, f + 1, 0>>
  BY <1>2, <1>3, <1>5
<1>8. g \in Fields
  BY FieldsAre
<1>9. Len(m[g]) \in Nat
  BY <1>8, MessageParts
<1>10. d.message = m /\ d.field = g /\ d.index = 0
  BY <1>2, <1>3, <1>4
<1>11. IsAt(d)
  <2>1. d.message \in Messages
    BY <1>10
  <2>2. d.field \in 1 .. 23
    BY <1>10
  <2>3. d.index \in 0 .. Len(d.message[d.field])
    <3>1. 0 \in 0 .. Len(m[g])
      BY <1>9
    <3>. QED
      BY <1>10, <3>1
  <2>. QED
    BY <2>1, <2>2, <2>3 DEF IsAt
<1>. QED
  BY <1>6, <1>7, <1>11

LEMMA NextFieldAppends ==
  ASSUME IsAppending, NextField, how = "append"
  PROVE  IsAppending'
<1>1. /\ Depth \in Nat \ {0} /\ IsAt(Top) /\ Top = stack[Depth]
      /\ Reached(stack, Depth) = <<Top.message, Top.field, Top.index>>
      /\ IsAppendCall(Top, <<Top.message, Top.field, Top.index>>)
  BY AppendTop
<1>2. /\ ~ (Top.index < Len(Top.message[Top.field])) /\ Top.field < 23
      /\ stack' = [stack EXCEPT ![Depth].field = @ + 1, ![Depth].index = 0]
      /\ message' = message /\ failed' = failed
  BY DEF NextField, HasValue, FieldValues
<1>3. DOMAIN Top = AppendFields
  BY <1>1 DEF IsAppendCall
<1>4. PICK t, c : t = Top /\ c = [Top EXCEPT !.field = @ + 1, !.index = 0]
  OBVIOUS
<1>5. /\ DOMAIN c = AppendFields /\ c.field = t.field + 1 /\ c.index = 0
      /\ c.message = t.message /\ c.pieces = t.pieces /\ c.buffer = t.buffer /\ c.sz = t.sz
  BY <1>3, <1>4 DEF AppendFields
<1>6. stack' = [stack EXCEPT ![Depth] = c]
  BY <1>1, <1>2, <1>4 DEF IsAppending, IsChain
<1>7. PICK p, q : p = <<t.message, t.field, t.index>> /\ q = <<c.message, c.field, c.index>>
  OBVIOUS
<1>8. IsAt(c) /\ Counted[q] = Counted[p] /\ Meant[q] = Meant[p]
  <2>1. IsAt(t) /\ ~ (t.index < Len(t.message[t.field])) /\ t.field < 23
    BY <1>1, <1>2, <1>4
  <2>. QED
    BY <1>5, <1>7, <2>1, NextPlace
<1>9. IsAppendCall(t, p) /\ Reached(stack, Depth) = p
  BY <1>1, <1>4, <1>7
<1>10. IsAppendCall(c, q)
  BY <1>5, <1>8, <1>9 DEF IsAppendCall
<1>11. IsWhole(t, p) => IsWhole(c, q)
  BY <1>5, <1>8 DEF IsWhole
<1>12. IsDamaged(t) => IsDamaged(c)
  BY <1>5 DEF IsDamaged
<1>. QED
  BY <1>2, <1>4, <1>5, <1>6, <1>7, <1>8, <1>9, <1>10, <1>11, <1>12, AppendTopChanges

LEMMA PiecesOf ==
  ASSUME NEW f \in Fields, NEW v \in ValuesOf(f), Type(f) # "message"
  PROVE  /\ IsPieces(Pieces(f, v))
         /\ Pending(Pieces(f, v)) = Tag(f) \o Pack(f, v)
<1>1. Tag(f) \in Seq(Bytes8) /\ Pack(f, v) \in Seq(Bytes8)
  BY TagIs, ValuePack
<1>2. CASE Type(f) # "string"
  <2>1. PICK s : s = Tag(f) \o Pack(f, v)
    OBVIOUS
  <2>2. s \in Seq(Cells)
    BY <1>1, <2>1, BytesJoined, BytesAreCells
  <2>3. PICK a : a = Bytes(s)
    OBVIOUS
  <2>4. a.data = s /\ IsPiece(a)
    BY <2>2, <2>3 DEF Bytes, IsPiece
  <2>5. PICK pieces : pieces = Pieces(f, v)
    OBVIOUS
  <2>6. pieces = <<a>>
    BY <1>2, <2>1, <2>3, <2>5 DEF Pieces
  <2>7. Pending(pieces) = a.data /\ IsPieces(pieces)
    BY <2>4, <2>6 DEF Pending, IsPieces
  <2>. QED
    BY <2>1, <2>4, <2>5, <2>7
<1>3. CASE Type(f) = "string"
  <2>1. v \in Seq(Bytes8)
    BY <1>3 DEF ValuesOf, Bytes8
  <2>2. PICK num \in Nat : num = Len(v)
    BY <2>1, LenProperties
  <2>3. PICK l : l = uint32_pack(Word(num))
    OBVIOUS
  <2>4. l \in Seq(Bytes8)
    BY <2>3, LengthPack
  <2>5. PICK s : s = Tag(f) \o l
    OBVIOUS
  <2>6. s \in Seq(Cells) /\ v \in Seq(Cells)
    BY <1>1, <2>1, <2>4, <2>5, BytesJoined, BytesAreCells
  <2>7. PICK a, b : a = Bytes(s) /\ b = Bytes(v)
    OBVIOUS
  <2>8. a.data = s /\ b.data = v /\ IsPiece(a) /\ IsPiece(b)
    BY <2>6, <2>7 DEF Bytes, IsPiece
  <2>9. PICK pieces : pieces = Pieces(f, v)
    OBVIOUS
  <2>10. pieces = <<a, b>>
    BY <1>3, <2>2, <2>3, <2>5, <2>7, <2>9 DEF Pieces
  <2>11. Pending(pieces) = a.data \o b.data
    BY <2>10, PendingTwo
  <2>12. IsPieces(pieces)
    BY <2>8, <2>10 DEF IsPieces
  <2>13. Pack(f, v) = l \o v
    <3>1. Pack(f, v) = delimited_pack(v)
      BY <1>3 DEF Pack
    <3>. QED
      BY <2>2, <2>3, <3>1 DEF delimited_pack
  <2>14. (Tag(f) \o l) \o v = Tag(f) \o (l \o v)
    BY <1>1, <2>1, <2>4, JoinedThree
  <2>. QED
    BY <2>5, <2>8, <2>9, <2>11, <2>12, <2>13, <2>14
<1>. QED
  BY <1>2, <1>3

LEMMA AppendValueAppends ==
  ASSUME IsAppending, AppendValue
  PROVE  IsAppending'
<1>1. /\ Depth \in Nat \ {0} /\ IsAt(Top) /\ Top = stack[Depth]
      /\ Reached(stack, Depth) = <<Top.message, Top.field, Top.index>>
      /\ IsAppendCall(Top, <<Top.message, Top.field, Top.index>>)
  BY AppendTop
<1>2. PICK t : t = Top
  OBVIOUS
<1>3. PICK f, v, p, q :
        /\ f = t.field /\ p = <<t.message, f, t.index>>
        /\ v = t.message[f][t.index + 1]
        /\ q = <<t.message, f, t.index + 1>>
  OBVIOUS
<1>4. /\ t.pieces = <<>> /\ t.index < Len(t.message[t.field]) /\ Type(f) # "message"
      /\ stack' = [stack EXCEPT ![Depth] = [Done(@) EXCEPT !.pieces = Pieces(f, v)]]
      /\ message' = message /\ failed' = failed
  BY <1>2, <1>3 DEF AppendValue, HasValue, FieldValues, Value
<1>5. IsNext(t, f, v, p, q)
  BY <1>1, <1>2, <1>3, <1>4 DEF IsNext
<1>6. /\ f \in Fields /\ v \in ValuesOf(f)
      /\ Tag(f) \in Seq(Bytes8) /\ Len(Tag(f)) = TagSize(f)
      /\ Written(f, v) \in Seq(Bytes8) /\ Len(Written(f, v)) \in Nat
      /\ Extends(q, p, f, v)
      /\ Counted[q] = Counted[p] + (TagSize(f) + Len(Written(f, v)))
  BY <1>5, ValueHere
<1>7. Written(f, v) = Pack(f, v)
  BY <1>4 DEF Written
<1>8. PICK pieces : pieces = Pieces(f, v)
  OBVIOUS
<1>9. PICK x : x = Tag(f) \o Written(f, v)
  OBVIOUS
<1>10. IsPieces(pieces) /\ Pending(pieces) = x
  BY <1>4, <1>6, <1>7, <1>8, <1>9, PiecesOf
<1>11. x \in Seq(Bytes8) /\ Len(x) = TagSize(f) + Len(Written(f, v))
  BY <1>6, <1>9, BytesJoined
<1>12. IsAppendCall(t, p) /\ Reached(stack, Depth) = p /\ DOMAIN t = AppendFields
  BY <1>1, <1>2, <1>3 DEF IsAppendCall
<1>13. PICK c : c = [Done(t) EXCEPT !.pieces = pieces]
  OBVIOUS
<1>14. /\ DOMAIN c = AppendFields /\ c.index = t.index + 1
       /\ c.message = t.message /\ c.field = t.field
       /\ c.pieces = pieces /\ c.buffer = t.buffer /\ c.sz = t.sz
  BY <1>12, <1>13 DEF Done, AppendFields
<1>15. stack' = [stack EXCEPT ![Depth] = c]
  <2>1. Depth \in DOMAIN stack
    BY <1>1 DEF IsAppending, IsChain
  <2>. QED
    BY <1>1, <1>2, <1>4, <1>8, <1>13, <2>1
<1>16. IsAt(c)
  <2>1. IsAt(t) /\ "index" \in DOMAIN t
    BY <1>1, <1>2, <1>12 DEF AppendFields
  <2>2. IsAt(Done(t))
    BY <1>4, <2>1, DoneIs
  <2>3. Done(t).message = c.message /\ Done(t).field = c.field /\ Done(t).index = c.index
    BY <1>12, <1>14 DEF Done, AppendFields
  <2>. QED
    BY <2>2, <2>3 DEF IsAt
<1>17. q = <<c.message, c.field, c.index>>
  BY <1>3, <1>14
<1>18. Pending(t.pieces) = <<>> /\ Len(Pending(t.pieces)) = 0
  BY <1>4, NonePending
<1>19. t.sz + Len(x) = Counted[q]
  <2>1. PICK l : l = Len(Pending(t.pieces))
    OBVIOUS
  <2>2. t.sz + l = Counted[p] /\ l = 0 /\ t.sz \in Nat
    BY <1>12, <1>18, <2>1 DEF IsAppendCall
  <2>3. Counted[p] = t.sz
    BY <2>2
  <2>. QED
    BY <1>6, <1>11, <2>3
<1>20. IsAppendCall(c, q)
  BY <1>10, <1>12, <1>14, <1>19 DEF IsAppendCall
<1>21. ASSUME IsWhole(t, p) PROVE IsWhole(c, q)
  <2>1. t.buffer.data \o <<>> = Meant[p]
    BY <1>18, <1>21 DEF IsWhole
  <2>2. t.buffer.data \in Seq(Cells)
    BY <1>12 DEF IsAppendCall
  <2>3. t.buffer.data = Meant[p]
    BY <2>1, <2>2, ConcatEmptySeq
  <2>4. t.buffer.data \o x = Meant[q]
    BY <1>6, <1>9, <2>3 DEF Extends
  <2>. QED
    BY <1>10, <1>14, <2>4 DEF IsWhole
<1>22. ASSUME IsDamaged(t) PROVE IsDamaged(c)
  <2>1. ~ \E j \in 1 .. Len(Pending(t.pieces)) : Pending(t.pieces)[j] = Junk
    BY <1>18
  <2>. QED
    BY <1>14, <1>22, <2>1 DEF IsDamaged
<1>. QED
  BY <1>2, <1>4, <1>12, <1>14, <1>15, <1>16, <1>17, <1>20, <1>21, <1>22, AppendTopChanges

(* A piece is passed on, to the buffer or, where it fails, to nobody. *)
LEMMA PassedIs ==
  ASSUME NEW t, NEW p, IsAppendCall(t, p), t.pieces # <<>>, NEW b
  PROVE  /\ DOMAIN Passed(t, b) = AppendFields
         /\ Passed(t, b).message = t.message /\ Passed(t, b).field = t.field
         /\ Passed(t, b).index = t.index
         /\ Passed(t, b).pieces = Tail(t.pieces) /\ Passed(t, b).buffer = b
         /\ Passed(t, b).sz = t.sz + Len(Head(t.pieces).data)
         /\ IsPieces(Tail(t.pieces)) /\ Head(t.pieces).data \in Seq(Cells)
         /\ Pending(t.pieces) = Head(t.pieces).data \o Pending(Tail(t.pieces))
         /\ Pending(Tail(t.pieces)) \in Seq(Cells)
<1>1. DOMAIN t = AppendFields /\ IsPieces(t.pieces)
  BY DEF IsAppendCall
<1>2. /\ DOMAIN Passed(t, b) = AppendFields
      /\ Passed(t, b).message = t.message /\ Passed(t, b).field = t.field
      /\ Passed(t, b).index = t.index
      /\ Passed(t, b).pieces = Tail(t.pieces) /\ Passed(t, b).buffer = b
      /\ Passed(t, b).sz = t.sz + Len(Head(t.pieces).data)
  BY <1>1 DEF Passed, AppendFields
<1>3. PICK pieces : pieces = t.pieces
  OBVIOUS
<1>4. IsPieces(pieces) /\ pieces # <<>>
  BY <1>1, <1>3
<1>5. /\ IsPieces(Tail(pieces)) /\ IsPiece(Head(pieces))
      /\ Pending(pieces) = Head(pieces).data \o Pending(Tail(pieces))
  BY <1>4, PiecesPassed
<1>6. Head(pieces).data \in Seq(Cells)
  BY <1>5 DEF IsPiece
<1>7. Pending(Tail(pieces)) \in Seq(Cells)
  BY <1>5, PendingType
<1>. QED
  BY <1>2, <1>3, <1>5, <1>6, <1>7

LEMMA GrownIs ==
  ASSUME NEW b, DOMAIN b = BufferFields, b.data \in Seq(Cells), b.alloced \in Nat \ {0},
         NEW x \in Seq(Cells), NEW g, g = Grown(b, x)
  PROVE  /\ DOMAIN g = BufferFields /\ g.data = b.data \o x
         /\ g.alloced \in Nat \ {0} /\ Len(b.data \o x) <= g.alloced
<1>1. /\ b.data \o x \in Seq(Cells) /\ Len(b.data \o x) = Len(b.data) + Len(x)
      /\ Len(b.data) \in Nat /\ Len(x) \in Nat
  BY CellsJoined
<1>2. PICK room \in Nat : room = Len(b.data) + Len(x)
  BY <1>1
<1>3. CASE HasRoom(b, x)
  <2>1. g = [b EXCEPT !.data = @ \o x] /\ room <= b.alloced
    BY <1>2, <1>3 DEF Grown, HasRoom
  <2>2. DOMAIN g = BufferFields /\ g.data = b.data \o x /\ g.alloced = b.alloced
    BY <2>1 DEF BufferFields
  <2>. QED
    BY <1>1, <1>2, <2>1, <2>2
<1>4. CASE ~ HasRoom(b, x)
  <2>1. NewAlloced(b, room) \in Nat \ {0} /\ NewAlloced(b, room) >= room
    BY NewAllocedHasRoom
  <2>2. g = [data |-> b.data \o x, alloced |-> NewAlloced(b, room), must_free_data |-> TRUE]
    BY <1>2, <1>4 DEF Grown
  <2>3. DOMAIN g = BufferFields /\ g.data = b.data \o x /\ g.alloced = NewAlloced(b, room)
    BY <2>2 DEF BufferFields
  <2>. QED
    BY <1>1, <1>2, <2>1, <2>3
<1>. QED
  BY <1>3, <1>4

LEMMA CellsThree ==
  ASSUME NEW a \in Seq(Cells), NEW b \in Seq(Cells), NEW c \in Seq(Cells)
  PROVE  (a \o b) \o c = a \o (b \o c)
BY JoinedThree

(* What has been lost, or was never written, is so wherever it is passed.   *)
LEMMA DamageIsPassed ==
  ASSUME NEW data \in Seq(Cells), NEW x \in Seq(Cells), NEW rest \in Seq(Cells),
         NEW j \in 1 .. Len(x \o rest), (x \o rest)[j] = Junk
  PROVE  \/ \E k \in 1 .. Len(data \o x) : (data \o x)[k] = Junk
         \/ \E k \in 1 .. Len(rest) : rest[k] = Junk
<1>1. PICK xr, dx : xr = x \o rest /\ dx = data \o x
  OBVIOUS
<1>2. /\ Len(xr) = Len(x) + Len(rest) /\ Len(x) \in Nat /\ Len(rest) \in Nat
      /\ \A k \in 1 .. Len(x) : xr[k] = x[k]
      /\ \A k \in 1 .. Len(rest) : xr[k + Len(x)] = rest[k]
  BY <1>1, Joined
<1>3. /\ Len(dx) = Len(data) + Len(x) /\ Len(data) \in Nat
      /\ \A k \in 1 .. Len(x) : dx[k + Len(data)] = x[k]
  BY <1>1, Joined
<1>4. j \in 1 .. Len(xr) /\ xr[j] = Junk
  BY <1>1
<1>5. CASE j <= Len(x)
  <2>1. j \in 1 .. Len(x) /\ j + Len(data) \in 1 .. Len(dx)
    BY <1>2, <1>3, <1>4, <1>5
  <2>2. dx[j + Len(data)] = Junk
    BY <1>2, <1>3, <1>4, <2>1
  <2>. QED
    BY <1>1, <2>1, <2>2
<1>6. CASE j > Len(x)
  <2>1. j - Len(x) \in 1 .. Len(rest) /\ (j - Len(x)) + Len(x) = j
    BY <1>2, <1>4, <1>6
  <2>2. rest[j - Len(x)] = Junk
    BY <1>2, <1>4, <2>1
  <2>. QED
    BY <2>1, <2>2
<1>. QED
  BY <1>2, <1>4, <1>5, <1>6

LEMMA JunkStays ==
  ASSUME NEW data \in Seq(Cells), NEW x \in Seq(Cells),
         NEW j \in 1 .. Len(data), data[j] = Junk
  PROVE  \E k \in 1 .. Len(data \o x) : (data \o x)[k] = Junk
<1>1. PICK dx : dx = data \o x
  OBVIOUS
<1>2. /\ Len(dx) = Len(data) + Len(x) /\ Len(data) \in Nat /\ Len(x) \in Nat
      /\ \A k \in 1 .. Len(data) : dx[k] = data[k]
  BY <1>1, Joined
<1>3. j \in 1 .. Len(dx) /\ dx[j] = Junk
  BY <1>2
<1>. QED
  BY <1>1, <1>3

LEMMA AppendBytesAppends ==
  ASSUME IsAppending, AppendBytes
  PROVE  IsAppending'
<1>1. /\ Depth \in Nat \ {0} /\ IsAt(Top) /\ Top = stack[Depth]
      /\ Reached(stack, Depth) = <<Top.message, Top.field, Top.index>>
      /\ IsAppendCall(Top, <<Top.message, Top.field, Top.index>>)
  BY AppendTop
<1>2. PICK t, x, rest, g, c, p :
        /\ t = Top /\ x = Head(Top.pieces).data /\ rest = Pending(Tail(Top.pieces))
        /\ g = Grown(Top.buffer, x) /\ c = Passed(Top, g)
        /\ p = <<Top.message, Top.field, Top.index>>
  OBVIOUS
<1>3. /\ t.pieces # <<>> /\ stack' = [stack EXCEPT ![Depth] = Passed(@, Grown(Top.buffer, Piece.data))]
      /\ message' = message /\ failed' = failed
  BY <1>2 DEF AppendBytes
<1>4. IsAppendCall(t, p) /\ Reached(stack, Depth) = p /\ IsAt(t)
  BY <1>1, <1>2
<1>5. stack' = [stack EXCEPT ![Depth] = c]
  <2>1. Depth \in DOMAIN stack
    BY <1>1 DEF IsAppending, IsChain
  <2>2. Grown(Top.buffer, Piece.data) = g
    BY <1>2 DEF Piece
  <2>. QED
    BY <1>1, <1>2, <1>3, <2>1, <2>2
<1>6. /\ DOMAIN c = AppendFields
      /\ c.message = t.message /\ c.field = t.field /\ c.index = t.index
      /\ c.pieces = Tail(t.pieces) /\ c.buffer = g /\ c.sz = t.sz + Len(x)
      /\ IsPieces(c.pieces) /\ x \in Seq(Cells)
      /\ Pending(t.pieces) = x \o rest /\ Pending(c.pieces) = rest
      /\ rest \in Seq(Cells)
  <2>1. c = Passed(t, g) /\ x = Head(t.pieces).data /\ rest = Pending(Tail(t.pieces))
    BY <1>2
  <2>2. /\ DOMAIN Passed(t, g) = AppendFields
        /\ Passed(t, g).message = t.message /\ Passed(t, g).field = t.field
        /\ Passed(t, g).index = t.index
        /\ Passed(t, g).pieces = Tail(t.pieces) /\ Passed(t, g).buffer = g
        /\ Passed(t, g).sz = t.sz + Len(Head(t.pieces).data)
        /\ IsPieces(Tail(t.pieces)) /\ Head(t.pieces).data \in Seq(Cells)
        /\ Pending(t.pieces) = Head(t.pieces).data \o Pending(Tail(t.pieces))
        /\ Pending(Tail(t.pieces)) \in Seq(Cells)
    BY <1>3, <1>4, PassedIs
  <2>. QED
    BY <2>1, <2>2
<1>7. /\ DOMAIN t.buffer = BufferFields
      /\ t.buffer.data \in Seq(Cells) /\ t.sz \in Nat
      /\ t.buffer.alloced \in Nat \ {0}
      /\ Len(t.buffer.data) <= t.sz
      /\ t.sz + Len(Pending(t.pieces)) = Counted[p]
  BY <1>4 DEF IsAppendCall
<1>8. PICK b : b = t.buffer
  OBVIOUS
<1>9. /\ DOMAIN g = BufferFields /\ g.data = b.data \o x
      /\ g.alloced \in Nat \ {0} /\ Len(b.data \o x) <= g.alloced
  <2>1. /\ DOMAIN b = BufferFields /\ b.data \in Seq(Cells) /\ b.alloced \in Nat \ {0}
        /\ x \in Seq(Cells) /\ g = Grown(b, x)
    BY <1>2, <1>6, <1>7, <1>8
  <2>. QED
    BY <2>1, GrownIs
<1>10. PICK data : data = b.data
  OBVIOUS
<1>11. /\ data \o x \in Seq(Cells) /\ Len(data \o x) = Len(data) + Len(x)
       /\ Len(data) \in Nat /\ Len(x) \in Nat /\ data \in Seq(Cells)
  BY <1>6, <1>7, <1>8, <1>10, CellsJoined
<1>12. Len(x \o rest) = Len(x) + Len(rest) /\ Len(rest) \in Nat
  BY <1>6, CellsJoined
<1>13. IsAppendCall(c, p)
  <2>1. c.sz \in Nat
    BY <1>6, <1>7, <1>11
  <2>2. Len(data \o x) <= c.sz
    <3>1. Len(data) <= t.sz
      BY <1>7, <1>8, <1>10
    <3>. QED
      BY <1>6, <1>7, <1>11, <3>1
  <2>3. c.sz + Len(rest) = Counted[p]
    <3>1. t.sz + (Len(x) + Len(rest)) = Counted[p]
      BY <1>6, <1>7, <1>12
    <3>2. c.sz = t.sz + Len(x)
      BY <1>6
    <3>3. c.sz + Len(rest) = t.sz + (Len(x) + Len(rest))
      BY <1>7, <1>11, <1>12, <3>2
    <3>. QED
      BY <3>1, <3>3
  <2>4. c.buffer.data = data \o x
    BY <1>6, <1>9, <1>10
  <2>. QED
    BY <1>6, <1>9, <1>10, <1>11, <2>1, <2>2, <2>3, <2>4 DEF IsAppendCall
<1>14. ASSUME IsWhole(t, p) PROVE IsWhole(c, p)
  <2>1. data \o (x \o rest) = Meant[p]
    BY <1>6, <1>8, <1>10, <1>14 DEF IsWhole
  <2>2. (data \o x) \o rest = data \o (x \o rest)
    BY <1>6, <1>11, CellsThree
  <2>3. c.buffer.data = data \o x
    BY <1>6, <1>9, <1>10
  <2>. QED
    BY <1>6, <2>1, <2>2, <2>3 DEF IsWhole
<1>15. ASSUME IsDamaged(t) PROVE IsDamaged(c)
  <2>1. c.buffer.data = data \o x /\ t.buffer.data = data
    BY <1>6, <1>8, <1>9, <1>10
  <2>2. CASE Len(data) < t.sz
    <3>1. Len(data \o x) < c.sz
      BY <1>6, <1>7, <1>11, <2>2
    <3>. QED
      BY <2>1, <3>1 DEF IsDamaged
  <2>3. ASSUME NEW j \in 1 .. Len(data), data[j] = Junk PROVE IsDamaged(c)
    <3>1. \E k \in 1 .. Len(data \o x) : (data \o x)[k] = Junk
      BY <1>6, <1>11, <2>3, JunkStays
    <3>. QED
      BY <2>1, <3>1 DEF IsDamaged
  <2>4. ASSUME NEW j \in 1 .. Len(x \o rest), (x \o rest)[j] = Junk PROVE IsDamaged(c)
    <3>0. data \in Seq(Cells) /\ x \in Seq(Cells) /\ rest \in Seq(Cells)
      BY <1>6, <1>11
    <3>1. \/ \E k \in 1 .. Len(data \o x) : (data \o x)[k] = Junk
          \/ \E k \in 1 .. Len(rest) : rest[k] = Junk
      BY <2>4, <3>0, DamageIsPassed
    <3>. QED
      BY <1>6, <2>1, <3>1 DEF IsDamaged
  <2>5. \/ Len(data) < t.sz
        \/ \E j \in 1 .. Len(data) : data[j] = Junk
        \/ \E j \in 1 .. Len(x \o rest) : (x \o rest)[j] = Junk
    BY <1>6, <1>15, <2>1 DEF IsDamaged
  <2>. QED
    BY <2>2, <2>3, <2>4, <2>5
<1>16. /\ c.message = Top.message /\ p = <<c.message, c.field, c.index>> /\ IsAt(c)
       /\ message' = message /\ failed' = failed
  <2>1. IsAt(c)
    BY <1>4, <1>6 DEF IsAt
  <2>. QED
    BY <1>2, <1>3, <1>6, <2>1
<1>17. /\ IsWhole(Top, Reached(stack, Depth)) => IsWhole(c, p)
       /\ IsDamaged(Top) => IsDamaged(c)
  BY <1>2, <1>4, <1>14, <1>15
<1>. QED
  BY <1>5, <1>13, <1>16, <1>17, AppendTopChanges

LEMMA LoseBytesAppends ==
  ASSUME IsAppending, LoseBytes
  PROVE  IsAppending'
<1>1. /\ Depth \in Nat \ {0} /\ IsAt(Top) /\ Top = stack[Depth]
      /\ Reached(stack, Depth) = <<Top.message, Top.field, Top.index>>
      /\ IsAppendCall(Top, <<Top.message, Top.field, Top.index>>)
  BY AppendTop
<1>2. PICK t, x, rest, g, c, p :
        /\ t = Top /\ x = Head(Top.pieces).data /\ rest = Pending(Tail(Top.pieces))
        /\ g = Top.buffer /\ c = Passed(Top, g)
        /\ p = <<Top.message, Top.field, Top.index>>
  OBVIOUS
<1>3. /\ t.pieces # <<>> /\ stack' = [stack EXCEPT ![Depth] = Passed(@, Top.buffer)]
      /\ ~ HasRoom(Top.buffer, Piece.data)
      /\ message' = message /\ failed' = TRUE
  BY <1>2 DEF LoseBytes
<1>4. IsAppendCall(t, p) /\ Reached(stack, Depth) = p /\ IsAt(t)
  BY <1>1, <1>2
<1>5. stack' = [stack EXCEPT ![Depth] = c]
  <2>1. Depth \in DOMAIN stack
    BY <1>1 DEF IsAppending, IsChain
  <2>. QED
    BY <1>1, <1>2, <1>3, <2>1
<1>6. /\ DOMAIN c = AppendFields
      /\ c.message = t.message /\ c.field = t.field /\ c.index = t.index
      /\ c.pieces = Tail(t.pieces) /\ c.buffer = g /\ c.sz = t.sz + Len(x)
      /\ IsPieces(c.pieces) /\ x \in Seq(Cells)
      /\ Pending(t.pieces) = x \o rest /\ Pending(c.pieces) = rest
      /\ rest \in Seq(Cells)
  <2>1. c = Passed(t, g) /\ x = Head(t.pieces).data /\ rest = Pending(Tail(t.pieces))
    BY <1>2
  <2>2. /\ DOMAIN Passed(t, g) = AppendFields
        /\ Passed(t, g).message = t.message /\ Passed(t, g).field = t.field
        /\ Passed(t, g).index = t.index
        /\ Passed(t, g).pieces = Tail(t.pieces) /\ Passed(t, g).buffer = g
        /\ Passed(t, g).sz = t.sz + Len(Head(t.pieces).data)
        /\ IsPieces(Tail(t.pieces)) /\ Head(t.pieces).data \in Seq(Cells)
        /\ Pending(t.pieces) = Head(t.pieces).data \o Pending(Tail(t.pieces))
        /\ Pending(Tail(t.pieces)) \in Seq(Cells)
    BY <1>3, <1>4, PassedIs
  <2>. QED
    BY <2>1, <2>2
<1>7. /\ DOMAIN g = BufferFields
      /\ g.data \in Seq(Cells) /\ t.sz \in Nat
      /\ g.alloced \in Nat \ {0} /\ Len(g.data) <= g.alloced
      /\ Len(g.data) <= t.sz
      /\ t.sz + Len(Pending(t.pieces)) = Counted[p]
  BY <1>2, <1>4 DEF IsAppendCall
<1>8. /\ Len(x \o rest) = Len(x) + Len(rest) /\ Len(rest) \in Nat /\ Len(x) \in Nat
      /\ Len(g.data) \in Nat
  BY <1>6, <1>7, CellsJoined
<1>9. Len(x) > 0
  <2>1. ~ (Len(g.data) + Len(x) <= g.alloced)
    BY <1>2, <1>3 DEF HasRoom, Piece
  <2>. QED
    BY <1>7, <1>8, <2>1
<1>10. c.sz \in Nat /\ Len(g.data) < c.sz
  <2>1. c.sz = t.sz + Len(x)
    BY <1>6
  <2>. QED
    BY <1>7, <1>8, <1>9, <2>1
<1>11. IsAppendCall(c, p)
  <2>1. c.sz + Len(rest) = Counted[p]
    <3>1. t.sz + (Len(x) + Len(rest)) = Counted[p]
      BY <1>6, <1>7, <1>8
    <3>2. c.sz = t.sz + Len(x)
      BY <1>6
    <3>3. c.sz + Len(rest) = t.sz + (Len(x) + Len(rest))
      BY <1>7, <1>8, <3>2
    <3>. QED
      BY <3>1, <3>3
  <2>2. Len(g.data) <= c.sz
    BY <1>8, <1>10
  <2>. QED
    BY <1>6, <1>7, <1>10, <2>1, <2>2 DEF IsAppendCall
<1>12. IsDamaged(c)
  BY <1>6, <1>10 DEF IsDamaged
<1>13. /\ c.message = Top.message /\ p = <<c.message, c.field, c.index>> /\ IsAt(c)
       /\ message' = message /\ failed'
  <2>1. IsAt(c)
    BY <1>4, <1>6 DEF IsAt
  <2>. QED
    BY <1>2, <1>3, <1>6, <2>1
<1>. QED
  BY <1>5, <1>11, <1>12, <1>13, AppendTopChanges

LEMMA NewAppendCall ==
  ASSUME NEW v \in Messages, NEW d, d = AppendCall(v), NEW p, p = <<v, 1, 0>>
  PROVE  /\ d.message = v /\ d.field = 1 /\ d.index = 0 /\ IsAt(d)
         /\ IsAppendCall(d, p) /\ IsWhole(d, p)
<1>1. /\ DOMAIN d = AppendFields /\ d.message = v /\ d.field = 1 /\ d.index = 0
      /\ d.pieces = <<>> /\ d.buffer = SimpleBuffer /\ d.sz = 0
  BY DEF AppendCall, AppendFields
<1>2. PICK b : b = SimpleBuffer
  OBVIOUS
<1>3. /\ DOMAIN b = BufferFields /\ b.data = <<>> /\ b.alloced \in Nat \ {0}
  BY <1>2, ScratchAssumption DEF SimpleBuffer, BufferFields
<1>4. Len(v[1]) \in Nat
  BY FieldsAre, MessageParts
<1>5. IsAt(d)
  BY <1>1, <1>4 DEF IsAt
<1>6. Counted[p] = 0 /\ Meant[p] = <<>>
  BY AtStart
<1>7. Pending(<<>>) = <<>> /\ Len(Pending(<<>>)) = 0 /\ IsPieces(<<>>)
  BY NonePending
<1>8. Pending(d.pieces) = <<>> /\ Len(Pending(d.pieces)) = 0 /\ IsPieces(d.pieces)
  BY <1>1, <1>7
<1>9. /\ d.buffer.data = <<>> /\ Len(d.buffer.data) = 0 /\ d.buffer.data \in Seq(Cells)
      /\ DOMAIN d.buffer = BufferFields /\ d.buffer.alloced \in Nat \ {0}
  BY <1>1, <1>2, <1>3, EmptySeq
<1>10. IsAppendCall(d, p)
  BY <1>1, <1>6, <1>8, <1>9 DEF IsAppendCall
<1>11. <<>> \o <<>> = <<>>
  BY EmptyJoined, EmptySeq
<1>12. IsWhole(d, p)
  BY <1>6, <1>8, <1>9, <1>11 DEF IsWhole
<1>. QED
  BY <1>1, <1>5, <1>10, <1>12

LEMMA AppendRequestAppends ==
  ASSUME IsAppending, AppendRequest
  PROVE  IsAppending'
<1>1. /\ Depth \in Nat \ {0} /\ IsAt(Top) /\ Top = stack[Depth]
      /\ Reached(stack, Depth) = <<Top.message, Top.field, Top.index>>
      /\ IsAppendCall(Top, <<Top.message, Top.field, Top.index>>)
  BY AppendTop
<1>2. PICK t : t = Top
  OBVIOUS
<1>3. PICK f, v, p, q :
        /\ f = t.field /\ p = <<t.message, f, t.index>>
        /\ v = t.message[f][t.index + 1]
        /\ q = <<t.message, f, t.index + 1>>
  OBVIOUS
<1>4. /\ t.pieces = <<>> /\ t.index < Len(t.message[t.field]) /\ Type(f) = "message"
      /\ stack' = Append([stack EXCEPT ![Depth] = Done(@)], AppendCall(v))
      /\ message' = message /\ failed' = failed
  BY <1>2, <1>3 DEF AppendRequest, HasValue, FieldValues, Value
<1>5. IsNext(t, f, v, p, q)
  BY <1>1, <1>2, <1>3, <1>4 DEF IsNext
<1>6. f \in Fields /\ v \in ValuesOf(f)
  BY <1>5, ValueHere
<1>7. f = 18 /\ v \in Messages
  BY <1>4, <1>6, TypesAre DEF ValuesOf
<1>8. IsAppendCall(t, p) /\ Reached(stack, Depth) = p /\ DOMAIN t = AppendFields /\ IsAt(t)
  BY <1>1, <1>2, <1>3 DEF IsAppendCall
<1>9. PICK c, d : c = Done(t) /\ d = AppendCall(v)
  OBVIOUS
<1>10. /\ DOMAIN c = AppendFields /\ c.index = t.index + 1
       /\ c.message = t.message /\ c.field = t.field
       /\ c.pieces = t.pieces /\ c.buffer = t.buffer /\ c.sz = t.sz
  BY <1>8, <1>9 DEF Done, AppendFields
<1>11. IsAt(c)
  BY <1>4, <1>8, <1>9, DoneIs DEF AppendFields
<1>12. stack' = Append([stack EXCEPT ![Depth] = c], d)
  <2>1. Depth \in DOMAIN stack
    BY <1>1 DEF IsAppending, IsChain
  <2>. QED
    BY <1>1, <1>2, <1>4, <1>9, <2>1
<1>13. PICK r : r = <<v, 1, 0>>
  OBVIOUS
<1>14. /\ d.message = v /\ d.field = 1 /\ d.index = 0 /\ IsAt(d)
       /\ IsAppendCall(d, r) /\ IsWhole(d, r)
  BY <1>7, <1>9, <1>13, NewAppendCall
<1>15. t.index \in Nat
  BY <1>8, AtParts
<1>16. Nests(c, d) /\ <<c.message, c.field, c.index - 1>> = p
  <2>1. PICK idx \in Nat : idx = t.index
    BY <1>15
  <2>2. c.index = idx + 1 /\ c.field = 18 /\ c.message = t.message
    BY <1>3, <1>7, <1>10, <2>1
  <2>3. d.message = t.message[18][idx + 1]
    BY <1>3, <1>7, <1>14, <2>1
  <2>4. c.index >= 1 /\ c.index - 1 = idx
    BY <2>2
  <2>5. p = <<t.message, 18, idx>>
    BY <1>3, <1>7, <2>1
  <2>. QED
    BY <2>2, <2>3, <2>4, <2>5 DEF Nests
<1>17. c.message = Top.message /\ IsChain
  BY <1>2, <1>10 DEF IsAppending
<1>18. /\ IsChain' /\ Depth' = Depth + 1
       /\ stack'[Depth] = c /\ stack'[Depth + 1] = d
       /\ \A k \in 1 .. Depth : k # Depth => stack'[k] = stack[k] /\ Reached(stack', k) = Reached(stack, k)
       /\ Reached(stack', Depth) = <<c.message, c.field, c.index - 1>>
       /\ Reached(stack', Depth + 1) = <<d.message, d.field, d.index>>
  BY <1>4, <1>11, <1>12, <1>14, <1>16, <1>17, ChainPushed
<1>19. Reached(stack', Depth) = p /\ Reached(stack', Depth + 1) = r
  BY <1>13, <1>14, <1>16, <1>18
<1>20. /\ IsAppendCall(c, p)
       /\ IsWhole(t, p) => IsWhole(c, p)
       /\ IsDamaged(t) => IsDamaged(c)
  BY <1>8, <1>10 DEF IsAppendCall, IsWhole, IsDamaged
<1>21. Depth \in 1 .. Depth /\ stack[Depth] = t
  BY <1>1, <1>2
<1>22. ASSUME NEW k \in 1 .. Depth + 1
       PROVE  /\ IsAppendCall(stack'[k], Reached(stack', k))
              /\ ~failed => IsWhole(stack'[k], Reached(stack', k))
  <2>1. CASE k = Depth + 1
    BY <1>14, <1>18, <1>19, <2>1
  <2>2. CASE k = Depth
    <3>1. ~failed => IsWhole(t, p)
      BY <1>8, <1>21 DEF IsAppending
    <3>2. IsAppendCall(c, p) /\ (~failed => IsWhole(c, p))
      BY <1>20, <3>1
    <3>. QED
      BY <1>18, <1>19, <2>2, <3>2
  <2>3. CASE k # Depth + 1 /\ k # Depth
    <3>1. k \in 1 .. Depth
      BY <1>1, <2>3
    <3>2. /\ IsAppendCall(stack[k], Reached(stack, k))
          /\ ~failed => IsWhole(stack[k], Reached(stack, k))
      BY <3>1 DEF IsAppending
    <3>3. stack'[k] = stack[k] /\ Reached(stack', k) = Reached(stack, k)
      BY <1>18, <2>3, <3>1
    <3>. QED
      BY <3>2, <3>3
  <2>. QED
    BY <2>1, <2>2, <2>3
<1>23. ASSUME NEW k \in 1 .. Depth PROVE stack'[k].pieces = <<>>
  <2>1. CASE k = Depth
    BY <1>4, <1>10, <1>18, <2>1
  <2>2. CASE k # Depth
    <3>1. k \in 1 .. Depth - 1
      BY <1>1, <2>2
    <3>. QED
      BY <1>18, <2>2, <3>1 DEF IsAppending
  <2>. QED
    BY <2>1, <2>2
<1>24. ASSUME failed PROVE \E k \in 1 .. Depth + 1 : IsDamaged(stack'[k])
  <2>1. PICK k \in 1 .. Depth : IsDamaged(stack[k])
    BY <1>24 DEF IsAppending
  <2>2. k \in 1 .. Depth + 1
    BY <1>1
  <2>3. CASE k = Depth
    BY <1>18, <1>20, <1>21, <2>1, <2>2, <2>3
  <2>4. CASE k # Depth
    BY <1>18, <2>1, <2>2, <2>4
  <2>. QED
    BY <2>3, <2>4
<1>25. Depth' - 1 = Depth /\ message' \in Messages
  BY <1>1, <1>4, <1>18 DEF IsAppending
<1>. QED
  BY <1>4, <1>18, <1>22, <1>23, <1>24, <1>25 DEF IsAppending

(* The bytes of a nested request: as many as were passed on, whether or not  *)
(* the buffer took them.                                                     *)
LEMMA NestedData ==
  ASSUME NEW num \in Nat, NEW s \in Seq(Cells), Len(s) <= num,
         NEW data, data = [k \in 1 .. num |-> IF k <= Len(s) THEN s[k] ELSE Junk]
  PROVE  /\ data \in Seq(Cells) /\ Len(data) = num
         /\ Len(s) = num => data = s
         /\ Len(s) < num => \E j \in 1 .. Len(data) : data[j] = Junk
         /\ (\E j \in 1 .. Len(s) : s[j] = Junk) => \E j \in 1 .. Len(data) : data[j] = Junk
<1>1. Junk \in Cells
  BY DEF Junk, Cells
<1>2. Len(s) \in Nat /\ \A k \in 1 .. Len(s) : s[k] \in Cells
  BY LenProperties, ElementOfSeq
<1>3. \A k \in 1 .. num : data[k] = IF k <= Len(s) THEN s[k] ELSE Junk
  OBVIOUS
<1>4. ASSUME NEW k \in 1 .. num PROVE data[k] \in Cells
  <2>1. CASE k <= Len(s)
    BY <1>2, <1>3, <2>1
  <2>2. CASE ~ (k <= Len(s))
    BY <1>1, <1>3, <2>2
  <2>. QED
    BY <2>1, <2>2
<1>5. data \in [1 .. num -> Cells]
  BY <1>4
<1>6. data \in Seq(Cells) /\ Len(data) = num
  BY <1>5, FunctionIsSeq
<1>7. ASSUME Len(s) = num PROVE data = s
  <2>1. Len(data) = Len(s) /\ \A k \in 1 .. Len(data) : data[k] = s[k]
    BY <1>3, <1>6, <1>7
  <2>. QED
    BY <1>6, <2>1, SameSeq
<1>8. ASSUME Len(s) < num PROVE \E j \in 1 .. Len(data) : data[j] = Junk
  <2>1. num \in 1 .. num /\ ~ (num <= Len(s))
    BY <1>2, <1>8
  <2>2. data[num] = Junk
    BY <1>3, <2>1
  <2>. QED
    BY <1>6, <2>1, <2>2
<1>9. ASSUME NEW j \in 1 .. Len(s), s[j] = Junk PROVE \E idx \in 1 .. Len(data) : data[idx] = Junk
  <2>1. j \in 1 .. num /\ j <= Len(s)
    BY <1>2
  <2>2. data[j] = Junk
    BY <1>3, <1>9, <2>1
  <2>. QED
    BY <1>6, <2>1, <2>2
<1>. QED
  BY <1>6, <1>7, <1>8, <1>9

LEMMA JunkBehind ==
  ASSUME NEW x \in Seq(Cells), NEW data \in Seq(Cells),
         \E j \in 1 .. Len(data) : data[j] = Junk
  PROVE  \E j \in 1 .. Len(x \o data) : (x \o data)[j] = Junk
<1>1. PICK xd : xd = x \o data
  OBVIOUS
<1>2. /\ Len(xd) = Len(x) + Len(data) /\ Len(x) \in Nat /\ Len(data) \in Nat
      /\ \A k \in 1 .. Len(data) : xd[k + Len(x)] = data[k]
  BY <1>1, Joined
<1>3. PICK j \in 1 .. Len(data) : data[j] = Junk
  OBVIOUS
<1>4. j + Len(x) \in 1 .. Len(xd) /\ xd[j + Len(x)] = Junk
  BY <1>2, <1>3
<1>. QED
  BY <1>1, <1>4

LEMMA AppendPopped ==
  ASSUME IsChain, Depth > 1, NEW pieces,
         stack' = [Front(stack) EXCEPT ![Depth - 1].pieces = pieces],
         NEW c, c = [stack[Depth - 1] EXCEPT !.pieces = pieces]
  PROVE  stack' = [Front(stack) EXCEPT ![Depth - 1] = c]
<1>1. Depth \in Nat /\ stack = [k \in 1 .. Depth |-> stack[k]]
  BY DEF IsChain
<1>2. PICK S : stack \in Seq(S) /\ c \in S
  BY <1>1, StackIsSeq
<1>3. PICK below \in Nat : below = Depth - 1
  BY <1>1
<1>4. PICK front : front = Front(stack)
  OBVIOUS
<1>5. front \in [1 .. below -> S] /\ \A k \in 1 .. below : front[k] = stack[k]
  BY <1>2, <1>3, <1>4, FrontOf DEF Depth
<1>6. below \in DOMAIN front /\ front[below] = stack[below]
  <2>1. below \in 1 .. below
    BY <1>1, <1>3
  <2>2. DOMAIN front = 1 .. below
    BY <1>5
  <2>. QED
    BY <1>5, <2>1, <2>2
<1>7. [front EXCEPT ![below].pieces = pieces] = [front EXCEPT ![below] = c]
  BY <1>3, <1>6
<1>. QED
  BY <1>3, <1>4, <1>7

LEMMA AppendLengthAppends ==
  ASSUME IsAppending, AppendLength
  PROVE  IsAppending'
<1>1. /\ Depth \in Nat \ {0} /\ IsAt(Top) /\ Top = stack[Depth]
      /\ Reached(stack, Depth) = <<Top.message, Top.field, Top.index>>
      /\ IsAppendCall(Top, <<Top.message, Top.field, Top.index>>)
  BY AppendTop
<1>2. PICK t : t = Top
  OBVIOUS
<1>3. PICK data, A, B, pieces :
        /\ data = [k \in 1 .. t.sz |-> IF k <= Len(t.buffer.data) THEN t.buffer.data[k] ELSE Junk]
        /\ A = Bytes(Tag(18) \o uint32_pack(Word(t.sz)))
        /\ B = [data |-> data, block |-> Block(Depth, t.buffer)]
        /\ pieces = <<A, B>>
  OBVIOUS
<1>4. /\ Depth > 1 /\ ~ (t.index < Len(t.message[t.field])) /\ t.field = 23
      /\ t.pieces = <<>>
      /\ stack' = [Front(stack) EXCEPT ![Depth - 1].pieces = pieces]
      /\ message' = message /\ failed' = failed
  BY <1>2, <1>3 DEF AppendLength, Returns, HasValue, FieldValues
<1>5. PICK b : b = stack[Depth - 1]
  OBVIOUS
<1>6. PICK c : c = [b EXCEPT !.pieces = pieces]
  OBVIOUS
<1>7. IsChain
  BY DEF IsAppending
<1>8. stack' = [Front(stack) EXCEPT ![Depth - 1] = c]
  BY <1>4, <1>5, <1>6, <1>7, AppendPopped
<1>9. PICK below \in Nat : below = Depth - 1
  BY <1>1
<1>10. /\ below \in 1 .. Depth /\ below \in 1 .. Depth - 1 /\ b = stack[below]
       /\ Depth \in 1 .. Depth
  BY <1>1, <1>4, <1>5, <1>9
<1>11. Reached(stack, below) = <<b.message, b.field, b.index - 1>>
  <2>1. below # Depth
    BY <1>1, <1>9
  <2>. QED
    BY <1>10, <2>1 DEF Reached, Depth
<1>12. PICK p, q : p = <<b.message, b.field, b.index - 1>> /\ q = <<b.message, b.field, b.index>>
  OBVIOUS
<1>13. IsAppendCall(b, p) /\ b.pieces = <<>>
  BY <1>10, <1>11, <1>12 DEF IsAppending
<1>14. /\ c.message = b.message /\ c.field = b.field /\ c.index = b.index
       /\ c.pieces = pieces /\ c.buffer = b.buffer /\ c.sz = b.sz /\ DOMAIN c = AppendFields
  BY <1>6, <1>13 DEF IsAppendCall, AppendFields
<1>15. /\ IsChain' /\ Depth' = Depth - 1 /\ stack'[Depth - 1] = c
       /\ \A k \in 1 .. Depth - 1 : k # Depth - 1 => stack'[k] = stack[k] /\ Reached(stack', k) = Reached(stack, k)
       /\ Reached(stack', Depth - 1) = <<c.message, c.field, c.index>>
       /\ Nests(stack[Depth - 1], Top) /\ IsAt(stack[Depth - 1])
  BY <1>4, <1>5, <1>7, <1>8, <1>14, ChainPopped
<1>16. stack'[below] = c /\ Reached(stack', below) = q /\ Nests(b, t) /\ IsAt(b)
  BY <1>2, <1>5, <1>9, <1>12, <1>14, <1>15
<1>17. PICK v : v = t.message
  OBVIOUS
<1>18. /\ v \in Messages /\ Counted[p] \in Nat
       /\ Extends(q, p, 18, v)
       /\ Counted[q] = Counted[p] + (TagSize(18) + Len(Written(18, v)))
  BY <1>12, <1>16, <1>17, NestedWritten
<1>19. <<t.message, t.field, t.index>> = All(v) /\ IsAppendCall(t, All(v))
  <2>1. IsAt(t)
    BY <1>1, <1>2
  <2>2. <<t.message, t.field, t.index>> = All(t.message)
    BY <1>4, <2>1, ReturnsAtEnd
  <2>. QED
    BY <1>1, <1>2, <1>17, <2>2
<1>20. PICK s, num : s = t.buffer.data /\ num = t.sz
  OBVIOUS
<1>21. s \in Seq(Cells) /\ num \in Nat /\ Len(s) <= num /\ Counted[All(v)] = num /\ Len(s) \in Nat
  <2>1. PICK l : l = Len(Pending(t.pieces))
    OBVIOUS
  <2>2. l = 0
    BY <1>4, <2>1, NonePending
  <2>3. /\ t.buffer.data \in Seq(Cells) /\ t.sz \in Nat /\ Len(t.buffer.data) <= t.sz
        /\ t.sz + l = Counted[All(v)]
    BY <1>19, <2>1 DEF IsAppendCall
  <2>4. Counted[All(v)] = num
    BY <1>20, <2>2, <2>3
  <2>. QED
    BY <1>20, <2>3, <2>4, LenProperties
<1>22. /\ data \in Seq(Cells) /\ Len(data) = num
       /\ Len(s) = num => data = s
       /\ Len(s) < num => \E j \in 1 .. Len(data) : data[j] = Junk
       /\ (\E j \in 1 .. Len(s) : s[j] = Junk) => \E j \in 1 .. Len(data) : data[j] = Junk
  <2>1. data = [k \in 1 .. num |-> IF k <= Len(s) THEN s[k] ELSE Junk]
    BY <1>3, <1>20
  <2>2. s \in Seq(Cells) /\ num \in Nat /\ Len(s) <= num
    BY <1>21
  <2>. QED
    BY <2>1, <2>2, NestedData
<1>23. PICK L, N, T : L = uint32_pack(Word(num)) /\ N = Meant[All(v)] /\ T = Tag(18)
  OBVIOUS
<1>24. /\ Written(18, v) = L \o N /\ Len(Written(18, v)) = uint32_size(Word(num)) + num
       /\ L \in Seq(Bytes8) /\ N \in Seq(Bytes8) /\ T \in Seq(Bytes8)
       /\ Len(L) = uint32_size(Word(num)) /\ Len(T) = TagSize(18) /\ Len(N) = num
  <2>1. /\ Written(18, v) = uint32_pack(Word(Counted[All(v)])) \o Meant[All(v)]
        /\ Len(Written(18, v)) = uint32_size(Word(Counted[All(v)])) + Counted[All(v)]
        /\ uint32_pack(Word(Counted[All(v)])) \in Seq(Bytes8)
        /\ Meant[All(v)] \in Seq(Bytes8) /\ Len(Meant[All(v)]) = Counted[All(v)]
    BY <1>18, RequestWritten
  <2>2. Len(uint32_pack(Word(num))) = uint32_size(Word(num))
    BY <1>21, LengthPack
  <2>3. Tag(18) \in Seq(Bytes8) /\ Len(Tag(18)) = TagSize(18)
    BY FieldsAre, TagIs
  <2>. QED
    BY <1>21, <1>23, <2>1, <2>2, <2>3
<1>25. PICK x : x = T \o L
  OBVIOUS
<1>26. x \in Seq(Bytes8) /\ Len(x) = Len(T) + Len(L) /\ Len(T) \in Nat /\ Len(L) \in Nat
       /\ x \in Seq(Cells)
  BY <1>24, <1>25, BytesJoined, BytesAreCells
<1>27. A.data = x /\ B.data = data
  BY <1>3, <1>20, <1>23, <1>25 DEF Bytes
<1>28. IsPieces(pieces) /\ Pending(pieces) = x \o data
  <2>1. IsPiece(A) /\ IsPiece(B)
    BY <1>22, <1>26, <1>27 DEF IsPiece
  <2>2. pieces = <<A, B>>
    BY <1>3
  <2>3. Pending(pieces) = A.data \o B.data
    BY <2>2, PendingTwo
  <2>4. IsPieces(pieces)
    BY <2>1, <2>2 DEF IsPieces
  <2>. QED
    BY <1>27, <2>3, <2>4
<1>29. Len(x \o data) = Len(x) + num
  BY <1>22, <1>26, CellsJoined
<1>30. IsAppendCall(c, q)
  <2>1. PICK l : l = Len(Pending(b.pieces))
    OBVIOUS
  <2>2. l = 0
    BY <1>13, <2>1, NonePending
  <2>3. b.sz \in Nat /\ b.sz + l = Counted[p]
    BY <1>13, <2>1 DEF IsAppendCall
  <2>4. b.sz = Counted[p]
    BY <2>2, <2>3
  <2>5. Len(x \o data) = (Len(T) + Len(L)) + num
    BY <1>26, <1>29
  <2>6. Counted[q] = b.sz + (Len(T) + (Len(L) + num))
    BY <1>18, <1>24, <2>4
  <2>7. b.sz + Len(x \o data) = Counted[q]
    BY <1>21, <1>26, <2>3, <2>5, <2>6
  <2>8. c.sz + Len(Pending(c.pieces)) = Counted[q]
    BY <1>14, <1>28, <2>7
  <2>9. IsPieces(c.pieces)
    BY <1>14, <1>28
  <2>. QED
    BY <1>13, <1>14, <2>8, <2>9 DEF IsAppendCall
<1>31. ASSUME ~failed PROVE IsWhole(c, q)
  <2>1. IsWhole(b, p) /\ IsWhole(t, All(v))
    BY <1>1, <1>2, <1>10, <1>11, <1>12, <1>19, <1>31 DEF IsAppending
  <2>2. b.buffer.data \in Seq(Cells)
    BY <1>13 DEF IsAppendCall
  <2>3. b.buffer.data = Meant[p]
    <3>1. b.buffer.data \o <<>> = Meant[p]
      BY <1>13, <2>1, NonePending DEF IsWhole
    <3>. QED
      BY <2>2, <3>1, ConcatEmptySeq
  <2>4. s = N
    <3>1. s \o <<>> = N
      BY <1>4, <1>20, <1>23, <2>1, NonePending DEF IsWhole
    <3>. QED
      BY <1>21, <3>1, ConcatEmptySeq
  <2>5. data = N
    BY <1>22, <1>24, <2>4
  <2>6. (T \o L) \o N = T \o (L \o N)
    <3>1. T \in Seq(Bytes8) /\ L \in Seq(Bytes8) /\ N \in Seq(Bytes8)
      BY <1>24
    <3>. QED
      BY <3>1, JoinedThree
  <2>7. x \o data = Tag(18) \o Written(18, v)
    BY <1>23, <1>24, <1>25, <2>5, <2>6
  <2>8. Meant[q] = Meant[p] \o (Tag(18) \o Written(18, v))
    BY <1>18 DEF Extends
  <2>. QED
    BY <1>14, <1>28, <2>3, <2>7, <2>8 DEF IsWhole
<1>32. IsDamaged(b) => IsDamaged(c)
  <2>1. ~ \E j \in 1 .. Len(Pending(b.pieces)) : Pending(b.pieces)[j] = Junk
    BY <1>13, NonePending
  <2>. QED
    BY <1>14, <2>1 DEF IsDamaged
<1>33. ASSUME IsDamaged(t) PROVE IsDamaged(c)
  <2>1. ~ \E j \in 1 .. Len(Pending(t.pieces)) : Pending(t.pieces)[j] = Junk
    BY <1>4, NonePending
  <2>2. Len(s) < num \/ \E j \in 1 .. Len(s) : s[j] = Junk
    BY <1>20, <1>33, <2>1 DEF IsDamaged
  <2>3. \E j \in 1 .. Len(data) : data[j] = Junk
    BY <1>22, <2>2
  <2>4. \E j \in 1 .. Len(x \o data) : (x \o data)[j] = Junk
    BY <1>22, <1>26, <2>3, JunkBehind
  <2>5. Pending(c.pieces) = x \o data
    BY <1>14, <1>28
  <2>. QED
    BY <2>4, <2>5 DEF IsDamaged
<1>34. ASSUME NEW k \in 1 .. below
       PROVE  /\ IsAppendCall(stack'[k], Reached(stack', k))
              /\ ~failed => IsWhole(stack'[k], Reached(stack', k))
  <2>1. CASE k = below
    BY <1>16, <1>30, <1>31, <2>1
  <2>2. CASE k # below
    <3>1. k \in 1 .. Depth /\ k \in 1 .. Depth - 1 /\ k # Depth - 1
      BY <1>1, <1>9, <2>2
    <3>2. /\ IsAppendCall(stack[k], Reached(stack, k))
          /\ ~failed => IsWhole(stack[k], Reached(stack, k))
      BY <3>1 DEF IsAppending
    <3>3. stack'[k] = stack[k] /\ Reached(stack', k) = Reached(stack, k)
      BY <1>15, <3>1
    <3>. QED
      BY <3>2, <3>3
  <2>. QED
    BY <2>1, <2>2
<1>35. ASSUME NEW k \in 1 .. below - 1 PROVE stack'[k].pieces = <<>>
  <2>1. k \in 1 .. Depth - 1 /\ k # Depth - 1
    BY <1>9
  <2>. QED
    BY <1>15, <2>1 DEF IsAppending
<1>36. ASSUME failed PROVE \E k \in 1 .. below : IsDamaged(stack'[k])
  <2>1. PICK k \in 1 .. Depth : IsDamaged(stack[k])
    BY <1>36 DEF IsAppending
  <2>2. CASE k = Depth
    <3>1. below \in 1 .. below
      BY <1>9, <1>10
    <3>. QED
      BY <1>1, <1>2, <1>16, <1>33, <2>1, <2>2, <3>1
  <2>3. CASE k = below
    <3>1. below \in 1 .. below
      BY <1>9, <1>10
    <3>. QED
      BY <1>10, <1>16, <1>32, <2>1, <2>3, <3>1
  <2>4. CASE k # Depth /\ k # below
    <3>1. k \in 1 .. below /\ k \in 1 .. Depth - 1 /\ k # Depth - 1
      BY <1>1, <1>9, <2>4
    <3>. QED
      BY <1>15, <2>1, <3>1
  <2>. QED
    BY <2>2, <2>3, <2>4
<1>37. Depth' = below /\ message' \in Messages
  BY <1>4, <1>9, <1>15 DEF IsAppending
<1>. QED
  BY <1>4, <1>15, <1>34, <1>35, <1>36, <1>37 DEF IsAppending
-----------------------------------------------------------------------------
(* Both ways, step by step. *)

LEMMA StartChain ==
  ASSUME NEW m \in Messages, NEW c, c.message = m, IsAt(c), stack' = <<c>>, message' = m
  PROVE  /\ IsChain' /\ Depth' = 1 /\ stack'[1] = c /\ message' \in Messages
         /\ Reached(stack', 1) = <<c.message, c.field, c.index>>
<1>1. stack' = [k \in 1 .. 1 |-> c] /\ Len(stack') = 1 /\ stack'[1] = c
  OBVIOUS
<1>2. Depth' = 1
  BY <1>1 DEF Depth
<1>3. stack' = [k \in 1 .. Depth' |-> stack'[k]]
  BY <1>1, <1>2
<1>4. \A k \in 1 .. Depth' : IsAt(stack'[k])
  BY <1>1, <1>2
<1>5. \A k \in 1 .. Depth' - 1 : Nests(stack'[k], stack'[k + 1])
  BY <1>2
<1>6. stack'[1].message = message' /\ Depth' \in Nat \ {0}
  BY <1>1, <1>2
<1>7. IsChain'
  BY <1>3, <1>4, <1>5, <1>6 DEF IsChain
<1>8. Reached(stack', 1) = <<c.message, c.field, c.index>>
  BY <1>1 DEF Reached
<1>. QED
  BY <1>1, <1>2, <1>7, <1>8

LEMMA StartPacks ==
  ASSUME NEW m \in Messages, Start(m), how' = "pack", out = <<>>
  PROVE  IsPacking'
<1>1. PICK c : c = PackCall(m, 0)
  OBVIOUS
<1>2. /\ DOMAIN c = PackFields /\ c.message = m /\ c.field = 1 /\ c.index = 0
      /\ c.varint_length_p = 0 /\ IsAt(c)
      /\ Meant[<<c.message, c.field, c.index>>] = <<>>
  <2>1. PICK at : at = 0
    OBVIOUS
  <2>2. c = PackCall(m, at)
    BY <1>1, <2>1
  <2>. QED
    BY <2>1, <2>2, NewPackCall
<1>3. stack' = <<c>> /\ message' = m /\ out' = <<>>
  BY <1>1 DEF Start
<1>4. /\ IsChain' /\ Depth' = 1 /\ stack'[1] = c /\ message' \in Messages
      /\ Reached(stack', 1) = <<c.message, c.field, c.index>>
  BY <1>2, <1>3, StartChain
<1>5. PICK o : o = out'
  OBVIOUS
<1>6. o \in Seq(Bytes8) /\ Len(o) = 0 /\ o \o <<>> = o
  BY <1>3, <1>5, EmptySeq, EmptyJoined
<1>7. FrontOfCall(o, c) = o
  BY <1>2, <1>6, WholePart DEF FrontOfCall
<1>8. Counted[All(m)] \in Nat
  BY WholeAgrees
<1>9. IsPackCall(o, m, c)
  BY <1>2, <1>6, <1>8 DEF IsPackCall
<1>10. \A k \in 1 .. Depth' : IsPackCall(out', message', stack'[k])
  BY <1>3, <1>4, <1>5, <1>9
<1>11. \A j, k \in 1 .. Depth' : j < k => stack'[j].varint_length_p < stack'[k].varint_length_p
  BY <1>4
<1>12. \A k \in 1 .. Depth' - 1 : Follows(out', stack'[k], stack'[k + 1], Reached(stack', k))
  BY <1>4
<1>13. out' = FrontOfCall(out', stack'[Depth']) \o Meant[Reached(stack', Depth')]
  BY <1>2, <1>4, <1>5, <1>6, <1>7
<1>14. stack'[1].varint_length_p = 0 /\ out' \in Seq(Bytes8)
  BY <1>2, <1>4, <1>5, <1>6
<1>. QED
  BY <1>4, <1>10, <1>11, <1>12, <1>13, <1>14 DEF IsPacking

LEMMA StartAppends ==
  ASSUME NEW m \in Messages, Start(m), how' = "append", ~failed
  PROVE  IsAppending' /\ out' = out
<1>1. PICK c : c = AppendCall(m)
  OBVIOUS
<1>2. PICK p : p = <<m, 1, 0>>
  OBVIOUS
<1>3. /\ c.message = m /\ c.field = 1 /\ c.index = 0 /\ IsAt(c)
      /\ IsAppendCall(c, p) /\ IsWhole(c, p)
  BY <1>1, <1>2, NewAppendCall
<1>4. stack' = <<c>> /\ message' = m /\ out' = out /\ failed' = failed
  BY <1>1 DEF Start
<1>5. /\ IsChain' /\ Depth' = 1 /\ stack'[1] = c /\ message' \in Messages
      /\ Reached(stack', 1) = <<c.message, c.field, c.index>>
  BY <1>3, <1>4, StartChain
<1>6. Reached(stack', 1) = p
  BY <1>2, <1>3, <1>5
<1>7. /\ \A k \in 1 .. Depth' : IsAppendCall(stack'[k], Reached(stack', k))
      /\ \A k \in 1 .. Depth' : IsWhole(stack'[k], Reached(stack', k))
  BY <1>3, <1>5, <1>6
<1>8. \A k \in 1 .. Depth' - 1 : stack'[k].pieces = <<>>
  BY <1>5
<1>. QED
  BY <1>4, <1>5, <1>7, <1>8 DEF IsAppending

(***************************************************************************)
(* What the calls have written, and what they have still to pass on, is    *)
(* what the descriptor says of the values they have come to.               *)
(***************************************************************************)
WriteInv ==
  /\ how \in {"idle", "pack", "append", "read"}
  /\ how = "idle" => stack = <<>> /\ out = <<>> /\ ~failed
  /\ how = "pack" => IsPacking
  /\ how = "append" => IsAppending /\ out = <<>>

LEMMA WriteInit == CodecInit => WriteInv
BY DEF CodecInit, WriteInv

LEMMA WriteKept ==
  ASSUME WriteInv, UNCHANGED codec_vars
  PROVE  WriteInv'
<1>1. /\ how' = how /\ message' = message /\ stack' = stack /\ out' = out /\ failed' = failed
  BY DEF codec_vars
<1>2. IsChain' = IsChain
  BY <1>1 DEF IsChain, Depth
<1>3. IsPacking' = IsPacking
  BY <1>1, <1>2 DEF IsPacking, Depth
<1>4. IsAppending' = IsAppending
  BY <1>1, <1>2 DEF IsAppending, Depth
<1>. QED
  BY <1>1, <1>3, <1>4 DEF WriteInv

LEMMA WriteStep == WriteInv /\ [CodecNext]_codec_vars => WriteInv'
<1>. SUFFICES ASSUME WriteInv, [CodecNext]_codec_vars PROVE WriteInv'
  OBVIOUS
<1>1. ASSUME NEW m \in Messages, Start(m) PROVE WriteInv'
  <2>1. how = "idle" /\ how' \in {"pack", "append"}
    BY <1>1 DEF Start
  <2>2. out = <<>> /\ ~failed
    BY <2>1 DEF WriteInv
  <2>3. CASE how' = "pack"
    BY <1>1, <2>2, <2>3, StartPacks DEF WriteInv
  <2>4. CASE how' = "append"
    BY <1>1, <2>2, <2>4, StartAppends DEF WriteInv
  <2>. QED
    BY <2>1, <2>3, <2>4
<1>2. CASE NextField
  <2>1. how \in {"pack", "append"} /\ how' = how /\ out' = out
    BY <1>2 DEF NextField
  <2>2. CASE how = "pack"
    BY <1>2, <2>1, <2>2, NextFieldPacks DEF WriteInv
  <2>3. CASE how = "append"
    BY <1>2, <2>1, <2>3, NextFieldAppends DEF WriteInv
  <2>. QED
    BY <2>1, <2>2, <2>3
<1>3. CASE PackValue
  <2>1. how = "pack" /\ how' = how
    BY <1>3 DEF PackValue
  <2>. QED
    BY <1>3, <2>1, PackValuePacks DEF WriteInv
<1>4. CASE PackRequest
  <2>1. how = "pack" /\ how' = how
    BY <1>4 DEF PackRequest
  <2>. QED
    BY <1>4, <2>1, PackRequestPacks DEF WriteInv
<1>5. CASE PackLength
  <2>1. how = "pack" /\ how' = how
    BY <1>5 DEF PackLength
  <2>. QED
    BY <1>5, <2>1, PackLengthPacks DEF WriteInv
<1>6. CASE PackReturns
  BY <1>6 DEF PackReturns, WriteInv
<1>7. CASE AppendValue
  <2>1. how = "append" /\ how' = how /\ out' = out
    BY <1>7 DEF AppendValue
  <2>. QED
    BY <1>7, <2>1, AppendValueAppends DEF WriteInv
<1>8. CASE AppendBytes
  <2>1. how = "append" /\ how' = how /\ out' = out
    BY <1>8 DEF AppendBytes
  <2>. QED
    BY <1>8, <2>1, AppendBytesAppends DEF WriteInv
<1>9. CASE LoseBytes
  <2>1. how = "append" /\ how' = how /\ out' = out
    BY <1>9 DEF LoseBytes
  <2>. QED
    BY <1>9, <2>1, LoseBytesAppends DEF WriteInv
<1>10. CASE AppendRequest
  <2>1. how = "append" /\ how' = how /\ out' = out
    BY <1>10 DEF AppendRequest
  <2>. QED
    BY <1>10, <2>1, AppendRequestAppends DEF WriteInv
<1>11. CASE AppendLength
  <2>1. how = "append" /\ how' = how /\ out' = out
    BY <1>11 DEF AppendLength
  <2>. QED
    BY <1>11, <2>1, AppendLengthAppends DEF WriteInv
<1>12. CASE AppendReturns
  BY <1>12 DEF AppendReturns, EndCall, WriteInv
<1>13. ASSUME NEW f \in Fields, ReadField(f) \/ ReadRequest(f) PROVE WriteInv'
  BY <1>13 DEF ReadField, ReadRequest, WriteInv
<1>14. CASE ReadNested
  BY <1>14 DEF ReadNested, HasRead, WriteInv
<1>15. CASE ReadReturns
  BY <1>15 DEF ReadReturns, EndCall, WriteInv
<1>16. CASE UNCHANGED codec_vars
  BY <1>16, WriteKept
<1>. QED
  BY <1>1, <1>2, <1>3, <1>4, <1>5, <1>6, <1>7, <1>8, <1>9, <1>10, <1>11, <1>12,
     <1>13, <1>14, <1>15, <1>16 DEF CodecNext

LEMMA PackedSize ==
  ASSUME IsPacking
  PROVE  Len(out) <= get_packed_size(message)
<1>1. /\ IsAt(Top) /\ IsPackCall(out, message, Top)
      /\ FrontOfCall(out, Top) \in Seq(Bytes8)
      /\ Len(FrontOfCall(out, Top)) = Top.varint_length_p /\ Top.varint_length_p \in Nat
      /\ out = FrontOfCall(out, Top) \o Meant[<<Top.message, Top.field, Top.index>>]
  BY PackTop
<1>2. PICK t, p : t = Top /\ p = <<t.message, t.field, t.index>>
  OBVIOUS
<1>3. IsAt(t) /\ p = <<t.message, t.field, t.index>>
  BY <1>1, <1>2
<1>4. /\ Counted[p] \in Nat /\ Meant[p] \in Seq(Bytes8) /\ Len(Meant[p]) = Counted[p]
      /\ Counted[p] <= Counted[All(t.message)] /\ Counted[All(t.message)] \in Nat
  BY <1>3, ReachedType
<1>5. PICK a, b : a = FrontOfCall(out, Top) /\ b = Meant[p]
  OBVIOUS
<1>6. a \in Seq(Bytes8) /\ b \in Seq(Bytes8)
  BY <1>1, <1>4, <1>5
<1>7. Len(a \o b) = Len(a) + Len(b) /\ out = a \o b
  BY <1>1, <1>2, <1>5, <1>6, BytesJoined
<1>8. Counted[All(message)] \in Nat
  BY WholeAgrees DEF IsPacking
<1>9. t.varint_length_p + Counted[All(t.message)] <= Counted[All(message)]
  BY <1>1, <1>2 DEF IsPackCall
<1>10. PICK o, at, num, w, all : o = Len(out) /\ at = t.varint_length_p /\ num = Counted[p]
         /\ w = Counted[All(t.message)] /\ all = Counted[All(message)]
  OBVIOUS
<1>11. o = at + num /\ num \in Nat /\ num <= w /\ w \in Nat /\ at + w <= all /\ all \in Nat /\ at \in Nat
  BY <1>1, <1>2, <1>4, <1>5, <1>7, <1>8, <1>9, <1>10
<1>12. o <= all
  BY <1>11
<1>. QED
  BY <1>10, <1>12 DEF get_packed_size

LEMMA FirstIsWritten ==
  ASSUME IsChain, Depth = 1, Returns
  PROVE  /\ Top = stack[1] /\ Top.message = message /\ Depth \in 1 .. Depth
         /\ <<Top.message, Top.field, Top.index>> = All(message)
<1>1. Top = stack[1] /\ Top.message = message /\ IsAt(Top)
  BY TopParts DEF IsChain
<1>2. ~ (Top.index < Len(Top.message[Top.field])) /\ Top.field = 23
  BY DEF Returns, HasValue, FieldValues
<1>3. PICK t : t = Top
  OBVIOUS
<1>4. <<t.message, t.field, t.index>> = All(t.message)
  BY <1>1, <1>2, <1>3, ReturnsAtEnd
<1>. QED
  BY <1>1, <1>3, <1>4

LEMMA PackWrites ==
  ASSUME IsPacking, Depth = 1, Returns
  PROVE  message \in Messages /\ out = Encoding(message) /\ Len(out) = get_packed_size(message)
<1>1. IsChain /\ message \in Messages /\ stack[1].varint_length_p = 0
  BY DEF IsPacking
<1>2. Top = stack[1] /\ <<Top.message, Top.field, Top.index>> = All(message)
  BY <1>1, FirstIsWritten
<1>3. /\ FrontOfCall(out, Top) \in Seq(Bytes8)
      /\ Len(FrontOfCall(out, Top)) = Top.varint_length_p
      /\ out = FrontOfCall(out, Top) \o Meant[<<Top.message, Top.field, Top.index>>]
  BY PackTop
<1>4. FrontOfCall(out, Top) = <<>>
  BY <1>1, <1>2, <1>3, EmptySeq
<1>5. PICK M : M = Meant[All(message)]
  OBVIOUS
<1>6. M \in Seq(Bytes8) /\ Len(M) = Counted[All(message)]
  BY <1>1, <1>5, WholeAgrees
<1>7. <<>> \o M = M
  BY <1>6, EmptyJoined
<1>8. out = M
  BY <1>2, <1>3, <1>4, <1>5, <1>7
<1>. QED
  BY <1>1, <1>5, <1>6, <1>8 DEF Encoding, get_packed_size

(* No byte of what the descriptor means is what nobody wrote. *)
LEMMA NoJunk ==
  ASSUME NEW s \in Seq(Bytes8), NEW j \in 1 .. Len(s)
  PROVE  s[j] # Junk
<1>1. s[j] \in Bytes8
  BY SeqParts
<1>2. 8 \notin s[j]
  BY <1>1 DEF Bytes8
<1>. QED
  BY <1>2 DEF Junk

LEMMA AppendWrites ==
  ASSUME IsAppending, how = "append", Depth = 1, Returns
  PROVE  /\ Top.sz = get_packed_size(message)
         /\ Len(Top.buffer.data) <= Top.sz
         /\ ~failed <=> Top.buffer.data = Encoding(message)
<1>1. IsChain /\ message \in Messages
  BY DEF IsAppending
<1>2. Top = stack[1] /\ <<Top.message, Top.field, Top.index>> = All(message)
  BY <1>1, FirstIsWritten
<1>3. IsAppendCall(Top, All(message)) /\ Reached(stack, Depth) = All(message)
  BY <1>2, AppendTop
<1>4. Top.pieces = <<>>
  BY DEF Returns
<1>5. PICK t, M, num : t = Top /\ M = Meant[All(message)] /\ num = Counted[All(message)]
  OBVIOUS
<1>6. Pending(t.pieces) = <<>> /\ Len(Pending(t.pieces)) = 0
  BY <1>4, <1>5, NonePending
<1>7. /\ t.buffer.data \in Seq(Cells) /\ t.sz \in Nat /\ Len(t.buffer.data) <= t.sz
      /\ t.sz + Len(Pending(t.pieces)) = num
  BY <1>3, <1>5 DEF IsAppendCall
<1>8. t.sz = num
  BY <1>6, <1>7
<1>9. M \in Seq(Bytes8) /\ Len(M) = num
  BY <1>1, <1>5, WholeAgrees
<1>10. ASSUME ~failed PROVE t.buffer.data = M
  <2>1. IsWhole(stack[Depth], Reached(stack, Depth))
    BY <1>2, <1>10, FirstIsWritten DEF IsAppending
  <2>2. t.buffer.data \o Pending(t.pieces) = M
    BY <1>2, <1>3, <1>5, <2>1 DEF IsWhole
  <2>3. t.buffer.data \o <<>> = t.buffer.data
    BY <1>7, ConcatEmptySeq
  <2>. QED
    BY <1>6, <2>2, <2>3
<1>11. ASSUME failed PROVE t.buffer.data # M
  <2>1. PICK k \in 1 .. Depth : IsDamaged(stack[k])
    BY <1>11 DEF IsAppending
  <2>2. IsDamaged(t)
    BY <1>2, <1>5, <2>1
  <2>3. \/ Len(t.buffer.data) < t.sz
        \/ \E j \in 1 .. Len(t.buffer.data) : t.buffer.data[j] = Junk
    BY <1>6, <2>2 DEF IsDamaged
  <2>4. PICK d : d = t.buffer.data
    OBVIOUS
  <2>5. SUFFICES ASSUME d = M PROVE FALSE
    BY <2>4
  <2>6. Len(d) = t.sz /\ t.sz \in Nat
    BY <1>7, <1>8, <1>9, <2>5
  <2>7. PICK j \in 1 .. Len(M) : M[j] = Junk
    BY <2>3, <2>4, <2>5, <2>6
  <2>8. M[j] # Junk
    BY <1>9, NoJunk
  <2>. QED
    BY <2>7, <2>8
<1>12. t.buffer.data = M <=> ~failed
  BY <1>10, <1>11
<1>. QED
  BY <1>5, <1>7, <1>8, <1>12 DEF Encoding, get_packed_size

(* pinba__request__pack and pinba__request__pack_to_buffer (pinba.pb-c.c)    *)
(* write the same bytes, those of the descriptor, and as many as             *)
(* pinba__request__get_packed_size counted, for every request, however deep  *)
(* requests are nested in it: also where a nested request takes more than    *)
(* one byte of length.  When malloc fails, protobuf_c_buffer_simple_append   *)
(* never writes beyond its buffer, and what the caller finds is never the    *)
(* whole request.                                                            *)
THEOREM CodecAgrees == CodecSpec => []BothWaysAgree
<1>1. WriteInv => BothWaysAgree
  <2>. SUFFICES ASSUME WriteInv PROVE BothWaysAgree
    OBVIOUS
  <2>1. ASSUME how = "pack"
        PROVE  /\ Len(out) <= get_packed_size(message)
               /\ IsWritten => Len(out) = get_packed_size(message) /\ out = Encoding(message)
    <3>1. IsPacking
      BY <2>1 DEF WriteInv
    <3>. QED
      BY <3>1, PackedSize, PackWrites DEF IsWritten
  <2>2. ASSUME how = "append"
        PROVE  /\ Len(Top.buffer.data) <= Top.buffer.alloced
               /\ IsWritten =>
                    /\ Top.sz = get_packed_size(message)
                    /\ Len(Top.buffer.data) <= Top.sz
                    /\ ~failed <=> Top.buffer.data = Encoding(message)
    <3>1. IsAppending
      BY <2>2 DEF WriteInv
    <3>2. Len(Top.buffer.data) <= Top.buffer.alloced
      BY <3>1, AppendTop DEF IsAppendCall
    <3>. QED
      BY <2>2, <3>1, <3>2, AppendWrites DEF IsWritten
  <2>. QED
    BY <2>1, <2>2 DEF BothWaysAgree
<1>. QED
  BY <1>1, WriteInit, WriteStep, PTL DEF CodecSpec
-----------------------------------------------------------------------------
(* The blocks of the buffers. *)

(* What a call of pack_to_buffer is.  Only the last of its pieces comes with *)
(* a block: that of the nested call.                                         *)
IsCall(c) == DOMAIN c = AppendFields /\ DOMAIN c.buffer = BufferFields

IsLast(k, piece) == \A b \in piece.block : b[1] = k + 1

HasPieces(k, pieces) ==
  \/ pieces = <<>>
  \/ \E last : IsLast(k, last) /\ pieces = <<last>>
  \/ \E first, last : first.block = {} /\ IsLast(k, last) /\ pieces = <<first, last>>

IsStack ==
  /\ Depth \in Nat \ {0}
  /\ stack = [k \in 1 .. Depth |-> stack[k]]
  /\ \A k \in 1 .. Depth : IsCall(stack[k]) /\ HasPieces(k, stack[k].pieces)
  /\ \A k \in 1 .. Depth : k < Depth => stack[k].pieces = <<>>

CodecInv ==
  /\ how = "append" => IsStack
  /\ NoBlockLeaks

(* The heap is that of the other calls, and what this one has. *)
OthersOwn == UNION {Owned(k) : k \in 1 .. Depth - 1}

LEMMA OwnedFrom ==
  ASSUME CodecInv, how = "append"
  PROVE  /\ IsStack /\ Depth \in Nat \ {0}
         /\ heap = OthersOwn \union Owned(Depth)
         /\ \A b \in OthersOwn : b[1] < Depth
<1>1. IsStack /\ Depth \in Nat \ {0} /\ heap = UNION {Owned(k) : k \in 1 .. Depth}
  BY DEF CodecInv, IsStack, NoBlockLeaks
<1>2. 1 .. Depth = (1 .. Depth - 1) \union {Depth}
  BY <1>1
<1>3. heap = OthersOwn \union Owned(Depth)
  BY <1>1, <1>2 DEF OthersOwn
<1>4. ASSUME NEW k \in 1 .. Depth - 1, NEW b \in Owned(k) PROVE b[1] < Depth
  <2>1. k \in 1 .. Depth /\ k < Depth
    BY <1>1
  <2>2. stack[k].pieces = <<>>
    BY <1>1, <2>1 DEF IsStack
  <2>3. b \in Block(k, stack[k].buffer)
    BY <2>2 DEF Owned
  <2>4. b[1] = k
    BY <2>3 DEF Block
  <2>. QED
    BY <2>1, <2>4
<1>5. \A b \in OthersOwn : b[1] < Depth
  BY <1>4 DEF OthersOwn
<1>. QED
  BY <1>1, <1>3, <1>5

(* The call on top changes, and the heap with what it has to free. *)
LEMMA TopChanged ==
  ASSUME CodecInv, how = "append", NEW c, IsCall(c), HasPieces(Depth, c.pieces),
         stack' = [stack EXCEPT ![Depth] = c], how' = how,
         heap' = OthersOwn \union (Block(Depth, c.buffer)
                   \union UNION {c.pieces[j].block : j \in DOMAIN c.pieces})
  PROVE  CodecInv'
<1>1. IsStack /\ Depth \in Nat \ {0} /\ stack = [k \in 1 .. Depth |-> stack[k]]
  BY OwnedFrom DEF IsStack
<1>2. /\ Depth' = Depth
      /\ stack' = [k \in 1 .. Depth' |-> stack'[k]]
      /\ stack'[Depth] = c
      /\ \A k \in 1 .. Depth : k # Depth => stack'[k] = stack[k]
  BY <1>1, StackChanged
<1>3. IsStack'
  <2>1. \A k \in 1 .. Depth : IsCall(stack'[k]) /\ HasPieces(k, stack'[k].pieces)
    BY <1>1, <1>2 DEF IsStack
  <2>2. \A k \in 1 .. Depth : k < Depth => stack'[k].pieces = <<>>
    BY <1>1, <1>2 DEF IsStack
  <2>. QED
    BY <1>1, <1>2, <2>1, <2>2 DEF IsStack
<1>4. ASSUME NEW k \in 1 .. Depth - 1 PROVE Owned(k)' = Owned(k)
  <2>1. k \in 1 .. Depth /\ k # Depth
    BY <1>1
  <2>2. stack'[k] = stack[k]
    BY <1>2, <2>1
  <2>. QED
    BY <2>2 DEF Owned, Block
<1>5. Owned(Depth)' = Block(Depth, c.buffer)
                        \union UNION {c.pieces[j].block : j \in DOMAIN c.pieces}
  BY <1>2 DEF Owned, Block
<1>6. 1 .. Depth' = (1 .. Depth - 1) \union {Depth}
  BY <1>1, <1>2
<1>7. heap' = UNION {Owned(k)' : k \in 1 .. Depth'}
  <2>. DEFINE After(k) == Owned(k)'
  <2>1. \A k \in 1 .. Depth - 1 : After(k) = Owned(k)
    BY <1>4
  <2>2. heap' = OthersOwn \union After(Depth)
    BY <1>5
  <2>. HIDE DEF After
  <2>3. UNION {After(k) : k \in 1 .. Depth'} = OthersOwn \union After(Depth)
    BY <1>6, <2>1 DEF OthersOwn
  <2>. QED
    BY <2>2, <2>3 DEF After
<1>. QED
  BY <1>3, <1>7 DEF CodecInv, NoBlockLeaks

(* The blocks that come with the pieces. *)
LEMMA PiecesBlocks ==
  ASSUME NEW pieces
  PROVE  LET blocks == UNION {pieces[j].block : j \in DOMAIN pieces}
         IN  /\ pieces = <<>> => blocks = {}
             /\ \A last : pieces = <<last>> => blocks = last.block
             /\ \A first, last : pieces = <<first, last>> => blocks = first.block \union last.block
<1>. DEFINE blocks == UNION {pieces[j].block : j \in DOMAIN pieces}
<1>1. pieces = <<>> => blocks = {}
  OBVIOUS
<1>2. ASSUME NEW last, pieces = <<last>> PROVE blocks = last.block
  <2>1. DOMAIN pieces = {1} /\ pieces[1] = last
    BY <1>2
  <2>. QED
    BY <2>1
<1>3. ASSUME NEW first, NEW last, pieces = <<first, last>>
      PROVE  blocks = first.block \union last.block
  <2>1. DOMAIN pieces = {1, 2} /\ pieces[1] = first /\ pieces[2] = last
    BY <1>3
  <2>. QED
    BY <2>1
<1>. QED
  BY <1>1, <1>2, <1>3

LEMMA BlockIsNamed ==
  ASSUME NEW k, NEW b
  PROVE  \A block \in Block(k, b) : block[1] = k
BY DEF Block

LEMMA AppendValueKeeps ==
  ASSUME CodecInv, AppendValue
  PROVE  CodecInv'
<1>. DEFINE f == Top.field
            v == Value
            c == [Done(Top) EXCEPT !.pieces = Pieces(f, v)]
<1>1. /\ how = "append" /\ how' = how /\ heap' = heap
      /\ Top.pieces = <<>>
      /\ stack' = [stack EXCEPT ![Depth] = c]
  BY DEF AppendValue, Top
<1>2. /\ Depth \in Nat \ {0} /\ IsCall(Top)
      /\ heap = OthersOwn \union Owned(Depth)
  BY <1>1, OwnedFrom DEF IsStack, Top
<1>3. IsCall(c) /\ c.buffer = Top.buffer /\ c.pieces = Pieces(f, v)
  BY <1>2 DEF IsCall, Done, AppendFields
<1>4. \/ \E last : last.block = {} /\ c.pieces = <<last>>
      \/ \E first, last : first.block = {} /\ last.block = {} /\ c.pieces = <<first, last>>
  BY <1>3 DEF Pieces, Bytes
<1>5. HasPieces(Depth, c.pieces)
  BY <1>4 DEF HasPieces, IsLast
<1>6. UNION {c.pieces[j].block : j \in DOMAIN c.pieces} = {}
  BY <1>4, PiecesBlocks
<1>7. Owned(Depth) = Block(Depth, c.buffer)
  BY <1>1, <1>3, PiecesBlocks DEF Owned, Top
<1>. HIDE DEF c
<1>. QED
  BY <1>1, <1>2, <1>3, <1>5, <1>6, <1>7, TopChanged

(* A piece was passed on, and its block is freed. *)
LEMMA PassedKeeps ==
  ASSUME CodecInv, how = "append", how' = how, Top.pieces # <<>>, NEW b,
         DOMAIN b = BufferFields,
         stack' = [stack EXCEPT ![Depth] = Passed(Top, b)],
         heap' = ((heap \ Block(Depth, Top.buffer)) \union Block(Depth, b)) \ Piece.block
  PROVE  CodecInv'
<1>. DEFINE c == Passed(Top, b)
            blocks == UNION {Top.pieces[j].block : j \in DOMAIN Top.pieces}
            left == UNION {c.pieces[j].block : j \in DOMAIN c.pieces}
<1>1. /\ Depth \in Nat \ {0} /\ IsCall(Top) /\ HasPieces(Depth, Top.pieces)
      /\ heap = OthersOwn \union (Block(Depth, Top.buffer) \union blocks)
      /\ \A block \in OthersOwn : block[1] < Depth
  BY OwnedFrom DEF IsStack, Top, Owned
<1>2. IsCall(c) /\ c.buffer = b /\ c.pieces = Tail(Top.pieces)
  BY <1>1 DEF IsCall, Passed, AppendFields
<1>3. /\ \A block \in Block(Depth, Top.buffer) : block[1] = Depth
      /\ \A block \in Block(Depth, b) : block[1] = Depth
  BY BlockIsNamed
<1>4. /\ HasPieces(Depth, c.pieces)
      /\ \A block \in blocks : block[1] = Depth + 1
      /\ left = blocks \ Piece.block
  <2>1. ASSUME NEW last, IsLast(Depth, last), Top.pieces = <<last>>
        PROVE  /\ HasPieces(Depth, c.pieces)
               /\ \A block \in blocks : block[1] = Depth + 1
               /\ left = blocks \ Piece.block
    <3>1. c.pieces = <<>> /\ Piece = last /\ blocks = last.block
      BY <1>2, <2>1, PiecesBlocks DEF Piece
    <3>2. left = {}
      BY <3>1, PiecesBlocks
    <3>. QED
      BY <2>1, <3>1, <3>2 DEF HasPieces, IsLast
  <2>2. ASSUME NEW first, NEW last, first.block = {}, IsLast(Depth, last),
               Top.pieces = <<first, last>>
        PROVE  /\ HasPieces(Depth, c.pieces)
               /\ \A block \in blocks : block[1] = Depth + 1
               /\ left = blocks \ Piece.block
    <3>1. c.pieces = <<last>> /\ Piece = first /\ blocks = last.block
      BY <1>2, <2>2, PiecesBlocks DEF Piece
    <3>2. left = last.block
      BY <3>1, PiecesBlocks
    <3>. QED
      BY <2>2, <3>1, <3>2 DEF HasPieces, IsLast
  <2>. QED
    BY <1>1, <2>1, <2>2 DEF HasPieces
<1>5. Piece.block \subseteq blocks
  <2>1. ASSUME NEW last, Top.pieces = <<last>> PROVE Piece.block \subseteq blocks
    BY <2>1, PiecesBlocks DEF Piece
  <2>2. ASSUME NEW first, NEW last, Top.pieces = <<first, last>> PROVE Piece.block \subseteq blocks
    BY <2>2, PiecesBlocks DEF Piece
  <2>. QED
    BY <1>1, <2>1, <2>2 DEF HasPieces
<1>. HIDE DEF c, blocks, left
<1>6. heap' = OthersOwn \union (Block(Depth, b) \union left)
  <2>1. /\ \A block \in OthersOwn : block \notin Block(Depth, Top.buffer) /\ block \notin blocks
        /\ \A block \in blocks : block \notin Block(Depth, Top.buffer)
        /\ \A block \in Block(Depth, b) : block \notin blocks
    <3>1. \A k \in Nat : ~ (k < k) /\ ~ (k + 1 < k) /\ k # k + 1
      OBVIOUS
    <3>. QED
      BY <1>1, <1>3, <1>4, <3>1
  <2>. QED
    BY <1>1, <1>4, <1>5, <2>1
<1>7. heap' = OthersOwn \union (Block(Depth, c.buffer) \union left)
  BY <1>2, <1>6
<1>8. stack' = [stack EXCEPT ![Depth] = c]
  BY DEF c
<1>. QED
  BY <1>2, <1>4, <1>7, <1>8, TopChanged DEF left

LEMMA AppendBytesKeeps ==
  ASSUME CodecInv, AppendBytes
  PROVE  CodecInv'
<1>. DEFINE b == Grown(Top.buffer, Piece.data)
<1>1. /\ how = "append" /\ how' = how /\ Top.pieces # <<>>
      /\ stack' = [stack EXCEPT ![Depth] = Passed(Top, b)]
      /\ heap' = ((heap \ Block(Depth, Top.buffer)) \union Block(Depth, b)) \ Piece.block
  BY DEF AppendBytes, Regrown, Top
<1>2. IsCall(Top)
  BY <1>1, OwnedFrom DEF IsStack, Top
<1>3. DOMAIN b = BufferFields
  BY <1>2 DEF Grown, IsCall, BufferFields
<1>. HIDE DEF b
<1>. QED
  BY <1>1, <1>3, PassedKeeps

LEMMA LoseBytesKeeps ==
  ASSUME CodecInv, LoseBytes
  PROVE  CodecInv'
<1>. DEFINE b == Top.buffer
<1>1. /\ how = "append" /\ how' = how /\ Top.pieces # <<>>
      /\ stack' = [stack EXCEPT ![Depth] = Passed(Top, b)]
      /\ heap' = heap \ Piece.block
  BY DEF LoseBytes, Top
<1>2. IsCall(Top) /\ Block(Depth, b) \subseteq heap
  BY <1>1, OwnedFrom DEF IsStack, Top, Owned
<1>3. DOMAIN b = BufferFields
  BY <1>2 DEF IsCall
<1>4. heap' = ((heap \ Block(Depth, Top.buffer)) \union Block(Depth, b)) \ Piece.block
  BY <1>1, <1>2
<1>. HIDE DEF b
<1>. QED
  BY <1>1, <1>3, <1>4, PassedKeeps

(* A nested call starts with a buffer that has no block. *)
LEMMA AppendRequestKeeps ==
  ASSUME CodecInv, AppendRequest
  PROVE  CodecInv'
<1>. DEFINE c == Done(Top)
            d == AppendCall(Value)
<1>1. /\ how = "append" /\ how' = how /\ heap' = heap
      /\ Top.pieces = <<>>
      /\ stack' = Append([stack EXCEPT ![Depth] = c], d)
  BY DEF AppendRequest, Top
<1>2. /\ IsStack /\ Depth \in Nat \ {0} /\ IsCall(Top)
      /\ stack = [k \in 1 .. Depth |-> stack[k]]
      /\ heap = OthersOwn \union Owned(Depth)
  BY <1>1, OwnedFrom DEF IsStack, Top
<1>3. IsCall(c) /\ c.buffer = Top.buffer /\ c.pieces = <<>>
  BY <1>1, <1>2 DEF IsCall, Done, AppendFields
<1>4. IsCall(d) /\ d.pieces = <<>> /\ d.buffer.must_free_data = FALSE
  BY DEF AppendCall, SimpleBuffer, IsCall, AppendFields, BufferFields
<1>. HIDE DEF c, d
<1>5. /\ Depth' = Depth + 1
      /\ stack' = [k \in 1 .. Depth' |-> stack'[k]]
      /\ stack'[Depth] = c /\ stack'[Depth + 1] = d
      /\ \A k \in 1 .. Depth : k # Depth => stack'[k] = stack[k]
  BY <1>1, <1>2, StackPushed
<1>6. \A k \in 1 .. Depth' : k \in 1 .. Depth - 1 \/ k = Depth \/ k = Depth + 1
  BY <1>2, <1>5
<1>7. \A k \in 1 .. Depth - 1 : k \in 1 .. Depth /\ k # Depth /\ k < Depth
  BY <1>2
<1>8. IsStack'
  <2>1. \A k \in 1 .. Depth' : IsCall(stack'[k]) /\ stack'[k].pieces = <<>>
    BY <1>2, <1>3, <1>4, <1>5, <1>6, <1>7 DEF IsStack
  <2>2. \A k \in 1 .. Depth' : HasPieces(k, stack'[k].pieces)
    BY <2>1 DEF HasPieces
  <2>. QED
    BY <1>2, <1>5, <2>1, <2>2 DEF IsStack
<1>9. NoBlockLeaks'
  <2>. DEFINE After(k) == Owned(k)'
  <2>0. PICK top \in Nat \ {0} : top = Depth
    BY <1>2
  <2>1. \A k \in 1 .. Depth - 1 : After(k) = Owned(k)
    BY <1>5, <1>7 DEF Owned, Block
  <2>2. After(top) = Owned(Depth)
    <3>1. stack'[top].pieces = stack[top].pieces /\ stack'[top].buffer = stack[top].buffer
      BY <1>1, <1>3, <1>5, <2>0 DEF Top
    <3>. QED
      BY <2>0, <3>1 DEF Owned, Block
  <2>3. After(top + 1) = {}
    <3>1. stack'[top + 1] = d
      BY <1>5, <2>0
    <3>. QED
      BY <1>4, <3>1 DEF Owned, Block
  <2>4. heap' = UNION {After(k) : k \in 1 .. Depth'}
    <3>. HIDE DEF After
    <3>1. UNION {After(k) : k \in 1 .. Depth'} = OthersOwn \union Owned(Depth)
      <4>1. 1 .. Depth' = (1 .. Depth - 1) \union {top, top + 1}
        BY <1>2, <1>5, <2>0
      <4>. QED
        BY <2>1, <2>2, <2>3, <4>1 DEF OthersOwn
    <3>. QED
      BY <1>1, <1>2, <3>1
  <2>. QED
    BY <1>1, <2>4 DEF NoBlockLeaks
<1>. QED
  BY <1>8, <1>9 DEF CodecInv

(* When it returns, its caller has its block. *)
LEMMA AppendLengthKeeps ==
  ASSUME CodecInv, AppendLength
  PROVE  CodecInv'
<1>. DEFINE b == Top.buffer
            data == [k \in 1 .. Top.sz |-> IF k <= Len(b.data) THEN b.data[k] ELSE Junk]
            first == Bytes(Tag(18) \o uint32_pack(Word(Top.sz)))
            last == [data |-> data, block |-> Block(Depth, b)]
            c == [stack[Depth - 1] EXCEPT !.pieces = <<first, last>>]
<1>1. /\ how = "append" /\ how' = how /\ heap' = heap
      /\ Depth > 1 /\ Top.pieces = <<>>
      /\ stack' = [Front(stack) EXCEPT ![Depth - 1].pieces = <<first, last>>]
  BY DEF AppendLength, Returns
<1>2. /\ IsStack /\ Depth \in Nat /\ IsCall(Top)
      /\ stack = [k \in 1 .. Depth |-> stack[k]]
      /\ heap = OthersOwn \union Owned(Depth)
  BY <1>1, OwnedFrom DEF IsStack, Top
<1>3. \A k \in 1 .. Depth - 1 : k \in 1 .. Depth /\ k < Depth
  BY <1>2
<1>4. Depth - 1 \in 1 .. Depth - 1
  BY <1>1, <1>2
<1>5. stack[Depth - 1].pieces = <<>> /\ IsCall(stack[Depth - 1])
  BY <1>2, <1>3, <1>4 DEF IsStack
<1>6. IsCall(c) /\ c.buffer = stack[Depth - 1].buffer /\ c.pieces = <<first, last>>
  BY <1>5 DEF IsCall, AppendFields
<1>7. first.block = {} /\ last.block = Block(Depth, b)
  BY DEF Bytes
<1>8. HasPieces(Depth - 1, c.pieces)
  <2>1. (Depth - 1) + 1 = Depth
    BY <1>2
  <2>2. IsLast(Depth - 1, last)
    BY <1>7, <2>1, BlockIsNamed DEF IsLast
  <2>. HIDE DEF first, last, c
  <2>. QED
    BY <1>6, <1>7, <2>2 DEF HasPieces
<1>9. stack' = [Front(stack) EXCEPT ![Depth - 1] = c]
  <2>1. PICK S : stack \in Seq(S) /\ {} \in S
    BY <1>2, StackIsSeq
  <2>2. Front(stack)[Depth - 1] = stack[Depth - 1]
    BY <1>1, <1>4, <2>1, FrontOf DEF Depth
  <2>. QED
    BY <1>1, <2>2
<1>10. UNION {c.pieces[j].block : j \in DOMAIN c.pieces} = Block(Depth, b)
  <2>. HIDE DEF first, last, c
  <2>. QED
    BY <1>6, <1>7, PiecesBlocks
<1>. HIDE DEF first, last, c, b
<1>11. /\ Depth' = Depth - 1
       /\ stack' = [k \in 1 .. Depth' |-> stack'[k]]
       /\ stack'[Depth - 1] = c
       /\ \A k \in 1 .. Depth - 1 : k # Depth - 1 => stack'[k] = stack[k]
  BY <1>1, <1>2, <1>9, StackPopped
<1>12. IsStack'
  <2>1. \A k \in 1 .. Depth - 1 : IsCall(stack'[k]) /\ HasPieces(k, stack'[k].pieces)
    BY <1>2, <1>3, <1>6, <1>8, <1>11 DEF IsStack
  <2>2. \A k \in 1 .. Depth - 1 : k < Depth - 1 => stack'[k].pieces = <<>>
    BY <1>2, <1>3, <1>11 DEF IsStack
  <2>3. Depth' \in Nat \ {0}
    BY <1>1, <1>2, <1>11
  <2>. QED
    BY <1>1, <1>11, <2>1, <2>2, <2>3 DEF IsStack
<1>13. NoBlockLeaks'
  <2>. DEFINE After(k) == Owned(k)'
  <2>0. PICK below \in Nat : below = Depth - 1
    BY <1>1, <1>2
  <2>1. \A k \in 1 .. Depth - 1 : k # below => After(k) = Owned(k)
    BY <1>11, <2>0 DEF Owned, Block
  <2>2. After(below) = Owned(Depth - 1) \union Owned(Depth)
    <3>1. After(below) = Block(Depth - 1, c.buffer) \union Block(Depth, b)
      <4>1. stack'[below] = c
        BY <1>11, <2>0
      <4>2. After(below) = Block(below, c.buffer)
                             \union UNION {c.pieces[j].block : j \in DOMAIN c.pieces}
        BY <4>1 DEF Owned, Block
      <4>. QED
        BY <1>10, <2>0, <4>2
    <3>2. Owned(Depth - 1) = Block(Depth - 1, c.buffer)
      BY <1>5, <1>6, PiecesBlocks DEF Owned
    <3>3. Owned(Depth) = Block(Depth, b)
      BY <1>1, PiecesBlocks DEF Owned, Top, b
    <3>. QED
      BY <3>1, <3>2, <3>3
  <2>. HIDE DEF After
  <2>3. UNION {After(k) : k \in 1 .. Depth - 1} = OthersOwn \union Owned(Depth)
    BY <1>4, <2>0, <2>1, <2>2 DEF OthersOwn
  <2>. QED
    BY <1>1, <1>2, <1>11, <2>3 DEF NoBlockLeaks, After
<1>. QED
  BY <1>12, <1>13 DEF CodecInv

LEMMA AppendReturnsKeeps ==
  ASSUME CodecInv, AppendReturns
  PROVE  CodecInv'
<1>1. /\ how = "append" /\ how' = "idle" /\ Depth = 1 /\ Top.pieces = <<>>
      /\ heap' = heap \ Block(1, Top.buffer)
  BY DEF AppendReturns, Returns, EndCall
<1>2. heap = OthersOwn \union Owned(1)
  BY <1>1, OwnedFrom
<1>3. OthersOwn = {}
  <2>1. 1 .. Depth - 1 = {}
    BY <1>1
  <2>. QED
    BY <2>1 DEF OthersOwn
<1>4. Owned(1) = Block(1, Top.buffer)
  BY <1>1, PiecesBlocks DEF Owned, Top
<1>5. heap' = {}
  BY <1>1, <1>2, <1>3, <1>4
<1>. QED
  BY <1>1, <1>5 DEF CodecInv, NoBlockLeaks

LEMMA StartKeeps ==
  ASSUME CodecInv, NEW m \in Messages, Start(m)
  PROVE  CodecInv'
<1>1. heap' = {} /\ how' \in {"pack", "append"}
  BY DEF Start, CodecInv, NoBlockLeaks
<1>2. CASE how' = "pack"
  BY <1>1, <1>2 DEF CodecInv, NoBlockLeaks
<1>3. CASE how' = "append"
  <2>. DEFINE d == AppendCall(m)
  <2>1. IsCall(d) /\ d.pieces = <<>> /\ d.buffer.must_free_data = FALSE
    BY DEF AppendCall, SimpleBuffer, IsCall, AppendFields, BufferFields
  <2>2. stack' = <<d>>
    BY <1>3 DEF Start
  <2>. HIDE DEF d
  <2>3. /\ Depth' = 1 /\ stack' = [k \in 1 .. 1 |-> stack'[k]] /\ stack'[1] = d
        /\ 1 .. 1 = {1}
    BY <2>2 DEF Depth
  <2>4. IsStack'
    BY <2>1, <2>3 DEF IsStack, HasPieces
  <2>5. Owned(1)' = {}
    BY <2>1, <2>3 DEF Owned, Block
  <2>6. NoBlockLeaks'
    BY <1>1, <1>3, <2>3, <2>5 DEF NoBlockLeaks
  <2>. QED
    BY <2>4, <2>6 DEF CodecInv
<1>. QED
  BY <1>1, <1>2, <1>3

LEMMA NextFieldKeeps ==
  ASSUME CodecInv, NextField
  PROVE  CodecInv'
<1>1. how \in {"pack", "append"} /\ how' = how /\ heap' = heap
  BY DEF NextField
<1>2. CASE how = "pack"
  BY <1>1, <1>2 DEF CodecInv, NoBlockLeaks
<1>3. CASE how = "append"
  <2>1. PICK c : c = [Top EXCEPT !.field = @ + 1, !.index = 0]
    OBVIOUS
  <2>2. /\ Depth \in Nat \ {0} /\ IsCall(Top) /\ stack = [k \in 1 .. Depth |-> stack[k]]
        /\ heap = OthersOwn \union Owned(Depth)
    BY <1>3, OwnedFrom DEF IsStack, Top
  <2>3. Top.pieces = <<>>
    BY <1>3 DEF NextField
  <2>4. IsCall(c) /\ c.buffer = Top.buffer /\ c.pieces = <<>>
    BY <2>1, <2>2, <2>3 DEF IsCall, AppendFields
  <2>5. stack' = [stack EXCEPT ![Depth] = c]
    BY <2>1, <2>2 DEF NextField, Top
  <2>6. UNION {c.pieces[j].block : j \in DOMAIN c.pieces} = {}
    BY <2>4, PiecesBlocks
  <2>7. Owned(Depth) = Block(Depth, c.buffer)
    BY <2>3, <2>4, PiecesBlocks DEF Owned, Top
  <2>8. HasPieces(Depth, c.pieces)
    BY <2>4 DEF HasPieces
  <2>. QED
    BY <1>1, <1>3, <2>2, <2>4, <2>5, <2>6, <2>7, <2>8, TopChanged
<1>. QED
  BY <1>1, <1>2, <1>3

LEMMA CodecStep == CodecInv /\ [CodecNext]_codec_vars => CodecInv'
<1>. SUFFICES ASSUME CodecInv, [CodecNext]_codec_vars PROVE CodecInv'
  OBVIOUS
<1>1. ASSUME NEW m \in Messages, Start(m) PROVE CodecInv'
  BY <1>1, StartKeeps
<1>2. CASE PackValue \/ PackRequest \/ PackLength \/ PackReturns
  BY <1>2 DEF PackValue, PackRequest, PackLength, PackReturns, CodecInv, NoBlockLeaks
<1>3. ASSUME NEW f \in Fields, ReadField(f) \/ ReadRequest(f) PROVE CodecInv'
  BY <1>3 DEF ReadField, ReadRequest, CodecInv, NoBlockLeaks
<1>7. CASE ReadNested \/ ReadReturns
  BY <1>7 DEF ReadNested, ReadReturns, HasRead, EndCall, CodecInv, NoBlockLeaks
<1>8. CASE NextField
  BY <1>8, NextFieldKeeps
<1>4. CASE AppendValue \/ AppendBytes \/ LoseBytes
  BY <1>4, AppendValueKeeps, AppendBytesKeeps, LoseBytesKeeps
<1>5. CASE AppendRequest \/ AppendLength \/ AppendReturns
  BY <1>5, AppendRequestKeeps, AppendLengthKeeps, AppendReturnsKeeps
<1>6. CASE UNCHANGED codec_vars
  <2>1. how' = how /\ stack' = stack /\ heap' = heap
    BY <1>6 DEF codec_vars
  <2>2. Depth' = Depth /\ \A k : Owned(k)' = Owned(k)
    BY <2>1 DEF Depth, Owned, Block
  <2>3. IsStack' = IsStack
    BY <2>1, <2>2 DEF IsStack
  <2>4. NoBlockLeaks'
    <3>1. CASE how = "append"
      <4>. DEFINE After(k) == Owned(k)'
      <4>1. \A k : After(k) = Owned(k)
        BY <2>2
      <4>. HIDE DEF After
      <4>2. heap' = UNION {After(k) : k \in 1 .. Depth'}
        BY <2>1, <2>2, <3>1, <4>1 DEF CodecInv, NoBlockLeaks
      <4>. QED
        BY <2>1, <3>1, <4>2 DEF NoBlockLeaks, After
    <3>2. CASE how # "append"
      BY <2>1, <3>2 DEF CodecInv, NoBlockLeaks
    <3>. QED
      BY <3>1, <3>2
  <2>. QED
    BY <2>1, <2>3, <2>4 DEF CodecInv
<1>. QED
  BY <1>1, <1>2, <1>3, <1>4, <1>5, <1>6, <1>7, <1>8 DEF CodecNext

(* However deep requests are nested, however often their buffers grow, and   *)
(* whichever malloc fails: each block is freed once, by the call that cleared *)
(* the buffer it belongs to (protobuf_c_buffer_simple_append and              *)
(* PROTOBUF_C_BUFFER_SIMPLE_CLEAR, protobuf-c.h).                             *)
THEOREM NoBlockLost == CodecSpec => []NoBlockLeaks
<1>1. CodecInit => CodecInv
  BY DEF CodecInit, CodecInv, NoBlockLeaks
<1>2. CodecInv => NoBlockLeaks
  BY DEF CodecInv
<1>. QED
  BY <1>1, <1>2, CodecStep, PTL DEF CodecSpec
-----------------------------------------------------------------------------
(* What is read of what was written. *)

(* What is read of a word that was packed, whatever follows it. *)
LEMMA ReadsWord ==
  ASSUME NEW v \in SUBSET (0 .. 31), NEW rest \in Seq(Bytes8), NEW s,
         s = uint32_pack(v) \o rest
  PROVE  /\ skip_varint(s) = uint32_size(v) /\ uint32_size(v) \in Nat \ {0}
         /\ Len(uint32_pack(v)) = uint32_size(v)
         /\ uint32_pack(v) \in Seq(Bytes8)
         /\ ReadUint32(s) = v
<1>1. PICK u, size : u = uint32_pack(v) /\ size = uint32_size(v)
  OBVIOUS
<1>2. IsVarint(u, v, size)
  BY <1>1, Pack32
<1>3. size \in Nat \ {0} /\ u \in Seq(Bytes8) /\ Len(u) = size
  BY <1>2 DEF IsVarint, Bytes8
<1>4. s \in Seq(Bytes8) /\ Len(s) = Len(u) + Len(rest) /\ Len(rest) \in Nat
      /\ \A k \in 1 .. Len(u) : s[k] = u[k]
  <2>1. s = u \o rest
    BY <1>1
  <2>2. u \in Seq(Bytes8)
    BY <1>3
  <2>. QED
    BY <2>1, <2>2, Joined
<1>5. \A k \in 1 .. size : s[k] = Group(v, k) \union (IF k < size THEN {7} ELSE {})
  BY <1>2, <1>3, <1>4 DEF IsVarint
<1>6. skip_varint(s) = size
  <2>1. \A k \in 1 .. size : 7 \notin Group(v, k)
    BY GroupType
  <2>2. size \in 1 .. size /\ size <= Len(s)
    BY <1>3, <1>4
  <2>3. 7 \notin s[size]
    BY <1>5, <2>1, <2>2
  <2>4. \A k \in 1 .. size : k < size => 7 \in s[k]
    BY <1>5
  <2>5. s \in Seq(SUBSET (0 .. 7))
    BY <1>4 DEF Bytes8
  <2>. QED
    BY <1>3, <2>2, <2>3, <2>4, <2>5, SkipVarint
<1>7. \A k \in 1 .. size : s[k] \intersect 0 .. 6 = Group(v, k)
  <2>1. ASSUME NEW k \in 1 .. size PROVE s[k] \intersect 0 .. 6 = Group(v, k)
    <3>1. s[k] = Group(v, k) \union (IF k < size THEN {7} ELSE {})
      BY <1>5
    <3>2. Group(v, k) \subseteq 0 .. 6
      BY DEF Group
    <3>. QED
      BY <3>1, <3>2
  <2>. QED
    BY <2>1
<1>8. ASSUME NEW k \in 1 .. size, NEW b
      PROVE  b \in Shl(s[k] \intersect 0 .. 6, 7 * k - 7, 32)
               <=> b \in v /\ 7 * k - 7 <= b /\ b <= 7 * k - 1
  <2>1. s[k] \intersect 0 .. 6 = Group(v, k)
    BY <1>7
  <2>2. PICK d \in Nat : d = 7 * k - 7
    BY <1>3
  <2>3. b \in Shl(Group(v, k), d, 32) <=> b \in 0 .. 31 /\ b - d \in Group(v, k)
    <3>1. Group(v, k) \in SUBSET Nat
      BY DEF Group
    <3>2. PICK width \in Nat : width = 32
      OBVIOUS
    <3>3. b \in Shl(Group(v, k), d, width) <=> b \in 0 .. width - 1 /\ b - d \in Group(v, k)
      BY <3>1, ShlBit
    <3>. QED
      BY <3>2, <3>3
  <2>4. b \in 0 .. 31 => (b - d \in Group(v, k) <=> b \in v /\ d <= b /\ b <= d + 6)
    BY <2>2 DEF Group
  <2>5. b \in Shl(s[k] \intersect 0 .. 6, d, 32)
          <=> b \in 0 .. 31 /\ b \in v /\ d <= b /\ b <= d + 6
    BY <2>1, <2>3, <2>4
  <2>6. b \in v => b \in 0 .. 31
    OBVIOUS
  <2>7. b \in v => (b <= d + 6 <=> b <= 7 * k - 1)
    BY <1>3, <2>2, <2>6
  <2>. QED
    BY <2>2, <2>5, <2>6, <2>7
<1>9. ReadUint32(s) = UNION {Shl(s[k] \intersect 0 .. 6, 7 * k - 7, 32) : k \in 1 .. size}
  BY <1>6 DEF ReadUint32
<1>10. \A b : b \in ReadUint32(s) <=> \E k \in 1 .. size : b \in Shl(s[k] \intersect 0 .. 6, 7 * k - 7, 32)
  BY <1>9
<1>11. ASSUME NEW b \in v
       PROVE  \E k \in 1 .. size : 7 * k - 7 <= b /\ b <= 7 * k - 1
  <2>1. b \in 0 .. 31 /\ b < 7 * size
    BY <1>2 DEF IsVarint
  <2>2. PICK k \in Nat : k = b \div 7 + 1
    BY <2>1
  <2>3. 7 * k - 7 <= b /\ b <= 7 * k - 1
    BY <2>1, <2>2
  <2>4. k \in 1 .. size
    BY <1>3, <2>1, <2>2, <2>3
  <2>. QED
    BY <2>3, <2>4
<1>12. \A b : b \in ReadUint32(s) <=> b \in v
  <2>1. ASSUME NEW b, b \in ReadUint32(s) PROVE b \in v
    BY <1>8, <1>10, <2>1
  <2>2. ASSUME NEW b, b \in v PROVE b \in ReadUint32(s)
    BY <1>8, <1>10, <1>11, <2>2
  <2>. QED
    BY <2>1, <2>2
<1>13. ReadUint32(s) = v
  BY <1>12
<1>. QED
  BY <1>1, <1>3, <1>6, <1>13

(* And of a fixed value. *)
FourBytes(s) == UNION {Shl(s[k], 8 * k - 8, 32) : k \in 1 .. 4}

LEMMA ReadsFixed ==
  ASSUME NEW v \in SUBSET (0 .. 31), NEW rest \in Seq(Bytes8), NEW s,
         s = fixed_pack(v, 4) \o rest
  PROVE  /\ FourBytes(s) = v
         /\ Len(fixed_pack(v, 4)) = 4
         /\ fixed_pack(v, 4) \in Seq(Bytes8)
<1>1. PICK size \in {4, 8} : size = 4
  OBVIOUS
<1>2. v \in SUBSET (0 .. 8 * size - 1)
  BY <1>1
<1>3. PICK u : u = fixed_pack(v, 4)
  OBVIOUS
<1>4. /\ u \in Seq(SUBSET (0 .. 7)) /\ Len(u) = 4
      /\ UNION {Shl(u[k], 8 * k - 8, 64) : k \in 1 .. 4} = v
  BY <1>1, <1>2, <1>3, FixedPack
<1>5. \A k \in 1 .. 4 : s[k] = u[k]
  BY <1>3, <1>4, Joined DEF Bytes8
<1>6. \A x, d : Shl(x, d, 32) = Shl(x, d, 64) \intersect 0 .. 31
  BY DEF Shl
<1>7. \A b : b \in UNION {Shl(s[k], 8 * k - 8, 32) : k \in 1 .. 4}
               <=> \E k \in 1 .. 4 : b \in Shl(u[k], 8 * k - 8, 64) /\ b \in 0 .. 31
  <2>1. ASSUME NEW b, NEW k \in 1 .. 4
        PROVE  b \in Shl(s[k], 8 * k - 8, 32)
                 <=> b \in Shl(u[k], 8 * k - 8, 64) /\ b \in 0 .. 31
    <3>1. s[k] = u[k]
      BY <1>5
    <3>2. PICK d : d = 8 * k - 8
      OBVIOUS
    <3>3. Shl(u[k], d, 32) = Shl(u[k], d, 64) \intersect 0 .. 31
      BY <1>6
    <3>. QED
      BY <3>1, <3>2, <3>3
  <2>2. \A b : b \in UNION {Shl(s[k], 8 * k - 8, 32) : k \in 1 .. 4}
                 <=> \E k \in 1 .. 4 : b \in Shl(s[k], 8 * k - 8, 32)
    OBVIOUS
  <2>. QED
    BY <2>1, <2>2
<1>8. \A b : b \in v <=> \E k \in 1 .. 4 : b \in Shl(u[k], 8 * k - 8, 64)
  <2>1. \A b : b \in UNION {Shl(u[k], 8 * k - 8, 64) : k \in 1 .. 4}
                 <=> \E k \in 1 .. 4 : b \in Shl(u[k], 8 * k - 8, 64)
    OBVIOUS
  <2>. QED
    BY <1>4, <2>1
<1>9. \A b : b \in UNION {Shl(s[k], 8 * k - 8, 32) : k \in 1 .. 4} <=> b \in v
  BY <1>7, <1>8
<1>. QED
  BY <1>3, <1>4, <1>9 DEF Bytes8, FourBytes

(* The middle of three sequences. *)
LEMMA MiddlePart ==
  ASSUME NEW S, NEW a \in Seq(S), NEW b \in Seq(S), NEW c \in Seq(S),
         NEW s, s = (a \o b) \o c, NEW first, first = Len(a), NEW last, last = Len(a) + Len(b)
  PROVE  SubSeq(s, first + 1, last) = b
<1>1. PICK both : both = a \o b
  OBVIOUS
<1>2. /\ both \in Seq(S) /\ Len(both) = Len(a) + Len(b) /\ Len(a) \in Nat /\ Len(b) \in Nat
      /\ \A k \in 1 .. Len(b) : both[k + Len(a)] = b[k]
  BY <1>1, Joined
<1>3. s = both \o c
  BY <1>1
<1>4. /\ s \in Seq(S) /\ Len(s) = Len(both) + Len(c) /\ Len(c) \in Nat
      /\ \A k \in 1 .. Len(both) : s[k] = both[k]
  BY <1>2, <1>3, Joined
<1>5. PICK part : part = SubSeq(s, first + 1, last)
  OBVIOUS
<1>6. first + 1 \in Nat \ {0} /\ last \in Nat /\ first + 1 <= last + 1 /\ last <= Len(s)
  BY <1>2, <1>4
<1>7. /\ part \in Seq(S) /\ Len(part) = last - (first + 1) + 1
      /\ \A k \in 1 .. Len(part) : part[k] = s[k + ((first + 1) - 1)]
  BY <1>4, <1>5, <1>6, PartOf
<1>8. Len(part) = Len(b)
  BY <1>2, <1>7
<1>9. ASSUME NEW k \in 1 .. Len(part) PROVE part[k] = b[k]
  <2>1. k \in 1 .. Len(b) /\ k + ((first + 1) - 1) = k + Len(a)
    BY <1>2, <1>8
  <2>2. k + Len(a) \in 1 .. Len(both)
    BY <1>2, <2>1
  <2>3. part[k] = s[k + Len(a)]
    BY <1>7, <2>1
  <2>4. s[k + Len(a)] = both[k + Len(a)]
    BY <1>4, <2>2
  <2>5. both[k + Len(a)] = b[k]
    BY <1>2, <2>1
  <2>. QED
    BY <2>3, <2>4, <2>5
<1>10. part = b
  BY <1>7, <1>8, <1>9, SameSeq
<1>. QED
  BY <1>5, <1>10

(* What is read of bytes behind their length. *)
LEMMA ReadsDelimited ==
  ASSUME NEW d \in Seq(Bytes8), Len(d) <= PINBA_UDP_BUFFER_SIZE, NEW rest \in Seq(Bytes8), NEW s,
         s = delimited_pack(d) \o rest
  PROVE  /\ skip_varint(s) \in Nat /\ Number(ReadUint32(s)) = Len(d)
         /\ Len(delimited_pack(d)) = skip_varint(s) + Len(d)
         /\ SubSeq(s, skip_varint(s) + 1, skip_varint(s) + Len(d)) = d
<1>1. PICK num \in Nat : num = Len(d)
  BY LenProperties
<1>2. PICK w : w = Word(num)
  OBVIOUS
<1>3. w \in SUBSET (0 .. 31)
  BY <1>2, WordType
<1>4. PICK u, both : u = uint32_pack(w) /\ both = d \o rest
  OBVIOUS
<1>5. u \in Seq(Bytes8) /\ Len(u) = uint32_size(w) /\ uint32_size(w) \in Nat
  BY <1>1, <1>2, <1>4, LengthPack
<1>6. delimited_pack(d) = u \o d
  BY <1>1, <1>2, <1>4 DEF delimited_pack
<1>7. s = (u \o d) \o rest
  BY <1>6
<1>8. (u \o d) \o rest = u \o (d \o rest)
  BY <1>5, JoinedThree
<1>9. s = uint32_pack(w) \o both
  BY <1>4, <1>7, <1>8
<1>10. both \in Seq(Bytes8)
  BY <1>4, BytesJoined
<1>11. skip_varint(s) = uint32_size(w) /\ ReadUint32(s) = w
  BY <1>3, <1>9, <1>10, ReadsWord
<1>12. Number(w) = num
  BY <1>1, <1>2, NumberOfWord
<1>13. Len(u \o d) = Len(u) + Len(d)
  BY <1>5, BytesJoined
<1>14. PICK first, last : first = Len(u) /\ last = Len(u) + Len(d)
  OBVIOUS
<1>15. SubSeq(s, first + 1, last) = d
  BY <1>5, <1>7, <1>14, MiddlePart
<1>. QED
  BY <1>1, <1>5, <1>6, <1>11, <1>12, <1>13, <1>14, <1>15

(* A value is read as what it was. *)
GivesBack(f, v, s) == ReadValue(f, s).v = v /\ ReadValue(f, s).used = Len(Pack(f, v))

LEMMA ReadsValue ==
  ASSUME NEW f \in Fields, NEW v \in ValuesOf(f), Type(f) # "message",
         NEW rest \in Seq(Bytes8), NEW s, s = Pack(f, v) \o rest
  PROVE  GivesBack(f, v, s)
<1>. USE DEF GivesBack
<1>1. CASE Type(f) = "uint32"
  <2>1. v \in SUBSET (0 .. 31) /\ Pack(f, v) = uint32_pack(v)
    BY <1>1 DEF ValuesOf, Pack
  <2>2. /\ skip_varint(s) = uint32_size(v) /\ Len(uint32_pack(v)) = uint32_size(v)
        /\ ReadUint32(s) = v
    BY <2>1, ReadsWord
  <2>3. ReadValue(f, s) = [v |-> ReadUint32(s), used |-> skip_varint(s)]
    BY <1>1 DEF ReadValue
  <2>. QED
    BY <2>1, <2>2, <2>3
<1>2. CASE Type(f) = "float"
  <2>1. v \in SUBSET (0 .. 31) /\ Pack(f, v) = fixed_pack(v, 4)
    BY <1>2 DEF ValuesOf, Pack
  <2>2. FourBytes(s) = v /\ Len(fixed_pack(v, 4)) = 4
    BY <2>1, ReadsFixed
  <2>3. ReadValue(f, s) = [v |-> FourBytes(s), used |-> 4]
    BY <1>2 DEF ReadValue, FourBytes
  <2>4. ReadValue(f, s).v = FourBytes(s) /\ ReadValue(f, s).used = 4
    BY <2>3
  <2>. QED
    BY <2>1, <2>2, <2>4
<1>3. CASE Type(f) = "string"
  <2>1. v \in Seq(Bytes8) /\ Len(v) < ArraySize(f) /\ Pack(f, v) = delimited_pack(v)
    BY <1>3 DEF ValuesOf, Pack, Bytes8
  <2>2. ArraySize(f) \in Nat /\ ArraySize(f) <= 129
    <3>1. f \in {1, 2, 3, 15, 19}
      BY <1>3, TypesAre
    <3>. QED
      BY <3>1 DEF ArraySize
  <2>3. PICK num \in Nat : num = Len(v)
    BY <2>1, LenProperties
  <2>4. Len(v) <= PINBA_UDP_BUFFER_SIZE
    BY <2>1, <2>2, <2>3 DEF PINBA_UDP_BUFFER_SIZE
  <2>5. /\ skip_varint(s) \in Nat /\ Number(ReadUint32(s)) = num
        /\ Len(delimited_pack(v)) = skip_varint(s) + num
        /\ SubSeq(s, skip_varint(s) + 1, skip_varint(s) + num) = v
    BY <2>1, <2>3, <2>4, ReadsDelimited
  <2>6. LENGTH_LIMIT(f, num) = num
    <3>1. PICK T : T = {num, ArraySize(f) - 1}
      OBVIOUS
    <3>2. num <= ArraySize(f) - 1 /\ ArraySize(f) - 1 \in Nat
      BY <2>1, <2>2, <2>3
    <3>3. T \subseteq Nat /\ T # {}
      BY <3>1, <3>2
    <3>4. Min(T) \in T /\ \A y \in T : Min(T) <= y
      BY <3>3, LeastNumber
    <3>5. Min(T) = num
      BY <3>1, <3>2, <3>4
    <3>. QED
      BY <3>1, <3>5 DEF LENGTH_LIMIT
  <2>7. ReadValue(f, s) = [v |-> SubSeq(s, skip_varint(s) + 1, skip_varint(s) + LENGTH_LIMIT(f, num)),
                           used |-> skip_varint(s) + num]
    BY <1>3, <2>5 DEF ReadValue
  <2>8. ReadValue(f, s) = [v |-> v, used |-> skip_varint(s) + num]
    BY <2>5, <2>6, <2>7
  <2>9. ReadValue(f, s).v = v /\ ReadValue(f, s).used = skip_varint(s) + num
    BY <2>8
  <2>. QED
    BY <2>1, <2>5, <2>9
<1>. QED
  BY <1>1, <1>2, <1>3, TypesAre
-----------------------------------------------------------------------------
(* What is stored. *)

(* The tag that is in front is the one that was written. *)
LEMMA TagBehind ==
  ASSUME NEW f \in Fields, NEW g \in Fields, NEW rest \in Seq(Bytes8), NEW s,
         s = Tag(g) \o rest, IsPrefix(Tag(f), s)
  PROVE  f = g /\ SubSeq(s, TagSize(g) + 1, Len(s)) = rest
<1>1. PICK a, b : a = Tag(f) /\ b = Tag(g)
  OBVIOUS
<1>2. /\ a \in Seq(Bytes8) /\ b \in Seq(Bytes8)
      /\ Len(a) \in 1 .. 2 /\ Len(b) \in 1 .. 2 /\ Len(b) = TagSize(g)
  BY <1>1, TagIs
<1>3. s = b \o rest
  BY <1>1
<1>4. /\ s \in Seq(Bytes8) /\ Len(s) = Len(b) + Len(rest) /\ Len(rest) \in Nat
      /\ \A k \in 1 .. Len(b) : s[k] = b[k]
  BY <1>2, <1>3, Joined
<1>5. Len(a) <= Len(s) /\ SubSeq(a, 1, Len(a)) = SubSeq(s, 1, Len(a))
  BY <1>1 DEF IsPrefix
<1>6. PICK num : num = Len(a)
  OBVIOUS
<1>7. num \in 0 .. Len(s) /\ num \in 0 .. Len(a) /\ 1 \in 1 .. num
  BY <1>2, <1>4, <1>5, <1>6
<1>8. SubSeq(s, 1, num)[1] = s[1] /\ SubSeq(a, 1, num)[1] = a[1]
  BY <1>2, <1>4, <1>7, FrontPart
<1>9. a[1] = b[1]
  <2>1. s[1] = b[1]
    BY <1>2, <1>4
  <2>. QED
    BY <1>5, <1>6, <1>8, <2>1
<1>10. \A h \in Fields : Tag(h)[1] = Word(TagBytes[h])
  BY DEF Tag
<1>11. Word(TagBytes[f]) = Word(TagBytes[g])
  BY <1>1, <1>9, <1>10
<1>12. \A h \in Fields : Number(Word(TagBytes[h])) = TagBytes[h]
  <2>1. ASSUME NEW h \in Fields PROVE Number(Word(TagBytes[h])) = TagBytes[h]
    <3>1. PICK k \in Nat : k = TagBytes[h] /\ k < 256
      BY TagNumber
    <3>2. k <= PINBA_UDP_BUFFER_SIZE
      BY <3>1 DEF PINBA_UDP_BUFFER_SIZE
    <3>3. Number(Word(k)) = k
      BY <3>2, NumberOfWord
    <3>. QED
      BY <3>1, <3>3
  <2>. QED
    BY <2>1
<1>13. TagBytes[f] = TagBytes[g]
  BY <1>11, <1>12
<1>14. f = g
  <2>1. \A h \in Fields : WireType(h) \in 0 .. 5
    BY TypesAre DEF WireType
  <2>2. 8 * f + WireType(f) = 8 * g + WireType(g)
    BY <1>13, TagNumber
  <2>3. f \in Nat /\ g \in Nat
    BY FieldsAre
  <2>4. PICK x, y : x = WireType(f) /\ y = WireType(g)
    OBVIOUS
  <2>5. x \in 0 .. 5 /\ y \in 0 .. 5 /\ 8 * f + x = 8 * g + y
    BY <2>1, <2>2, <2>4
  <2>. QED
    BY <2>3, <2>5
<1>15. SubSeq(s, TagSize(g) + 1, Len(s)) = rest
  <2>1. PICK last : last = Len(s)
    OBVIOUS
  <2>2. SubSeq(b \o rest, Len(b) + 1, last) = rest
    BY <1>2, <1>4, <2>1, BackOfJoined
  <2>. QED
    BY <1>2, <1>3, <2>1, <2>2
<1>. QED
  BY <1>14, <1>15

(* What was read of a request when the values up to a place were. *)
Got(p) ==
  [g \in Fields |->
     IF g < p[2] THEN p[1][g]
     ELSE IF g = p[2] /\ p[3] > 0 THEN SubSeq(p[1][g], 1, p[3]) ELSE pinba__request__init[g]]

LEMMA GotIs ==
  ASSUME NEW m, NEW f, NEW e, NEW g \in Fields
  PROVE  Got(<<m, f, e>>)[g] =
           IF g < f THEN m[g]
           ELSE IF g = f /\ e > 0 THEN SubSeq(m[g], 1, e) ELSE pinba__request__init[g]
BY DEF Got

LEMMA SameGot ==
  ASSUME NEW p, NEW q, \A g \in Fields : Got(p)[g] = Got(q)[g]
  PROVE  Got(p) = Got(q)
<1>1. \A x : Got(x) = [g \in Fields |-> Got(x)[g]]
  BY DEF Got
<1>2. [g \in Fields |-> Got(p)[g]] = [g \in Fields |-> Got(q)[g]]
  OBVIOUS
<1>. QED
  BY <1>1, <1>2

(* All values of a field, or none. *)
LEMMA AllOfField ==
  ASSUME NEW m \in Messages, NEW g \in Fields
  PROVE  /\ Len(m[g]) \in Nat
         /\ Len(m[g]) > 0 => SubSeq(m[g], 1, Len(m[g])) = m[g]
         /\ Len(m[g]) = 0 => pinba__request__init[g] = m[g]
<1>1. m[g] \in Seq(ValuesOf(g)) /\ Len(m[g]) \in Nat
  BY MessagesAssumption, MessageParts
<1>2. SubSeq(m[g], 1, Len(m[g])) = m[g]
  BY <1>1, WholePart
<1>3. ASSUME Len(m[g]) = 0 PROVE pinba__request__init[g] = m[g]
  <2>1. g # 19
    <3>1. g = 19 => Len(m[g]) = 1
      BY MessagesAssumption
    <3>. QED
      BY <1>3, <3>1
  <2>2. pinba__request__init[g] = <<>>
    BY <2>1 DEF pinba__request__init
  <2>3. m[g] = <<>>
    BY <1>1, <1>3, EmptySeq
  <2>. QED
    BY <2>2, <2>3
<1>. QED
  BY <1>1, <1>2, <1>3

LEMMA GotNext ==
  ASSUME NEW m \in Messages, NEW f \in 1 .. 22
  PROVE  Got(<<m, f + 1, 0>>) = Got(<<m, f, Len(m[f])>>)
<1>1. PICK p, q : p = <<m, f + 1, 0>> /\ q = <<m, f, Len(m[f])>>
  OBVIOUS
<1>2. ASSUME NEW g \in Fields PROVE Got(p)[g] = Got(q)[g]
  <2>1. g \in 1 .. 23 /\ f \in Nat
    BY FieldsAre
  <2>2. /\ Len(m[g]) \in Nat
        /\ Len(m[g]) > 0 => SubSeq(m[g], 1, Len(m[g])) = m[g]
        /\ Len(m[g]) = 0 => pinba__request__init[g] = m[g]
    BY AllOfField
  <2>3. Got(p)[g] = IF g < f + 1 THEN m[g] ELSE pinba__request__init[g]
    BY <1>1, GotIs
  <2>4. Got(q)[g] = IF g < f THEN m[g]
                    ELSE IF g = f /\ Len(m[f]) > 0 THEN SubSeq(m[g], 1, Len(m[f]))
                    ELSE pinba__request__init[g]
    BY <1>1, GotIs
  <2>5. CASE g < f
    BY <2>1, <2>3, <2>4, <2>5
  <2>6. CASE g = f
    <3>1. g < f + 1 /\ ~ (g < f)
      BY <2>1, <2>6
    <3>2. Got(p)[g] = m[g]
      BY <2>3, <3>1
    <3>3. Got(q)[g] = IF Len(m[g]) > 0 THEN SubSeq(m[g], 1, Len(m[g])) ELSE pinba__request__init[g]
      BY <2>4, <2>6, <3>1
    <3>4. Len(m[g]) > 0 \/ Len(m[g]) = 0
      BY <2>2
    <3>. QED
      BY <2>2, <3>2, <3>3, <3>4
  <2>7. CASE g > f
    <3>1. ~ (g < f + 1) /\ ~ (g < f) /\ g # f
      BY <2>1, <2>7
    <3>. QED
      BY <2>3, <2>4, <3>1
  <2>. QED
    BY <2>1, <2>5, <2>6, <2>7
<1>. QED
  BY <1>1, <1>2, SameGot

LEMMA GotStart ==
  ASSUME NEW m
  PROVE  Got(<<m, 1, 0>>) = pinba__request__init
<1>1. PICK p : p = <<m, 1, 0>>
  OBVIOUS
<1>2. \A g \in Fields : Got(p)[g] = pinba__request__init[g]
  <2>1. ASSUME NEW g \in Fields PROVE Got(p)[g] = pinba__request__init[g]
    <3>1. ~ (g < 1)
      BY FieldsAre
    <3>. QED
      BY <1>1, <3>1, GotIs
  <2>. QED
    BY <2>1
<1>3. Got(p) = [g \in Fields |-> Got(p)[g]]
  BY DEF Got
<1>4. pinba__request__init = [g \in Fields |-> pinba__request__init[g]]
  BY DEF pinba__request__init
<1>. QED
  BY <1>1, <1>2, <1>3, <1>4

LEMMA GotWhole ==
  ASSUME NEW m \in Messages
  PROVE  Got(All(m)) = m
<1>1. PICK p : p = All(m)
  OBVIOUS
<1>2. ASSUME NEW g \in Fields PROVE Got(p)[g] = m[g]
  <2>1. g \in 1 .. 23
    BY FieldsAre
  <2>2. /\ Len(m[g]) \in Nat
        /\ Len(m[g]) > 0 => SubSeq(m[g], 1, Len(m[g])) = m[g]
        /\ Len(m[g]) = 0 => pinba__request__init[g] = m[g]
    BY AllOfField
  <2>3. Got(p)[g] = IF g < 23 THEN m[g]
                    ELSE IF g = 23 /\ Len(m[23]) > 0 THEN SubSeq(m[g], 1, Len(m[23]))
                    ELSE pinba__request__init[g]
    BY <1>1, GotIs DEF All
  <2>4. g < 23 \/ g = 23
    BY <2>1
  <2>5. CASE g = 23
    <3>1. Got(p)[g] = IF Len(m[g]) > 0 THEN SubSeq(m[g], 1, Len(m[g])) ELSE pinba__request__init[g]
      BY <2>3, <2>5
    <3>2. Len(m[g]) > 0 \/ Len(m[g]) = 0
      BY <2>2
    <3>. QED
      BY <2>2, <3>1, <3>2
  <2>. QED
    BY <2>3, <2>4, <2>5
<1>3. Got(p) = [g \in Fields |-> Got(p)[g]]
  BY DEF Got
<1>4. m = [g \in Fields |-> m[g]]
  BY MessagesAssumption
<1>. QED
  BY <1>1, <1>2, <1>3, <1>4

(* One more element of a sequence. *)
LEMMA OneMoreElement ==
  ASSUME NEW S, NEW s \in Seq(S), NEW e \in 1 .. Len(s)
  PROVE  /\ Append(SubSeq(s, 1, e - 1), s[e]) = SubSeq(s, 1, e)
         /\ e = 1 => Append(<<>>, s[e]) = SubSeq(s, 1, e) /\ <<s[e]>> = SubSeq(s, 1, e)
<1>1. Len(s) \in Nat /\ e \in Nat /\ e - 1 \in 0 .. Len(s) /\ e \in 0 .. Len(s) /\ s[e] \in S
  BY SeqParts
<1>2. PICK a, b : a = SubSeq(s, 1, e - 1) /\ b = SubSeq(s, 1, e)
  OBVIOUS
<1>3. a \in Seq(S) /\ Len(a) = e - 1 /\ \A k \in 1 .. e - 1 : a[k] = s[k]
  BY <1>1, <1>2, FrontPart
<1>4. b \in Seq(S) /\ Len(b) = e /\ \A k \in 1 .. e : b[k] = s[k]
  BY <1>1, <1>2, FrontPart
<1>5. PICK c : c = Append(a, s[e])
  OBVIOUS
<1>6. /\ c \in Seq(S) /\ Len(c) = Len(a) + 1 /\ c[Len(a) + 1] = s[e]
      /\ \A k \in 1 .. Len(a) : c[k] = a[k]
  BY <1>1, <1>3, <1>5, AppendProperties
<1>7. Len(c) = Len(b)
  BY <1>1, <1>3, <1>4, <1>6
<1>8. ASSUME NEW k \in 1 .. Len(c) PROVE c[k] = b[k]
  <2>1. k \in 1 .. e /\ (k \in 1 .. e - 1 \/ k = e)
    BY <1>1, <1>4, <1>7, <1>8
  <2>2. CASE k \in 1 .. e - 1
    BY <1>3, <1>4, <1>6, <2>1, <2>2
  <2>3. CASE k = e
    <3>1. Len(a) + 1 = e
      BY <1>1, <1>3
    <3>. QED
      BY <1>4, <1>6, <2>1, <2>3, <3>1
  <2>. QED
    BY <2>1, <2>2, <2>3
<1>9. c = b
  BY <1>4, <1>6, <1>7, <1>8, SameSeq
<1>10. ASSUME e = 1 PROVE a = <<>>
  BY <1>3, <1>10, EmptySeq
<1>11. Append(<<>>, s[e]) = <<s[e]>>
  BY <1>1
<1>. QED
  BY <1>2, <1>5, <1>9, <1>10, <1>11

(* A value is stored with those that were read before. *)
LEMMA GotStored ==
  ASSUME NEW m \in Messages, NEW f \in Fields, NEW e \in 1 .. Len(m[f])
  PROVE  Stored(Got(<<m, f, e - 1>>), f, m[f][e]) = Got(<<m, f, e>>)
<1>1. PICK p, q, v : p = <<m, f, e - 1>> /\ q = <<m, f, e>> /\ v = m[f][e]
  OBVIOUS
<1>2. m[f] \in Seq(ValuesOf(f)) /\ Len(m[f]) \in Nat
  BY MessagesAssumption, MessageParts
<1>3. PICK G, s : G = Got(p) /\ s = Stored(G, f, v)
  OBVIOUS
<1>4. G = [g \in Fields |-> G[g]]
  BY <1>3 DEF Got
<1>5. s = [g \in Fields |-> IF g = f
                            THEN IF Label(f) = "repeated" THEN Append(G[f], v) ELSE <<v>>
                            ELSE G[g]]
  BY <1>3, <1>4 DEF Stored
<1>6. e \in Nat /\ e > 0 /\ (e - 1 > 0 \/ e = 1)
  BY <1>2
<1>7. Got(q)[f] = SubSeq(m[f], 1, e)
  <2>1. f \in Nat
    BY FieldsAre
  <2>2. ~ (f < f)
    BY <2>1
  <2>. QED
    <3>1. Got(q)[f] = IF f < f THEN m[f]
                      ELSE IF f = f /\ e > 0 THEN SubSeq(m[f], 1, e) ELSE pinba__request__init[f]
      BY <1>1, GotIs
    <3>. QED
      BY <1>6, <2>2, <3>1
<1>8. /\ Append(SubSeq(m[f], 1, e - 1), v) = SubSeq(m[f], 1, e)
      /\ e = 1 => Append(<<>>, v) = SubSeq(m[f], 1, e) /\ <<v>> = SubSeq(m[f], 1, e)
  BY <1>1, <1>2, OneMoreElement
<1>9. G[f] = IF e - 1 > 0 THEN SubSeq(m[f], 1, e - 1) ELSE pinba__request__init[f]
  <2>1. f \in Nat
    BY FieldsAre
  <2>2. ~ (f < f)
    BY <2>1
  <2>. QED
    BY <1>1, <1>3, <2>2, GotIs
<1>10. s[f] = Got(q)[f]
  <2>1. CASE Label(f) = "repeated"
    <3>1. s[f] = Append(G[f], v)
      BY <1>5, <2>1
    <3>2. CASE e - 1 > 0
      BY <1>7, <1>8, <1>9, <3>1, <3>2
    <3>3. CASE e = 1
      <4>1. f # 19
        BY <2>1 DEF Label, Descriptor
      <4>2. pinba__request__init[f] = <<>>
        BY <4>1 DEF pinba__request__init
      <4>3. ~ (e - 1 > 0)
        BY <3>3
      <4>4. G[f] = <<>>
        BY <1>9, <4>2, <4>3
      <4>. QED
        BY <1>7, <1>8, <3>1, <3>3, <4>4
    <3>. QED
      BY <1>6, <3>2, <3>3
  <2>2. CASE Label(f) # "repeated"
    <3>1. Len(m[f]) <= 1
      <4>1. Label(f) = "required" => Len(m[f]) = 1
        BY MessagesAssumption
      <4>2. Label(f) = "optional" => Len(m[f]) <= 1
        BY MessagesAssumption
      <4>3. Label(f) = "required" \/ Label(f) = "optional"
        BY <2>2, TypesAre
      <4>4. PICK length \in Nat : length = Len(m[f])
        BY <1>2
      <4>5. length = 1 \/ length <= 1
        BY <4>1, <4>2, <4>3, <4>4
      <4>6. length <= 1
        BY <4>5
      <4>. QED
        BY <4>4, <4>6
    <3>2. e = 1
      BY <1>2, <3>1
    <3>3. s[f] = <<v>>
      BY <1>5, <2>2
    <3>. QED
      BY <1>7, <1>8, <3>2, <3>3
  <2>. QED
    BY <2>1, <2>2
<1>11. ASSUME NEW g \in Fields, g # f PROVE s[g] = Got(q)[g]
  <2>1. s[g] = G[g]
    BY <1>5, <1>11
  <2>2. G[g] = IF g < f THEN m[g] ELSE pinba__request__init[g]
    BY <1>1, <1>3, <1>11, GotIs
  <2>3. Got(q)[g] = IF g < f THEN m[g] ELSE pinba__request__init[g]
    BY <1>1, <1>11, GotIs
  <2>. QED
    BY <2>1, <2>2, <2>3
<1>12. s = [g \in Fields |-> s[g]]
  BY <1>5
<1>13. Got(q) = [g \in Fields |-> Got(q)[g]]
  BY DEF Got
<1>14. \A g \in Fields : s[g] = Got(q)[g]
  BY <1>10, <1>11
<1>15. s = Got(q)
  BY <1>12, <1>13, <1>14
<1>. QED
  BY <1>1, <1>3, <1>15

(* Two places between which there is nothing to read. *)
IsSamePlace(m, f, e, g, j) ==
  /\ Counted[<<m, f, e>>] = Counted[<<m, g, j>>]
  /\ Meant[<<m, f, e>>] = Meant[<<m, g, j>>]
  /\ Got(<<m, f, e>>) = Got(<<m, g, j>>)

(* The next value comes there, or there is none. *)
LEMMA NextValue ==
  ASSUME NEW m \in Messages, NEW f \in 1 .. 23, NEW e \in 0 .. Len(m[f])
  PROVE  \E g \in 1 .. 23 : \E j \in 0 .. Len(m[g]) :
           IsSamePlace(m, f, e, g, j) /\ (j < Len(m[g]) \/ <<m, g, j>> = All(m))
<1>. DEFINE T == {k \in Nat : \E g \in 1 .. 23 : \E j \in 0 .. Len(m[g]) :
                    k = 23 - g /\ IsSamePlace(m, f, e, g, j)}
<1>1. IsSamePlace(m, f, e, f, e)
  BY DEF IsSamePlace
<1>2. 23 - f \in T
  BY <1>1
<1>3. T \subseteq Nat /\ T # {}
  BY <1>2
<1>4. PICK least : least \in T /\ \A y \in T : least <= y
  <2>. HIDE DEF T
  <2>. QED
    BY <1>3, LeastNumber
<1>5. PICK g \in 1 .. 23 : \E j \in 0 .. Len(m[g]) : least = 23 - g /\ IsSamePlace(m, f, e, g, j)
  BY <1>4
<1>6. PICK j \in 0 .. Len(m[g]) : least = 23 - g /\ IsSamePlace(m, f, e, g, j)
  BY <1>5
<1>7. Len(m[g]) \in Nat
  BY MessageParts, FieldsAre
<1>8. ASSUME j = Len(m[g]), g # 23 PROVE FALSE
  <2>1. g \in 1 .. 22 /\ g + 1 \in 1 .. 23
    BY <1>8
  <2>2. /\ Counted[<<m, g + 1, 0>>] = Counted[<<m, g, Len(m[g])>>]
        /\ Meant[<<m, g + 1, 0>>] = Meant[<<m, g, Len(m[g])>>]
    BY <2>1, AtNext
  <2>3. Got(<<m, g + 1, 0>>) = Got(<<m, g, Len(m[g])>>)
    BY <2>1, GotNext
  <2>4. IsSamePlace(m, f, e, g + 1, 0)
    BY <1>6, <1>8, <2>2, <2>3 DEF IsSamePlace
  <2>5. PICK h : h = g + 1
    OBVIOUS
  <2>6. Len(m[h]) \in Nat
    BY <2>1, <2>5, MessageParts, FieldsAre
  <2>7. h \in 1 .. 23 /\ 0 \in 0 .. Len(m[h]) /\ IsSamePlace(m, f, e, h, 0) /\ 23 - h \in Nat
    BY <2>1, <2>4, <2>5, <2>6
  <2>8. 23 - h \in T
    BY <2>7
  <2>9. least <= 23 - h
    BY <1>4, <2>8
  <2>. QED
    BY <1>6, <2>1, <2>5, <2>9
<1>9. j < Len(m[g]) \/ <<m, g, j>> = All(m)
  BY <1>7, <1>8 DEF All
<1>. QED
  BY <1>6, <1>9
-----------------------------------------------------------------------------
(* The calls that read. *)

(* The bytes behind b, up to the last, are s. *)
IsPart(o, b, last, s) == SubSeq(o, b + 1, last) = s

(* The end of a part of a sequence. *)
LEMMA EndOfPart ==
  ASSUME NEW S, NEW o \in Seq(S), NEW b \in Nat, NEW last \in Nat, b <= last, last <= Len(o),
         NEW a \in Seq(S), NEW x \in Seq(S), NEW both, both = a \o x, IsPart(o, b, last, both),
         NEW mid2, mid2 = b + Len(a)
  PROVE  IsPart(o, mid2, last, x) /\ mid2 + Len(x) = last
<1>2. /\ Len(both) = Len(a) + Len(x) /\ Len(a) \in Nat /\ Len(x) \in Nat
      /\ \A k \in 1 .. Len(x) : both[k + Len(a)] = x[k]
  BY Joined
<1>3. b + 1 \in Nat \ {0} /\ b + 1 <= last + 1 /\ both = SubSeq(o, b + 1, last)
  <2>1. both = SubSeq(o, b + 1, last)
    BY DEF IsPart
  <2>2. b + 1 \in Nat \ {0} /\ b + 1 <= last + 1
    OBVIOUS
  <2>. QED
    BY <2>1, <2>2
<1>4. /\ Len(both) = last - (b + 1) + 1
      /\ \A k \in 1 .. Len(both) : both[k] = o[k + ((b + 1) - 1)]
  BY <1>3, PartOf
<1>5. mid2 + 1 \in Nat \ {0} /\ mid2 + 1 <= last + 1 /\ mid2 + Len(x) = last
  BY <1>2, <1>4
<1>6. PICK part : part = SubSeq(o, mid2 + 1, last)
  OBVIOUS
<1>7. /\ part \in Seq(S) /\ Len(part) = last - (mid2 + 1) + 1
      /\ \A k \in 1 .. Len(part) : part[k] = o[k + ((mid2 + 1) - 1)]
  BY <1>5, <1>6, PartOf
<1>8. Len(part) = Len(x)
  BY <1>2, <1>5, <1>7
<1>9. ASSUME NEW k \in 1 .. Len(part) PROVE part[k] = x[k]
  <2>1. /\ k \in 1 .. Len(x) /\ k + Len(a) \in 1 .. Len(both)
        /\ k + ((mid2 + 1) - 1) = (k + Len(a)) + ((b + 1) - 1)
    BY <1>2, <1>8
  <2>2. part[k] = o[k + ((mid2 + 1) - 1)]
    BY <1>7
  <2>3. both[k + Len(a)] = o[(k + Len(a)) + ((b + 1) - 1)]
    BY <1>4, <2>1
  <2>4. both[k + Len(a)] = x[k]
    BY <1>2, <2>1
  <2>. QED
    BY <2>1, <2>2, <2>3, <2>4
<1>10. part = x
  BY <1>7, <1>8, <1>9, SameSeq
<1>. QED
  BY <1>5, <1>6, <1>10 DEF IsPart

(* Call c reads a request r.message, which begins behind r.base of the bytes *)
(* o, and has come to its field r.field and as many values as r.index.       *)
IsReadCall(o, c, r) ==
  /\ IsAt(r)
  /\ r.base \in Nat
  /\ c.buffer_end = r.base + Counted[All(r.message)]
  /\ c.buffer_end <= Len(o)
  /\ c.buffer = r.base + Counted[<<r.message, r.field, r.index>>]
  /\ SubSeq(o, r.base + 1, c.buffer_end) = Meant[All(r.message)]
  /\ c = [message |-> c.message, buffer |-> c.buffer, buffer_end |-> c.buffer_end]

(* It has stored what comes before, and so many values of the field. *)
HasGot(c, r, e) == c.message = Got(<<r.message, r.field, e>>)

Mark(m, f, e, b) == [message |-> m, field |-> f, index |-> e, base |-> b]

LEMMA MarkIs ==
  ASSUME NEW m, NEW f, NEW e, NEW b
  PROVE  /\ Mark(m, f, e, b).message = m /\ Mark(m, f, e, b).field = f
         /\ Mark(m, f, e, b).index = e /\ Mark(m, f, e, b).base = b
BY DEF Mark

(* A call that is to go on has a value to read, or none at all. *)
LEMMA GoesOn ==
  ASSUME NEW o, NEW c, NEW r, IsReadCall(o, c, r), HasGot(c, r, r.index)
  PROVE  \E g \in 1 .. 23 : \E j \in 0 .. Len(r.message[g]) :
           LET q == Mark(r.message, g, j, r.base)
           IN  /\ IsReadCall(o, c, q) /\ HasGot(c, q, j)
               /\ j < Len(r.message[g]) \/ <<r.message, g, j>> = All(r.message)
<1>1. PICK m, f, e : m = r.message /\ f = r.field /\ e = r.index
  OBVIOUS
<1>2. m \in Messages /\ f \in 1 .. 23 /\ e \in 0 .. Len(m[f])
  BY <1>1 DEF IsReadCall, IsAt
<1>3. PICK g \in 1 .. 23 : \E j \in 0 .. Len(m[g]) :
        IsSamePlace(m, f, e, g, j) /\ (j < Len(m[g]) \/ <<m, g, j>> = All(m))
  BY <1>2, NextValue
<1>4. PICK j \in 0 .. Len(m[g]) :
        IsSamePlace(m, f, e, g, j) /\ (j < Len(m[g]) \/ <<m, g, j>> = All(m))
  BY <1>3
<1>5. PICK q : q = Mark(m, g, j, r.base)
  OBVIOUS
<1>6. q.message = m /\ q.field = g /\ q.index = j /\ q.base = r.base
  BY <1>5, MarkIs
<1>7. IsAt(q)
  BY <1>2, <1>4, <1>6 DEF IsAt
<1>8. Counted[<<q.message, q.field, q.index>>] = Counted[<<r.message, r.field, r.index>>]
  BY <1>1, <1>4, <1>6 DEF IsSamePlace
<1>9. IsReadCall(o, c, q)
  BY <1>1, <1>6, <1>7, <1>8 DEF IsReadCall
<1>10. HasGot(c, q, j)
  BY <1>1, <1>4, <1>6 DEF HasGot, IsSamePlace
<1>. QED
  BY <1>1, <1>4, <1>5, <1>9, <1>10

(* What a call has not read yet starts with the next value. *)
ComesNext(o, c, g, w) ==
  \E rest \in Seq(Bytes8) : SubSeq(o, c.buffer + 1, c.buffer_end) = Tag(g) \o (w \o rest)

LEMMA UnreadIs ==
  ASSUME NEW o \in Seq(Bytes8), NEW c, NEW q, IsReadCall(o, c, q), NEW m, NEW g, NEW e,
         m = q.message, g = q.field, e = q.index + 1, e <= Len(m[g])
  PROVE  /\ m \in Messages /\ g \in 1 .. 23 /\ e \in 1 .. Len(m[g]) /\ e - 1 = q.index
         /\ Written(g, m[g][e]) \in Seq(Bytes8)
         /\ Counted[<<m, g, e>>]
              = Counted[<<m, g, q.index>>] + (TagSize(g) + Len(Written(g, m[g][e])))
         /\ Counted[<<m, g, e>>] <= Counted[All(m)]
         /\ ComesNext(o, c, g, Written(g, m[g][e]))
<1>1. m \in Messages /\ g \in 1 .. 23 /\ q.index \in 0 .. Len(m[g])
  BY DEF IsReadCall, IsAt
<1>2. Len(m[g]) \in Nat
  BY <1>1, MessageParts, FieldsAre
<1>3. e \in 1 .. Len(m[g]) /\ e - 1 = q.index /\ e \in 0 .. Len(m[g])
  BY <1>1, <1>2
<1>4. PICK A, W, T : A = Meant[<<m, g, e - 1>>] /\ W = Written(g, m[g][e]) /\ T = Tag(g)
  OBVIOUS
<1>5. /\ Meant[<<m, g, e>>] = A \o (T \o W) /\ A \in Seq(Bytes8)
      /\ Counted[<<m, g, e>>] = Counted[<<m, g, e - 1>>] + (TagSize(g) + Len(W))
  BY <1>1, <1>3, <1>4, OneMore
<1>6. W \in Seq(Bytes8) /\ T \in Seq(Bytes8)
  BY <1>1, <1>3, <1>4, WrittenType, TagIs, FieldsAre
<1>7. PICK rest \in Seq(Bytes8) : Meant[All(m)] = (A \o (T \o W)) \o rest
  BY <1>1, <1>3, <1>5, WholeStarts DEF StartsWith
<1>8. PICK X : X = T \o (W \o rest)
  OBVIOUS
<1>9. X \in Seq(Bytes8)
  BY <1>6, <1>8, BytesJoined
<1>10. Meant[All(m)] = A \o X
  <2>1. T \o W \in Seq(Bytes8)
    BY <1>6, BytesJoined
  <2>2. PICK both : both = T \o W
    OBVIOUS
  <2>3. both \in Seq(Bytes8) /\ A \in Seq(Bytes8)
    BY <1>5, <2>1, <2>2
  <2>4. (A \o both) \o rest = A \o (both \o rest)
    BY <2>3, JoinedThree
  <2>5. (T \o W) \o rest = T \o (W \o rest)
    BY <1>6, JoinedThree
  <2>6. Meant[All(m)] = (A \o both) \o rest
    BY <1>7, <2>2
  <2>7. X = both \o rest
    BY <1>8, <2>2, <2>5
  <2>. QED
    BY <2>4, <2>6, <2>7
<1>11. Len(A) = Counted[<<m, g, e - 1>>]
  <2>1. e - 1 \in Nat
    BY <1>3
  <2>. QED
    BY <1>1, <1>4, <2>1, PlaceAgrees
<1>12. PICK b \in Nat : b = q.base
  BY DEF IsReadCall
<1>13. /\ c.buffer_end = b + Counted[All(m)] /\ c.buffer_end <= Len(o)
       /\ c.buffer = b + Len(A) /\ SubSeq(o, b + 1, c.buffer_end) = A \o X
  BY <1>3, <1>10, <1>11, <1>12 DEF IsReadCall
<1>14. Counted[All(m)] \in Nat
  BY <1>1, WholeAgrees
<1>15. PICK last, mid2 : last = c.buffer_end /\ mid2 = c.buffer
  OBVIOUS
<1>16. last \in Nat /\ b <= last /\ last <= Len(o) /\ mid2 = b + Len(A)
  <2>1. PICK all \in Nat : all = Counted[All(m)]
    BY <1>14
  <2>. QED
    BY <1>13, <1>15, <2>1
<1>17. SubSeq(o, mid2 + 1, last) = X
  <2>1. PICK both : both = A \o X
    OBVIOUS
  <2>2. IsPart(o, b, last, both)
    BY <1>13, <1>15, <2>1 DEF IsPart
  <2>3. A \in Seq(Bytes8)
    BY <1>5
  <2>4. IsPart(o, mid2, last, X)
    BY <1>9, <1>16, <2>1, <2>2, <2>3, EndOfPart
  <2>. QED
    BY <2>4 DEF IsPart
<1>18. Counted[<<m, g, e>>] <= Counted[All(m)]
  BY <1>1, <1>3, WholeCounts
<1>19. ComesNext(o, c, g, W)
  BY <1>4, <1>8, <1>15, <1>17 DEF ComesNext
<1>. QED
  BY <1>1, <1>3, <1>4, <1>5, <1>6, <1>18, <1>19

(* Each call reads a request; at[k] says which, and how far call k has come. *)
(* A call that waits for another one has still to store what that one reads. *)
IsReadChain(at) ==
  /\ Depth \in Nat \ {0}
  /\ stack = [k \in 1 .. Depth |-> stack[k]]
  /\ at[1].message = message
  /\ \A k \in 1 .. Depth : IsReadCall(out, stack[k], at[k])
  /\ \A k \in 1 .. Depth - 1 : Nests(at[k], at[k + 1]) /\ HasGot(stack[k], at[k], at[k].index - 1)
  /\ HasGot(stack[Depth], at[Depth], at[Depth].index)

IsReading ==
  /\ message \in Messages
  /\ out \in Seq(Bytes8)
  /\ \E at : IsReadChain(at)

(* The call on top goes on. *)
LEMMA ReadTopChanges ==
  ASSUME IsReading, NEW at, IsReadChain(at), message' = message, out' = out, NEW d, NEW q,
         stack' = [stack EXCEPT ![Depth] = d],
         IsReadCall(out, d, q), HasGot(d, q, q.index), q.message = at[Depth].message
  PROVE  IsReading'
<1>1. PICK depth : depth = Depth
  OBVIOUS
<1>2. depth \in Nat \ {0} /\ depth \in 1 .. depth
  BY <1>1 DEF IsReadChain
<1>3. /\ Depth' = depth
      /\ stack' = [k \in 1 .. Depth' |-> stack'[k]]
      /\ stack'[depth] = d
      /\ \A k \in 1 .. depth : k # depth => stack'[k] = stack[k]
  BY <1>1, StackChanged DEF IsReadChain
<1>4. PICK now : now = [k \in 1 .. depth |-> IF k = depth THEN q ELSE at[k]]
  OBVIOUS
<1>5. /\ now[depth] = q /\ \A k \in 1 .. depth : k # depth => now[k] = at[k]
      /\ \A k \in 1 .. depth : now[k].message = at[k].message
  BY <1>1, <1>2, <1>4
<1>6. \A k \in 1 .. depth : IsReadCall(out, stack'[k], now[k])
  <2>1. ASSUME NEW k \in 1 .. depth PROVE IsReadCall(out, stack'[k], now[k])
    <3>1. CASE k = depth
      BY <1>3, <1>5, <3>1
    <3>2. CASE k # depth
      <4>1. IsReadCall(out, stack[k], at[k])
        BY <1>1 DEF IsReadChain
      <4>. QED
        BY <1>3, <1>5, <3>2, <4>1
    <3>. QED
      BY <3>1, <3>2
  <2>. QED
    BY <2>1
<1>7. \A k \in 1 .. depth - 1 : Nests(now[k], now[k + 1]) /\ HasGot(stack'[k], now[k], now[k].index - 1)
  <2>1. ASSUME NEW k \in 1 .. depth - 1
        PROVE  Nests(now[k], now[k + 1]) /\ HasGot(stack'[k], now[k], now[k].index - 1)
    <3>1. k \in 1 .. depth /\ k + 1 \in 1 .. depth /\ k # depth
      BY <1>2
    <3>2. Nests(at[k], at[k + 1]) /\ HasGot(stack[k], at[k], at[k].index - 1)
      BY <1>1 DEF IsReadChain
    <3>3. now[k] = at[k] /\ stack'[k] = stack[k] /\ now[k + 1].message = at[k + 1].message
      BY <1>3, <1>5, <3>1
    <3>4. Nests(now[k], now[k + 1])
      BY <3>2, <3>3 DEF Nests
    <3>. QED
      BY <3>2, <3>3, <3>4
  <2>. QED
    BY <2>1
<1>8. now[1].message = message
  BY <1>2, <1>5 DEF IsReadChain
<1>9. HasGot(stack'[depth], now[depth], now[depth].index)
  BY <1>3, <1>5
<1>10. IsReadChain(now)'
  BY <1>2, <1>3, <1>6, <1>7, <1>8, <1>9 DEF IsReadChain
<1>. QED
  BY <1>10 DEF IsReading

(* It comes to a nested request, and another call reads that. *)
LEMMA ReadPushes ==
  ASSUME IsReading, NEW at, IsReadChain(at), message' = message, out' = out,
         NEW c, NEW q, NEW d, NEW z,
         stack' = Append([stack EXCEPT ![Depth] = c], d),
         IsReadCall(out, c, q), HasGot(c, q, q.index - 1), q.message = at[Depth].message,
         IsReadCall(out, d, z), HasGot(d, z, z.index), Nests(q, z)
  PROVE  IsReading'
<1>1. PICK depth : depth = Depth
  OBVIOUS
<1>2. depth \in Nat \ {0} /\ depth \in 1 .. depth
  BY <1>1 DEF IsReadChain
<1>3. /\ Depth' = depth + 1
      /\ stack' = [k \in 1 .. Depth' |-> stack'[k]]
      /\ stack'[depth] = c /\ stack'[depth + 1] = d
      /\ \A k \in 1 .. depth : k # depth => stack'[k] = stack[k]
  BY <1>1, StackPushed DEF IsReadChain
<1>4. PICK now : now = [k \in 1 .. depth + 1 |->
                          IF k = depth + 1 THEN z ELSE IF k = depth THEN q ELSE at[k]]
  OBVIOUS
<1>5. /\ now[depth + 1] = z /\ now[depth] = q
      /\ \A k \in 1 .. depth : k # depth => now[k] = at[k]
      /\ \A k \in 1 .. depth : now[k].message = at[k].message
  <2>1. \A k \in 1 .. depth : k \in 1 .. depth + 1 /\ k # depth + 1
    BY <1>2
  <2>2. depth + 1 \in 1 .. depth + 1
    BY <1>2
  <2>3. now[depth + 1] = z
    BY <1>4, <2>2
  <2>4. \A k \in 1 .. depth : now[k] = IF k = depth THEN q ELSE at[k]
    BY <1>4, <2>1
  <2>. QED
    BY <1>1, <1>2, <2>3, <2>4
<1>6. \A k \in 1 .. depth + 1 : IsReadCall(out, stack'[k], now[k])
  <2>1. ASSUME NEW k \in 1 .. depth + 1 PROVE IsReadCall(out, stack'[k], now[k])
    <3>1. k = depth + 1 \/ k = depth \/ (k \in 1 .. depth /\ k # depth)
      BY <1>2
    <3>2. CASE k = depth + 1
      BY <1>3, <1>5, <3>2
    <3>3. CASE k = depth
      BY <1>3, <1>5, <3>3
    <3>4. CASE k \in 1 .. depth /\ k # depth
      <4>1. IsReadCall(out, stack[k], at[k])
        BY <1>1, <3>4 DEF IsReadChain
      <4>. QED
        BY <1>3, <1>5, <3>4, <4>1
    <3>. QED
      BY <3>1, <3>2, <3>3, <3>4
  <2>. QED
    BY <2>1
<1>7. \A k \in 1 .. depth : Nests(now[k], now[k + 1]) /\ HasGot(stack'[k], now[k], now[k].index - 1)
  <2>1. ASSUME NEW k \in 1 .. depth
        PROVE  Nests(now[k], now[k + 1]) /\ HasGot(stack'[k], now[k], now[k].index - 1)
    <3>1. CASE k = depth
      <4>1. now[k] = q /\ now[k + 1] = z /\ stack'[k] = c
        BY <1>3, <1>5, <3>1
      <4>. QED
        BY <4>1
    <3>2. CASE k # depth
      <4>1. k \in 1 .. depth - 1 /\ k + 1 \in 1 .. depth
        BY <1>2, <3>2
      <4>2. Nests(at[k], at[k + 1]) /\ HasGot(stack[k], at[k], at[k].index - 1)
        BY <1>1, <4>1 DEF IsReadChain
      <4>3. now[k] = at[k] /\ stack'[k] = stack[k] /\ now[k + 1].message = at[k + 1].message
        BY <1>3, <1>5, <3>2, <4>1
      <4>4. Nests(now[k], now[k + 1])
        BY <4>2, <4>3 DEF Nests
      <4>. QED
        BY <4>2, <4>3, <4>4
    <3>. QED
      BY <3>1, <3>2
  <2>. QED
    BY <2>1
<1>8. now[1].message = message
  BY <1>2, <1>5 DEF IsReadChain
<1>9. HasGot(stack'[depth + 1], now[depth + 1], now[depth + 1].index)
  BY <1>3, <1>5
<1>10. (depth + 1) - 1 = depth /\ depth + 1 \in Nat \ {0}
  BY <1>2
<1>11. \A k \in 1 .. Depth' - 1 : Nests(now[k], now[k + 1]) /\ HasGot(stack'[k], now[k], now[k].index - 1)
  BY <1>3, <1>7, <1>10
<1>12. IsReadChain(now)'
  BY <1>3, <1>6, <1>8, <1>9, <1>10, <1>11 DEF IsReadChain
<1>. QED
  BY <1>12 DEF IsReading

(* It returns, and its caller stores what it has read. *)
LEMMA ReadPops ==
  ASSUME IsReading, NEW at, IsReadChain(at), message' = message, out' = out, Depth > 1,
         NEW c, stack' = [Front(stack) EXCEPT ![Depth - 1] = c],
         IsReadCall(out, c, at[Depth - 1]), HasGot(c, at[Depth - 1], at[Depth - 1].index)
  PROVE  IsReading'
<1>1. PICK depth : depth = Depth
  OBVIOUS
<1>2. depth \in Nat \ {0} /\ depth > 1
  BY <1>1 DEF IsReadChain
<1>3. PICK below \in Nat \ {0} : below = depth - 1
  BY <1>2
<1>4. /\ Depth' = below
      /\ stack' = [k \in 1 .. Depth' |-> stack'[k]]
      /\ stack'[below] = c
      /\ \A k \in 1 .. below : k # below => stack'[k] = stack[k]
  BY <1>1, <1>2, <1>3, StackPopped DEF IsReadChain
<1>5. \A k \in 1 .. below : IsReadCall(out, stack'[k], at[k])
  <2>1. ASSUME NEW k \in 1 .. below PROVE IsReadCall(out, stack'[k], at[k])
    <3>1. CASE k = below
      BY <1>1, <1>3, <1>4, <3>1
    <3>2. CASE k # below
      <4>1. k \in 1 .. depth
        BY <1>2, <1>3
      <4>2. IsReadCall(out, stack[k], at[k])
        BY <1>1, <4>1 DEF IsReadChain
      <4>. QED
        BY <1>4, <3>2, <4>2
    <3>. QED
      BY <3>1, <3>2
  <2>. QED
    BY <2>1
<1>6. \A k \in 1 .. below - 1 : Nests(at[k], at[k + 1]) /\ HasGot(stack'[k], at[k], at[k].index - 1)
  <2>1. ASSUME NEW k \in 1 .. below - 1
        PROVE  Nests(at[k], at[k + 1]) /\ HasGot(stack'[k], at[k], at[k].index - 1)
    <3>1. k \in 1 .. depth - 1 /\ k \in 1 .. below /\ k # below
      BY <1>2, <1>3
    <3>2. Nests(at[k], at[k + 1]) /\ HasGot(stack[k], at[k], at[k].index - 1)
      BY <1>1, <3>1 DEF IsReadChain
    <3>. QED
      BY <1>4, <3>1, <3>2
  <2>. QED
    BY <2>1
<1>7. HasGot(stack'[below], at[below], at[below].index)
  BY <1>1, <1>3, <1>4
<1>8. at[1].message = message
  BY DEF IsReadChain
<1>9. IsReadChain(at)'
  BY <1>4, <1>5, <1>6, <1>7, <1>8 DEF IsReadChain
<1>. QED
  BY <1>9 DEF IsReading

LEMMA ReadTop ==
  ASSUME IsReading, NEW at, IsReadChain(at)
  PROVE  /\ IsReadCall(out, Top, at[Depth]) /\ HasGot(Top, at[Depth], at[Depth].index)
         /\ Depth \in Nat \ {0} /\ Depth \in 1 .. Depth
         /\ out \in Seq(Bytes8) /\ stack = [k \in 1 .. Depth |-> stack[k]]
<1>1. Depth \in Nat \ {0}
  BY DEF IsReadChain
<1>2. Depth \in 1 .. Depth
  BY <1>1
<1>3. IsReadCall(out, stack[Depth], at[Depth]) /\ HasGot(stack[Depth], at[Depth], at[Depth].index)
  BY <1>2 DEF IsReadChain
<1>4. out \in Seq(Bytes8) /\ stack = [k \in 1 .. Depth |-> stack[k]]
  BY DEF IsReading, IsReadChain
<1>. QED
  BY <1>1, <1>2, <1>3, <1>4 DEF Top

(* One more value is read. *)
LEMMA ReadOneMore ==
  ASSUME NEW o \in Seq(Bytes8), NEW c, NEW q, IsReadCall(o, c, q), NEW m, NEW g, NEW e,
         m = q.message, g = q.field, e = q.index + 1, e <= Len(m[g]),
         NEW x, NEW to, to = c.buffer + (TagSize(g) + Len(Written(g, m[g][e]))),
         NEW d, d = [message |-> x, buffer |-> to, buffer_end |-> c.buffer_end],
         NEW z, z = Mark(m, g, e, q.base)
  PROVE  /\ IsReadCall(o, d, z)
         /\ z.message = m /\ z.field = g /\ z.index = e /\ z.base = q.base
<1>1. /\ m \in Messages /\ g \in 1 .. 23 /\ e \in 1 .. Len(m[g]) /\ e - 1 = q.index
      /\ Written(g, m[g][e]) \in Seq(Bytes8)
      /\ Counted[<<m, g, e>>]
           = Counted[<<m, g, q.index>>] + (TagSize(g) + Len(Written(g, m[g][e])))
  <2>1. m \in Messages
    BY UnreadIs
  <2>2. g \in 1 .. 23
    BY UnreadIs
  <2>3. e \in 1 .. Len(m[g])
    BY UnreadIs
  <2>4. e - 1 = q.index
    <3>1. PICK k \in Int : k = q.index
      BY DEF IsReadCall, IsAt
    <3>2. e = k + 1
      BY <3>1
    <3>. QED
      BY <3>1, <3>2
  <2>5. Written(g, m[g][e]) \in Seq(Bytes8)
    BY UnreadIs
  <2>6. Counted[<<m, g, e>>]
          = Counted[<<m, g, q.index>>] + (TagSize(g) + Len(Written(g, m[g][e])))
    BY UnreadIs
  <2>. QED
    BY <2>1, <2>2, <2>3, <2>4, <2>5, <2>6
<1>2. z.message = m /\ z.field = g /\ z.index = e /\ z.base = q.base
  BY MarkIs
<1>3. e \in 0 .. Len(m[g])
  BY <1>1
<1>4. IsAt(z)
  BY <1>1, <1>2, <1>3 DEF IsAt
<1>5. /\ q.base \in Nat /\ c.buffer_end = q.base + Counted[All(m)] /\ c.buffer_end <= Len(o)
      /\ c.buffer = q.base + Counted[<<m, g, q.index>>]
      /\ SubSeq(o, q.base + 1, c.buffer_end) = Meant[All(m)]
  BY DEF IsReadCall
<1>6. d.buffer_end = c.buffer_end /\ d.buffer = to /\ d.message = x
  OBVIOUS
<1>7. to = q.base + Counted[<<m, g, e>>]
  <2>1. PICK b, was, more : b = q.base /\ was = Counted[<<m, g, q.index>>]
          /\ more = TagSize(g) + Len(Written(g, m[g][e]))
    OBVIOUS
  <2>2. was \in Nat
    <3>1. q.index \in Nat
      BY <1>1
    <3>. QED
      BY <1>1, <2>1, <3>1, PlaceAgrees
  <2>3. more \in Nat
    <3>1. TagSize(g) \in Nat
      BY DEF TagSize
    <3>2. Len(Written(g, m[g][e])) \in Nat
      BY <1>1, LenProperties
    <3>. QED
      BY <2>1, <3>1, <3>2
  <2>4. b \in Nat /\ to = (b + was) + more /\ Counted[<<m, g, e>>] = was + more
    BY <1>1, <1>5, <2>1
  <2>. QED
    BY <2>1, <2>2, <2>3, <2>4
<1>8. d = [message |-> d.message, buffer |-> d.buffer, buffer_end |-> d.buffer_end]
  BY <1>6
<1>9. IsReadCall(o, d, z)
  BY <1>2, <1>4, <1>5, <1>6, <1>7, <1>8 DEF IsReadCall
<1>. QED
  BY <1>2, <1>9

(* A call that has come to the end of its request has read all of it, and    *)
(* one that has not, not.                                                    *)
LEMMA ReadToTheEnd ==
  ASSUME NEW o \in Seq(Bytes8), NEW c, NEW q, IsReadCall(o, c, q)
  PROVE  /\ <<q.message, q.field, q.index>> = All(q.message) =>
              c.buffer = c.buffer_end /\ SubSeq(o, c.buffer + 1, c.buffer_end) = <<>>
         /\ q.index < Len(q.message[q.field]) => c.buffer # c.buffer_end
<1>1. PICK m, g : m = q.message /\ g = q.field
  OBVIOUS
<1>2. m \in Messages /\ g \in 1 .. 23 /\ q.index \in 0 .. Len(m[g])
  BY <1>1 DEF IsReadCall, IsAt
<1>3. PICK b \in Nat : b = q.base
  BY DEF IsReadCall
<1>4. /\ c.buffer_end = b + Counted[All(m)] /\ c.buffer_end <= Len(o)
      /\ c.buffer = b + Counted[<<m, g, q.index>>]
  BY <1>1, <1>3 DEF IsReadCall
<1>5. Counted[All(m)] \in Nat
  BY <1>2, WholeAgrees
<1>6. ASSUME <<q.message, q.field, q.index>> = All(q.message)
      PROVE  c.buffer = c.buffer_end /\ SubSeq(o, c.buffer + 1, c.buffer_end) = <<>>
  <2>1. c.buffer = c.buffer_end
    BY <1>1, <1>4, <1>6
  <2>2. PICK last \in Nat : last = c.buffer_end
    BY <1>4, <1>5
  <2>3. PICK part : part = SubSeq(o, last + 1, last)
    OBVIOUS
  <2>4. last + 1 \in Nat \ {0} /\ last + 1 <= last + 1 /\ last <= Len(o)
    BY <1>4, <2>2
  <2>5. part \in Seq(Bytes8) /\ Len(part) = last - (last + 1) + 1
    BY <2>3, <2>4, PartOf
  <2>6. part = <<>>
    BY <2>5, EmptySeq
  <2>. QED
    BY <2>1, <2>2, <2>3, <2>6
<1>7. ASSUME q.index < Len(q.message[q.field])
      PROVE  c.buffer # c.buffer_end
  <2>1. PICK e : e = q.index + 1
    OBVIOUS
  <2>2. Len(m[g]) \in Nat
    BY <1>2, MessageParts, FieldsAre
  <2>3. e <= Len(m[g])
    BY <1>1, <1>2, <1>7, <2>1, <2>2
  <2>4. /\ Written(g, m[g][e]) \in Seq(Bytes8)
        /\ Counted[<<m, g, e>>]
             = Counted[<<m, g, q.index>>] + (TagSize(g) + Len(Written(g, m[g][e])))
        /\ Counted[<<m, g, e>>] <= Counted[All(m)]
    <3>1. m = q.message /\ g = q.field /\ e = q.index + 1 /\ e <= Len(m[g])
      BY <1>1, <2>1, <2>3
    <3>2. Written(g, m[g][e]) \in Seq(Bytes8)
      BY <3>1, UnreadIs
    <3>3. Counted[<<m, g, e>>]
            = Counted[<<m, g, q.index>>] + (TagSize(g) + Len(Written(g, m[g][e])))
      BY <3>1, UnreadIs
    <3>4. Counted[<<m, g, e>>] <= Counted[All(m)]
      BY <3>1, UnreadIs
    <3>. QED
      BY <3>2, <3>3, <3>4
  <2>5. PICK was, size, length, all : was = Counted[<<m, g, q.index>>] /\ size = TagSize(g)
          /\ length = Len(Written(g, m[g][e])) /\ all = Counted[All(m)]
    OBVIOUS
  <2>6. size \in 1 .. 2 /\ length \in Nat
    BY <2>4, <2>5, LenProperties DEF TagSize
  <2>7. was \in Nat
    <3>1. q.index \in Nat
      BY <1>2
    <3>. QED
      BY <1>2, <2>5, <3>1, PlaceAgrees
  <2>8. was + (size + length) <= all /\ all \in Nat
    BY <1>5, <2>4, <2>5
  <2>9. b + was # b + all
    BY <2>6, <2>7, <2>8
  <2>. QED
    BY <1>4, <2>5, <2>9
<1>. QED
  BY <1>6, <1>7

(* Field f comes next in the bytes, with the value that q is before. *)
IsAhead(q, f) ==
  /\ IsReadCall(out, Top, q) /\ HasGot(Top, q, q.index)
  /\ q.field = f /\ q.index < Len(q.message[f])
  /\ StartsWith(Behind(f), Written(f, q.message[f][q.index + 1]))

LEMMA NextIsRead ==
  ASSUME IsReading, NEW at, IsReadChain(at), NEW f \in Fields, IsPrefix(Tag(f), Unread)
  PROVE  \E q : IsAhead(q, f) /\ q.message = at[Depth].message
<1>1. /\ IsReadCall(out, Top, at[Depth]) /\ HasGot(Top, at[Depth], at[Depth].index)
      /\ out \in Seq(Bytes8)
  BY ReadTop
<1>2. PICK r : r = at[Depth]
  OBVIOUS
<1>3. PICK g \in 1 .. 23 : \E j \in 0 .. Len(r.message[g]) :
        LET q == Mark(r.message, g, j, r.base)
        IN  /\ IsReadCall(out, Top, q) /\ HasGot(Top, q, j)
            /\ j < Len(r.message[g]) \/ <<r.message, g, j>> = All(r.message)
  BY <1>1, <1>2, GoesOn
<1>4. PICK j \in 0 .. Len(r.message[g]) :
        LET q == Mark(r.message, g, j, r.base)
        IN  /\ IsReadCall(out, Top, q) /\ HasGot(Top, q, j)
            /\ j < Len(r.message[g]) \/ <<r.message, g, j>> = All(r.message)
  BY <1>3
<1>5. PICK q : q = Mark(r.message, g, j, r.base)
  OBVIOUS
<1>6. q.message = r.message /\ q.field = g /\ q.index = j
  BY <1>5, MarkIs
<1>7. /\ IsReadCall(out, Top, q) /\ HasGot(Top, q, j)
      /\ j < Len(r.message[g]) \/ <<r.message, g, j>> = All(r.message)
  BY <1>4, <1>5
<1>8. PICK s, tag : s = Unread /\ tag = Tag(f)
  OBVIOUS
<1>9. tag \in Seq(Bytes8) /\ Len(tag) \in 1 .. 2
  BY <1>8, TagIs
<1>10. j < Len(r.message[g])
  <2>1. ASSUME <<r.message, g, j>> = All(r.message) PROVE FALSE
    <3>1. <<q.message, q.field, q.index>> = All(q.message)
      BY <1>6, <2>1
    <3>2. SubSeq(out, Top.buffer + 1, Top.buffer_end) = <<>>
      BY <1>1, <1>7, <3>1, ReadToTheEnd
    <3>3. s = <<>>
      BY <1>8, <3>2 DEF Unread
    <3>4. Len(s) = 0
      BY <3>3
    <3>5. Len(tag) <= Len(s)
      BY <1>8 DEF IsPrefix
    <3>6. PICK num : num = Len(tag)
      OBVIOUS
    <3>7. num \in 1 .. 2 /\ num <= 0
      BY <1>9, <3>4, <3>5, <3>6
    <3>. QED
      BY <3>7
  <2>. QED
    BY <1>7, <2>1
<1>11. PICK m, e : m = q.message /\ e = q.index + 1
  OBVIOUS
<1>12. m = q.message /\ g = q.field /\ e = q.index + 1 /\ e <= Len(m[g])
  <2>1. r.message \in Messages
    BY <1>1, <1>2 DEF IsReadCall, IsAt
  <2>2. Len(m[g]) \in Nat
    BY <1>6, <1>11, <2>1, MessageParts, FieldsAre
  <2>. QED
    BY <1>6, <1>10, <1>11, <2>2
<1>13. Written(g, m[g][e]) \in Seq(Bytes8)
  BY <1>1, <1>7, <1>12, UnreadIs
<1>14. PICK rest \in Seq(Bytes8) :
         SubSeq(out, Top.buffer + 1, Top.buffer_end) = Tag(g) \o (Written(g, m[g][e]) \o rest)
  <2>1. PICK o \in Seq(Bytes8) : o = out
    BY <1>1
  <2>2. PICK c : c = Top
    OBVIOUS
  <2>3. IsReadCall(o, c, q)
    BY <1>7, <2>1, <2>2
  <2>4. ComesNext(o, c, g, Written(g, m[g][e]))
    BY <1>12, <2>3, UnreadIs
  <2>. QED
    BY <2>1, <2>2, <2>4 DEF ComesNext
<1>15. PICK w : w = Written(g, m[g][e])
  OBVIOUS
<1>16. PICK more : more = w \o rest
  OBVIOUS
<1>17. more \in Seq(Bytes8)
  BY <1>13, <1>15, <1>16, BytesJoined
<1>18. s = Tag(g) \o more
  BY <1>8, <1>14, <1>15, <1>16 DEF Unread
<1>19. g \in Fields
  BY FieldsAre
<1>20. IsPrefix(Tag(f), s)
  BY <1>8
<1>21. f = g /\ SubSeq(s, TagSize(g) + 1, Len(s)) = more
  BY <1>17, <1>18, <1>19, <1>20, TagBehind
<1>22. StartsWith(Behind(f), w)
  <2>1. Behind(f) = more
    BY <1>8, <1>21 DEF Behind
  <2>. QED
    BY <1>16, <2>1 DEF StartsWith
<1>23. IsAhead(q, f)
  <2>1. q.field = f /\ q.index < Len(q.message[f])
    BY <1>6, <1>10, <1>21
  <2>2. HasGot(Top, q, q.index)
    BY <1>6, <1>7
  <2>3. StartsWith(Behind(f), Written(f, q.message[f][q.index + 1]))
    BY <1>11, <1>15, <1>21, <1>22
  <2>. QED
    BY <1>7, <2>1, <2>2, <2>3 DEF IsAhead
<1>. QED
  BY <1>2, <1>6, <1>23

(* What is stored of the value, and what is still to be read then. *)
LEMMA NextIsStored ==
  ASSUME NEW q, NEW f \in Fields, IsAhead(q, f), out \in Seq(Bytes8), NEW v,
         v = q.message[f][q.index + 1]
  PROVE  /\ q.message \in Messages /\ v \in ValuesOf(f)
         /\ q.index + 1 \in 1 .. Len(q.message[f]) /\ (q.index + 1) - 1 = q.index
         /\ Stored(Top.message, f, v) = Got(<<q.message, f, q.index + 1>>)
         /\ Top = [message |-> Top.message, buffer |-> Top.buffer, buffer_end |-> Top.buffer_end]
<1>1. /\ q.message \in Messages /\ q.index \in 0 .. Len(q.message[f]) /\ q.field = f
      /\ q.index < Len(q.message[f]) /\ Top.message = Got(<<q.message, f, q.index>>)
      /\ Top = [message |-> Top.message, buffer |-> Top.buffer, buffer_end |-> Top.buffer_end]
  BY DEF IsAhead, IsReadCall, IsAt, HasGot
<1>2. PICK e : e = q.index + 1
  OBVIOUS
<1>3. Len(q.message[f]) \in Nat
  BY <1>1, MessageParts
<1>4. e \in 1 .. Len(q.message[f]) /\ e - 1 = q.index
  BY <1>1, <1>2, <1>3
<1>5. v \in ValuesOf(f)
  BY <1>1, <1>2, <1>4, MessageParts
<1>6. PICK m : m = q.message
  OBVIOUS
<1>7. Stored(Got(<<m, f, e - 1>>), f, m[f][e]) = Got(<<m, f, e>>)
  BY <1>1, <1>4, <1>6, GotStored
<1>. QED
  BY <1>1, <1>2, <1>4, <1>5, <1>6, <1>7

LEMMA ReadOffset ==
  ASSUME NEW o, NEW c, NEW q, IsReadCall(o, c, q)
  PROVE  c.buffer \in Nat
<1>1. PICK m, g, e : m = q.message /\ g = q.field /\ e = q.index
  OBVIOUS
<1>2. m \in Messages /\ g \in 1 .. 23 /\ e \in 0 .. Len(m[g]) /\ q.base \in Nat
      /\ c.buffer = q.base + Counted[<<m, g, e>>]
  BY <1>1 DEF IsReadCall, IsAt
<1>3. e \in Nat
  BY <1>2
<1>4. PICK was \in Nat : was = Counted[<<m, g, e>>]
  BY <1>2, <1>3, PlaceAgrees
<1>. QED
  BY <1>2, <1>4

LEMMA FieldStored ==
  ASSUME NEW f \in Fields, ReadField(f), Depth \in Nat \ {0}, stack = [k \in 1 .. Depth |-> stack[k]],
         NEW c, c = Top, c = [message |-> c.message, buffer |-> c.buffer, buffer_end |-> c.buffer_end],
         NEW v, v = ReadValue(f, Behind(f)).v, NEW used, used = ReadValue(f, Behind(f)).used,
         NEW d, d = [message |-> Stored(c.message, f, v), buffer |-> c.buffer + TagSize(f) + used,
                     buffer_end |-> c.buffer_end]
  PROVE  stack' = [stack EXCEPT ![Depth] = d]
<1>1. PICK D \in Nat \ {0} : D = Depth
  OBVIOUS
<1>2. D \in 1 .. D /\ stack = [k \in 1 .. D |-> stack[k]] /\ c = stack[D]
  BY <1>1 DEF Top
<1>3. PICK x, y : x = Stored(c.message, f, v) /\ y = c.buffer + TagSize(f) + used
  OBVIOUS
<1>4. stack' = [stack EXCEPT ![D].message = Stored(@, f, v), ![D].buffer = @ + TagSize(f) + used]
  BY <1>1 DEF ReadField
<1>5. stack' = [stack EXCEPT ![D] = [[c EXCEPT !.message = x] EXCEPT !.buffer = y]]
  BY <1>2, <1>3, <1>4
<1>6. [[c EXCEPT !.message = x] EXCEPT !.buffer = y] = d
  <2>1. PICK z : z = [c EXCEPT !.message = x]
    OBVIOUS
  <2>2. PICK a, b, l : a = c.message /\ b = c.buffer /\ l = c.buffer_end
    OBVIOUS
  <2>3. c = [message |-> a, buffer |-> b, buffer_end |-> l]
    BY <2>2
  <2>4. z = [message |-> x, buffer |-> b, buffer_end |-> l]
    BY <2>1, <2>3
  <2>5. [z EXCEPT !.buffer = y] = [message |-> x, buffer |-> y, buffer_end |-> l]
    BY <2>4
  <2>6. d = [message |-> x, buffer |-> y, buffer_end |-> l]
    BY <1>3, <2>2
  <2>. QED
    BY <2>1, <2>5, <2>6
<1>. QED
  BY <1>1, <1>5, <1>6

(* pinba__request__unpack_merge reads the value that was written, and        *)
(* stores it in the field that was meant.                                    *)
LEMMA ReadFieldReads ==
  ASSUME IsReading, NEW f \in Fields, ReadField(f)
  PROVE  IsReading'
<1>1. PICK at : IsReadChain(at)
  BY DEF IsReading
<1>2. IsPrefix(Tag(f), Unread) /\ Type(f) # "message" /\ message' = message /\ out' = out
  BY DEF ReadField
<1>3. PICK q : IsAhead(q, f) /\ q.message = at[Depth].message
  BY <1>1, <1>2, NextIsRead
<1>4. PICK o \in Seq(Bytes8) : o = out
  BY DEF IsReading
<1>5. PICK c : c = Top
  OBVIOUS
<1>6. PICK m, e : m = q.message /\ e = q.index + 1
  OBVIOUS
<1>7. PICK v : v = m[f][e]
  OBVIOUS
<1>8. /\ m \in Messages /\ v \in ValuesOf(f) /\ e \in 1 .. Len(m[f]) /\ e - 1 = q.index
      /\ Stored(c.message, f, v) = Got(<<m, f, e>>)
      /\ c = [message |-> c.message, buffer |-> c.buffer, buffer_end |-> c.buffer_end]
  BY <1>3, <1>4, <1>5, <1>6, <1>7, NextIsStored
<1>9. StartsWith(Behind(f), Written(f, v)) /\ IsReadCall(o, c, q) /\ q.field = f
  BY <1>3, <1>4, <1>5, <1>6, <1>7 DEF IsAhead
<1>10. PICK w : w = Written(f, v)
  OBVIOUS
<1>11. w = Pack(f, v)
  BY <1>2, <1>10 DEF Written
<1>12. PICK rest \in Seq(Bytes8) : Behind(f) = w \o rest
  BY <1>9, <1>10 DEF StartsWith
<1>13. PICK s : s = Behind(f)
  OBVIOUS
<1>14. ReadValue(f, s).v = v /\ ReadValue(f, s).used = Len(Pack(f, v))
  <2>1. s = Pack(f, v) \o rest
    BY <1>11, <1>12, <1>13
  <2>2. GivesBack(f, v, s)
    BY <1>2, <1>8, <2>1, ReadsValue
  <2>. QED
    BY <2>2 DEF GivesBack
<1>15. PICK used : used = Len(w)
  OBVIOUS
<1>16. v = ReadValue(f, Behind(f)).v /\ used = ReadValue(f, Behind(f)).used
  BY <1>11, <1>13, <1>14, <1>15
<1>17. PICK x, sum : x = Stored(c.message, f, v) /\ sum = c.buffer + TagSize(f) + used
  OBVIOUS
<1>18. PICK d : d = [message |-> x, buffer |-> sum, buffer_end |-> c.buffer_end]
  OBVIOUS
<1>19. Depth \in Nat \ {0} /\ stack = [k \in 1 .. Depth |-> stack[k]]
  BY <1>1, ReadTop
<1>20. stack' = [stack EXCEPT ![Depth] = d]
  <2>1. d = [message |-> Stored(c.message, f, v), buffer |-> c.buffer + TagSize(f) + used,
             buffer_end |-> c.buffer_end]
    BY <1>17, <1>18
  <2>2. c = [message |-> c.message, buffer |-> c.buffer, buffer_end |-> c.buffer_end]
    BY <1>8
  <2>. QED
    BY <1>5, <1>16, <1>19, <2>1, <2>2, FieldStored
<1>21. PICK z : z = Mark(m, f, e, q.base)
  OBVIOUS
<1>22. e <= Len(m[f])
  BY <1>8
<1>23. sum = c.buffer + (TagSize(f) + Len(Written(f, m[f][e])))
  <2>1. PICK b, size : b = c.buffer /\ size = TagSize(f)
    OBVIOUS
  <2>2. b \in Nat
    BY <1>9, <2>1, ReadOffset
  <2>3. size \in Nat
    BY <2>1 DEF TagSize
  <2>4. used \in Nat
    BY <1>8, <1>11, <1>15, <1>2, ValuePack, LenProperties
  <2>5. sum = b + size + used
    BY <1>17, <2>1
  <2>6. sum = b + (size + used)
    BY <2>2, <2>3, <2>4, <2>5
  <2>. QED
    BY <1>7, <1>10, <1>15, <2>1, <2>6
<1>24. m = q.message /\ f = q.field /\ e = q.index + 1
  BY <1>6, <1>9
<1>25. IsReadCall(o, d, z) /\ z.message = m /\ z.field = f /\ z.index = e
  BY <1>9, <1>18, <1>21, <1>22, <1>23, <1>24, ReadOneMore
<1>26. HasGot(d, z, z.index)
  <2>1. d.message = x
    BY <1>18
  <2>. QED
    BY <1>8, <1>17, <1>25, <2>1 DEF HasGot
<1>27. z.message = at[Depth].message
  BY <1>3, <1>6, <1>25
<1>28. IsReadCall(out, d, z)
  BY <1>4, <1>25
<1>. QED
  BY <1>1, <1>2, <1>20, <1>26, <1>27, <1>28, ReadTopChanges

LEMMA PartOfPart ==
  ASSUME NEW S, NEW o \in Seq(S), NEW b \in Nat, NEW last \in Nat, b <= last, last <= Len(o),
         NEW s, IsPart(o, b, last, s),
         NEW x \in Nat, NEW y \in Nat, x <= y, y <= Len(s), NEW t, IsPart(s, x, y, t),
         NEW x2, x2 = b + x, NEW y2, y2 = b + y
  PROVE  IsPart(o, x2, y2, t)
<1>1. PICK from : from = b + 1
  OBVIOUS
<1>2. from \in Nat \ {0} /\ from <= last + 1 /\ s = SubSeq(o, from, last)
  BY <1>1 DEF IsPart
<1>3. /\ s \in Seq(S) /\ Len(s) = last - from + 1
      /\ \A k \in 1 .. Len(s) : s[k] = o[k + (from - 1)]
  BY <1>2, PartOf
<1>4. PICK within : within = x + 1
  OBVIOUS
<1>5. within \in Nat \ {0} /\ within <= y + 1 /\ t = SubSeq(s, within, y)
  BY <1>4 DEF IsPart
<1>6. /\ t \in Seq(S) /\ Len(t) = y - within + 1
      /\ \A k \in 1 .. Len(t) : t[k] = s[k + (within - 1)]
  BY <1>3, <1>5, PartOf
<1>7. PICK from2 : from2 = x2 + 1
  OBVIOUS
<1>8. PICK u : u = SubSeq(o, from2, y2)
  OBVIOUS
<1>9. PICK num \in Nat : num = Len(o)
  BY LenProperties
<1>10. from2 \in Nat \ {0} /\ from2 <= y2 + 1 /\ y2 \in Nat /\ y2 <= Len(o)
  BY <1>1, <1>3, <1>7, <1>9
<1>11. /\ u \in Seq(S) /\ Len(u) = y2 - from2 + 1
       /\ \A k \in 1 .. Len(u) : u[k] = o[k + (from2 - 1)]
  BY <1>8, <1>10, PartOf
<1>12. Len(u) = Len(t)
  BY <1>4, <1>6, <1>7, <1>11
<1>13. ASSUME NEW k \in 1 .. Len(u) PROVE u[k] = t[k]
  <2>1. /\ k \in 1 .. Len(t) /\ k + (within - 1) \in 1 .. Len(s)
        /\ k + (from2 - 1) = (k + (within - 1)) + (from - 1)
    BY <1>1, <1>3, <1>4, <1>6, <1>7, <1>12
  <2>2. u[k] = o[k + (from2 - 1)]
    BY <1>11
  <2>3. t[k] = s[k + (within - 1)]
    BY <1>6, <2>1
  <2>4. s[k + (within - 1)] = o[(k + (within - 1)) + (from - 1)]
    BY <1>3, <2>1
  <2>. QED
    BY <2>1, <2>2, <2>3, <2>4
<1>14. u = t
  BY <1>6, <1>11, <1>12, <1>13, SameSeq
<1>. QED
  BY <1>7, <1>8, <1>14 DEF IsPart

LEMMA NestedNumbers ==
  ASSUME NEW b \in Nat, NEW size \in Nat, NEW skip \in Nat, NEW num \in Nat,
         NEW last \in Nat, NEW whole, NEW bytes_left, NEW first, NEW end, NEW start2, NEW stop2,
         b <= last, whole = last - b, bytes_left = whole - size, skip + num <= bytes_left,
         first = b + size + skip, end = first + num,
         start2 = size + skip, stop2 = size + (skip + num)
  PROVE  /\ first = b + start2 /\ end = b + stop2 /\ first \in Nat /\ end <= last
         /\ end = b + (size + (skip + num)) /\ stop2 <= whole
         /\ start2 \in Nat /\ stop2 \in Nat /\ start2 <= stop2
OBVIOUS

(* The bytes behind the length of a nested request, as many as that says,    *)
(* are those of the request.                                                 *)
IsNestedIn(o, b, last, s, size, h, skip, num, d, first, end) ==
  /\ b \in Nat /\ last \in Nat /\ b <= last /\ last <= Len(o) /\ IsPart(o, b, last, s)
  /\ size \in Nat /\ size <= Len(s) /\ IsPart(s, size, Len(s), h)
  /\ skip \in Nat /\ num \in Nat /\ skip + num <= Len(h) /\ IsPart(h, skip, skip + num, d)
  /\ first = b + size + skip /\ end = first + num

LEMMA NestedPart ==
  ASSUME NEW o \in Seq(Bytes8), NEW b, NEW last, NEW s, NEW size, NEW h, NEW skip, NEW num,
         NEW d, NEW first, NEW end, IsNestedIn(o, b, last, s, size, h, skip, num, d, first, end)
  PROVE  /\ first \in Nat /\ end <= last /\ end = b + (size + (skip + num))
         /\ IsPart(o, first, end, d)
<1>0. PICK whole, stop : whole = Len(s) /\ stop = skip + num
  OBVIOUS
<1>. /\ b \in Nat /\ last \in Nat /\ b <= last /\ last <= Len(o) /\ IsPart(o, b, last, s)
     /\ whole = Len(s) /\ size \in Nat /\ size <= whole /\ IsPart(s, size, whole, h)
     /\ skip \in Nat /\ num \in Nat /\ stop = skip + num /\ stop <= Len(h)
     /\ IsPart(h, skip, stop, d) /\ first = b + size + skip /\ end = first + num
  BY <1>0 DEF IsNestedIn
<1>1. PICK bytes_left, start2, stop2 : bytes_left = Len(h) /\ start2 = size + skip
        /\ stop2 = size + (skip + num)
  OBVIOUS
<1>2. PICK from : from = b + 1
  OBVIOUS
<1>3. from \in Nat \ {0} /\ from <= last + 1 /\ s = SubSeq(o, from, last)
  BY <1>2 DEF IsPart
<1>4. s \in Seq(Bytes8) /\ Len(s) = last - from + 1
  <2>1. PICK to \in Nat : to = last
    OBVIOUS
  <2>2. from <= to + 1 /\ to <= Len(o) /\ s = SubSeq(o, from, to)
    BY <1>3, <2>1
  <2>3. s \in Seq(Bytes8) /\ Len(s) = to - from + 1
    BY <1>3, <2>2, PartOf
  <2>. QED
    BY <2>1, <2>3
<1>5. whole = last - b
  BY <1>2, <1>4
<1>6. PICK within : within = size + 1
  OBVIOUS
<1>7. within \in Nat \ {0} /\ within <= whole + 1 /\ h = SubSeq(s, within, whole)
  BY <1>5, <1>6 DEF IsPart
<1>8. whole \in Nat /\ whole <= Len(s)
  BY <1>5
<1>9. h \in Seq(Bytes8) /\ Len(h) = whole - within + 1
  BY <1>4, <1>7, <1>8, PartOf
<1>10. bytes_left = whole - size
  BY <1>1, <1>6, <1>8, <1>9
<1>11. /\ first = b + start2 /\ end = b + stop2 /\ first \in Nat /\ end <= last
       /\ end = b + (size + (skip + num)) /\ stop2 <= whole
       /\ start2 \in Nat /\ stop2 \in Nat /\ start2 <= stop2
  BY <1>1, <1>5, <1>10, NestedNumbers
<1>12. IsPart(s, start2, stop2, d)
  <2>1. stop \in Nat /\ skip <= stop /\ start2 = size + skip /\ stop2 = size + stop
    BY <1>1
  <2>. QED
    BY <1>4, <1>8, <2>1, PartOfPart
<1>13. IsPart(o, first, end, d)
  BY <1>11, <1>12, PartOfPart
<1>. QED
  BY <1>11, <1>13

LEMMA ReadEnd ==
  ASSUME NEW o \in Seq(Bytes8), NEW c, NEW q, IsReadCall(o, c, q)
  PROVE  /\ c.buffer \in Nat /\ c.buffer_end \in Nat
         /\ c.buffer <= c.buffer_end /\ c.buffer_end <= Len(o)
<1>1. PICK m, g, e : m = q.message /\ g = q.field /\ e = q.index
  OBVIOUS
<1>2. m \in Messages /\ g \in 1 .. 23 /\ e \in 0 .. Len(m[g])
  BY <1>1 DEF IsReadCall, IsAt
<1>3. PICK b \in Nat : b = q.base
  BY DEF IsReadCall
<1>4. /\ c.buffer_end = b + Counted[All(m)] /\ c.buffer_end <= Len(o)
      /\ c.buffer = b + Counted[<<m, g, e>>]
  BY <1>1, <1>3 DEF IsReadCall
<1>5. e \in Nat
  BY <1>2
<1>6. PICK was \in Nat : was = Counted[<<m, g, e>>]
  BY <1>2, <1>5, PlaceAgrees
<1>7. PICK all \in Nat : all = Counted[All(m)]
  BY <1>2, WholeAgrees
<1>8. was <= all
  BY <1>2, <1>6, <1>7, WholeCounts
<1>. QED
  BY <1>4, <1>6, <1>7, <1>8

(* The call that reads a nested request starts where that starts. *)
LEMMA NewReadCall ==
  ASSUME NEW o \in Seq(Bytes8), NEW v \in Messages, NEW first \in Nat, NEW end,
         end = first + Len(Meant[All(v)]), end <= Len(o), IsPart(o, first, end, Meant[All(v)]),
         NEW d, d = ReadCall(first, end), NEW z, z = Mark(v, 1, 0, first)
  PROVE  /\ IsReadCall(o, d, z) /\ HasGot(d, z, z.index)
         /\ z.message = v /\ z.field = 1 /\ z.index = 0
<1>1. z.message = v /\ z.field = 1 /\ z.index = 0 /\ z.base = first
  BY MarkIs
<1>2. /\ d = [message |-> d.message, buffer |-> d.buffer, buffer_end |-> d.buffer_end]
      /\ d.message = pinba__request__init /\ d.buffer = first /\ d.buffer_end = end
  BY DEF ReadCall
<1>3. Len(v[1]) \in Nat
  BY MessageParts, FieldsAre
<1>4. IsAt(z)
  BY <1>1, <1>3 DEF IsAt
<1>5. end = first + Counted[All(v)]
  BY WholeAgrees
<1>6. first = first + Counted[<<v, 1, 0>>]
  <2>1. Counted[<<v, 1, 0>>] = 0
    BY AtStart
  <2>. QED
    BY <2>1
<1>7. SubSeq(o, first + 1, end) = Meant[All(v)]
  BY DEF IsPart
<1>8. IsReadCall(o, d, z)
  BY <1>1, <1>2, <1>4, <1>5, <1>6, <1>7 DEF IsReadCall
<1>9. HasGot(d, z, z.index)
  BY <1>1, <1>2, GotStart DEF HasGot
<1>. QED
  BY <1>1, <1>8, <1>9

LEMMA FieldLeft ==
  ASSUME NEW f, ReadRequest(f), Depth \in Nat \ {0}, stack = [k \in 1 .. Depth |-> stack[k]],
         NEW c, c = Top, c = [message |-> c.message, buffer |-> c.buffer, buffer_end |-> c.buffer_end],
         NEW first, first = c.buffer + TagSize(f) + skip_varint(Behind(f)),
         NEW end, end = first + Number(ReadUint32(Behind(f))),
         NEW d, d = [message |-> c.message, buffer |-> end, buffer_end |-> c.buffer_end]
  PROVE  stack' = Append([stack EXCEPT ![Depth] = d], ReadCall(first, end))
<1>1. PICK D \in Nat \ {0} : D = Depth
  OBVIOUS
<1>2. D \in 1 .. D /\ stack = [k \in 1 .. D |-> stack[k]] /\ c = stack[D]
  BY <1>1 DEF Top
<1>3. stack' = Append([stack EXCEPT ![D].buffer = end], ReadCall(first, end))
  BY <1>1 DEF ReadRequest
<1>4. [stack EXCEPT ![D].buffer = end] = [stack EXCEPT ![D] = [c EXCEPT !.buffer = end]]
  BY <1>2
<1>5. [c EXCEPT !.buffer = end] = d
  <2>1. PICK a, b, l : a = c.message /\ b = c.buffer /\ l = c.buffer_end
    OBVIOUS
  <2>2. c = [message |-> a, buffer |-> b, buffer_end |-> l]
    BY <2>1
  <2>3. [c EXCEPT !.buffer = end] = [message |-> a, buffer |-> end, buffer_end |-> l]
    BY <2>2
  <2>. QED
    BY <2>1, <2>3
<1>. QED
  BY <1>1, <1>3, <1>4, <1>5

(* Where a nested request is. *)
LEMMA NestedBegins ==
  ASSUME NEW f \in Fields, IsPrefix(Tag(f), Unread), NEW q, IsReadCall(out, Top, q), out \in Seq(Bytes8),
         NEW v \in Messages, StartsWith(Behind(f), delimited_pack(Meant[All(v)])),
         NEW c, c = Top,
         NEW first, first = c.buffer + TagSize(f) + skip_varint(Behind(f)),
         NEW end, end = first + Number(ReadUint32(Behind(f)))
  PROVE  /\ first \in Nat /\ end = first + Len(Meant[All(v)]) /\ end <= Len(out)
         /\ end = c.buffer + (TagSize(f) + Len(delimited_pack(Meant[All(v)])))
         /\ IsPart(out, first, end, Meant[All(v)])
<1>1. PICK o \in Seq(Bytes8) : o = out
  OBVIOUS
<1>2. PICK b, last : b = c.buffer /\ last = c.buffer_end
  OBVIOUS
<1>3. b \in Nat /\ last \in Nat /\ b <= last /\ last <= Len(o)
  <2>1. IsReadCall(o, c, q)
    BY <1>1
  <2>. QED
    BY <1>2, <2>1, ReadEnd
<1>4. PICK s, whole, size, h : s = Unread /\ whole = Len(s) /\ size = TagSize(f) /\ h = Behind(f)
  OBVIOUS
<1>5. IsPart(o, b, last, s)
  BY <1>1, <1>2, <1>4 DEF IsPart, Unread
<1>6. IsPart(s, size, whole, h)
  BY <1>4 DEF IsPart, Behind
<1>7. size \in Nat /\ size <= whole
  <2>1. Len(Tag(f)) = size /\ size \in 1 .. 2
    BY <1>4, TagIs
  <2>2. Len(Tag(f)) <= Len(s)
    BY <1>4 DEF IsPrefix
  <2>. QED
    BY <1>4, <2>1, <2>2
<1>8. PICK M : M = Meant[All(v)]
  OBVIOUS
<1>9. M \in Seq(Bytes8) /\ Len(M) <= PINBA_UDP_BUFFER_SIZE
  BY <1>8, WholeAgrees, SizeAssumption DEF get_packed_size
<1>10. PICK rest \in Seq(Bytes8) : h = delimited_pack(M) \o rest
  BY <1>4, <1>8 DEF StartsWith
<1>11. /\ skip_varint(h) \in Nat /\ Number(ReadUint32(h)) = Len(M)
       /\ Len(delimited_pack(M)) = skip_varint(h) + Len(M)
       /\ SubSeq(h, skip_varint(h) + 1, skip_varint(h) + Len(M)) = M
  BY <1>9, <1>10, ReadsDelimited
<1>12. PICK skip \in Nat : skip = skip_varint(h)
  BY <1>11
<1>13. PICK num \in Nat : num = Len(M)
  BY <1>9, LenProperties
<1>14. PICK stop : stop = skip + num
  OBVIOUS
<1>15. IsPart(h, skip, stop, M)
  BY <1>11, <1>12, <1>13, <1>14 DEF IsPart
<1>16. stop <= Len(h)
  <2>1. delimited_pack(M) \in Seq(Bytes8)
    BY <1>9, DelimitedPack
  <2>2. PICK w : w = delimited_pack(M)
    OBVIOUS
  <2>3. Len(h) = Len(w) + Len(rest) /\ Len(rest) \in Nat
    BY <1>10, <2>1, <2>2, BytesJoined
  <2>4. Len(w) = stop
    BY <1>11, <1>12, <1>13, <1>14, <2>2
  <2>5. PICK behind \in Nat : behind = Len(rest)
    BY <2>3
  <2>6. Len(h) = stop + behind /\ stop \in Nat
    BY <1>14, <2>3, <2>4, <2>5
  <2>. QED
    BY <2>6
<1>17. first = b + size + skip
  BY <1>2, <1>4, <1>12
<1>18. end = first + num
  BY <1>4, <1>11, <1>13
<1>19. /\ first \in Nat /\ end <= last /\ end = b + (size + (skip + num))
       /\ IsPart(o, first, end, M)
  <2>1. whole = Len(s)
    BY <1>4
  <2>2. IsNestedIn(o, b, last, s, size, h, skip, num, M, first, end)
    BY <1>3, <1>5, <1>6, <1>7, <1>14, <1>15, <1>16, <1>17, <1>18, <2>1 DEF IsNestedIn
  <2>. QED
    BY <2>2, NestedPart
<1>20. end <= Len(o)
  <2>1. PICK length \in Nat : length = Len(o)
    BY LenProperties
  <2>2. end \in Nat
    BY <1>18, <1>19
  <2>. QED
    BY <1>3, <1>19, <2>1, <2>2
<1>21. Len(delimited_pack(M)) = skip + num
  BY <1>11, <1>12, <1>13
<1>. QED
  BY <1>1, <1>2, <1>4, <1>8, <1>13, <1>18, <1>19, <1>20, <1>21

(* It comes to a nested request, which it reads into one of its own.         *)
LEMMA ReadRequestReads ==
  ASSUME IsReading, NEW f \in Fields, ReadRequest(f)
  PROVE  IsReading'
<1>1. PICK at : IsReadChain(at)
  BY DEF IsReading
<1>2. IsPrefix(Tag(f), Unread) /\ Type(f) = "message" /\ message' = message /\ out' = out
  BY DEF ReadRequest
<1>3. PICK q : IsAhead(q, f) /\ q.message = at[Depth].message
  BY <1>1, <1>2, NextIsRead
<1>4. PICK o \in Seq(Bytes8) : o = out
  BY DEF IsReading
<1>5. PICK c : c = Top
  OBVIOUS
<1>6. PICK m, e : m = q.message /\ e = q.index + 1
  OBVIOUS
<1>7. PICK v : v = m[f][e]
  OBVIOUS
<1>8. /\ m \in Messages /\ v \in ValuesOf(f) /\ e \in 1 .. Len(m[f]) /\ e - 1 = q.index
      /\ c = [message |-> c.message, buffer |-> c.buffer, buffer_end |-> c.buffer_end]
  BY <1>3, <1>4, <1>5, <1>6, <1>7, NextIsStored
<1>9. /\ StartsWith(Behind(f), Written(f, v)) /\ IsReadCall(o, c, q) /\ q.field = f
      /\ HasGot(c, q, q.index)
  BY <1>3, <1>4, <1>5, <1>6, <1>7 DEF IsAhead
<1>10. f = 18 /\ v \in Messages
  BY <1>2, <1>7, <1>8, NestedMessage
<1>11. Written(f, v) = delimited_pack(Meant[All(v)])
  BY <1>2 DEF Written
<1>12. PICK first : first = c.buffer + TagSize(f) + skip_varint(Behind(f))
  OBVIOUS
<1>13. PICK end : end = first + Number(ReadUint32(Behind(f)))
  OBVIOUS
<1>14. /\ first \in Nat /\ end = first + Len(Meant[All(v)]) /\ end <= Len(o)
       /\ end = c.buffer + (TagSize(f) + Len(delimited_pack(Meant[All(v)])))
       /\ IsPart(o, first, end, Meant[All(v)])
  <2>1. IsReadCall(out, Top, q) /\ out \in Seq(Bytes8)
    BY <1>4, <1>5, <1>9
  <2>2. StartsWith(Behind(f), delimited_pack(Meant[All(v)]))
    BY <1>9, <1>11
  <2>. QED
    BY <1>2, <1>4, <1>5, <1>10, <1>12, <1>13, <2>1, <2>2, NestedBegins
<1>15. PICK d : d = [message |-> c.message, buffer |-> end, buffer_end |-> c.buffer_end]
  OBVIOUS
<1>16. PICK z : z = Mark(m, f, e, q.base)
  OBVIOUS
<1>17. /\ m = q.message /\ f = q.field /\ e = q.index + 1 /\ e <= Len(m[f])
       /\ end = c.buffer + (TagSize(f) + Len(Written(f, m[f][e])))
  BY <1>6, <1>7, <1>8, <1>9, <1>11, <1>14
<1>18. IsReadCall(o, d, z) /\ z.message = m /\ z.field = f /\ z.index = e
  BY <1>9, <1>15, <1>16, <1>17, ReadOneMore
<1>19. HasGot(d, z, z.index - 1)
  <2>1. c.message = Got(<<m, f, q.index>>)
    BY <1>9, <1>17 DEF HasGot
  <2>2. d.message = c.message
    BY <1>15
  <2>. QED
    BY <1>8, <1>18, <2>1, <2>2 DEF HasGot
<1>20. PICK num, y : num = ReadCall(first, end) /\ y = Mark(v, 1, 0, first)
  OBVIOUS
<1>21. IsReadCall(o, num, y) /\ HasGot(num, y, y.index) /\ y.message = v
  BY <1>10, <1>14, <1>20, NewReadCall
<1>22. Nests(z, y)
  <2>1. z.field = 18 /\ z.index >= 1
    BY <1>8, <1>10, <1>18
  <2>. QED
    BY <1>7, <1>10, <1>18, <1>21, <2>1 DEF Nests
<1>23. stack' = Append([stack EXCEPT ![Depth] = d], num)
  <2>1. Depth \in Nat \ {0} /\ stack = [k \in 1 .. Depth |-> stack[k]]
    BY <1>1, ReadTop
  <2>2. c = [message |-> c.message, buffer |-> c.buffer, buffer_end |-> c.buffer_end]
    BY <1>8
  <2>. QED
    BY <1>5, <1>12, <1>13, <1>15, <1>20, <2>1, <2>2, FieldLeft
<1>24. z.message = at[Depth].message
  BY <1>3, <1>6, <1>18
<1>25. IsReadCall(out, d, z) /\ IsReadCall(out, num, y)
  BY <1>4, <1>18, <1>21
<1>. QED
  BY <1>1, <1>2, <1>19, <1>21, <1>22, <1>23, <1>24, <1>25, ReadPushes

(* A call that has come to the end of its bytes has read all of its request. *)
LEMMA ReadsWhole ==
  ASSUME IsReading, NEW at, IsReadChain(at), Top.buffer = Top.buffer_end
  PROVE  Top.message = at[Depth].message
<1>1. PICK c, r : c = Top /\ r = at[Depth]
  OBVIOUS
<1>2. PICK o \in Seq(Bytes8) : o = out
  BY DEF IsReading
<1>3. IsReadCall(o, c, r) /\ HasGot(c, r, r.index)
  BY <1>1, <1>2, ReadTop
<1>4. PICK g \in 1 .. 23 : \E j \in 0 .. Len(r.message[g]) :
        LET q == Mark(r.message, g, j, r.base)
        IN  /\ IsReadCall(o, c, q) /\ HasGot(c, q, j)
            /\ j < Len(r.message[g]) \/ <<r.message, g, j>> = All(r.message)
  BY <1>3, GoesOn
<1>5. PICK j \in 0 .. Len(r.message[g]) :
        LET q == Mark(r.message, g, j, r.base)
        IN  /\ IsReadCall(o, c, q) /\ HasGot(c, q, j)
            /\ j < Len(r.message[g]) \/ <<r.message, g, j>> = All(r.message)
  BY <1>4
<1>6. PICK q : q = Mark(r.message, g, j, r.base)
  OBVIOUS
<1>7. /\ IsReadCall(o, c, q) /\ HasGot(c, q, j)
      /\ j < Len(r.message[g]) \/ <<r.message, g, j>> = All(r.message)
  BY <1>5, <1>6
<1>8. q.message = r.message /\ q.field = g /\ q.index = j
  BY <1>6, MarkIs
<1>9. ASSUME j < Len(r.message[g]) PROVE FALSE
  <2>1. q.index < Len(q.message[q.field])
    BY <1>8, <1>9
  <2>2. c.buffer # c.buffer_end
    BY <1>7, <2>1, ReadToTheEnd
  <2>. QED
    BY <1>1, <2>2
<1>10. <<r.message, g, j>> = All(r.message)
  BY <1>7, <1>9
<1>11. r.message \in Messages
  BY <1>3 DEF IsReadCall, IsAt
<1>12. c.message = Got(<<r.message, g, j>>)
  BY <1>7, <1>8 DEF HasGot
<1>13. c.message = r.message
  BY <1>10, <1>11, <1>12, GotWhole
<1>. QED
  BY <1>1, <1>13

IsRecord(c, a, b, l) == c = [message |-> a, buffer |-> b, buffer_end |-> l]

LEMMA MessageChanged ==
  ASSUME NEW a, NEW b, NEW l, NEW x, NEW c, IsRecord(c, a, b, l)
  PROVE  IsRecord([c EXCEPT !.message = x], x, b, l)
BY DEF IsRecord

LEMMA NestedStored ==
  ASSUME ReadNested, Depth \in Nat \ {0}, Depth > 1, stack = [k \in 1 .. Depth |-> stack[k]],
         NEW c, c = stack[Depth - 1], IsRecord(c, c.message, c.buffer, c.buffer_end),
         NEW d, IsRecord(d, Stored(c.message, 18, Top.message), c.buffer, c.buffer_end)
  PROVE  stack' = [Front(stack) EXCEPT ![Depth - 1] = d]
<1>1. PICK D \in Nat \ {0} : D = Depth
  OBVIOUS
<1>2. PICK below \in Nat \ {0} : below = D - 1
  BY <1>1
<1>3. PICK S : stack \in Seq(S)
  BY StackIsSeq
<1>4. PICK front : front = Front(stack)
  OBVIOUS
<1>5. Len(stack) = D /\ D > 1
  BY <1>1 DEF Depth
<1>6. front \in [1 .. below -> S] /\ front[below] = stack[below]
  <2>1. /\ Front(stack) \in [1 .. Len(stack) - 1 -> S]
        /\ \A k \in 1 .. Len(stack) - 1 : Front(stack)[k] = stack[k]
    BY <1>3, <1>5, FrontOf
  <2>2. below \in 1 .. below
    OBVIOUS
  <2>. QED
    BY <1>2, <1>4, <1>5, <2>1, <2>2
<1>7. PICK x : x = Stored(c.message, 18, Top.message)
  OBVIOUS
<1>8. front[below] = c
  BY <1>1, <1>2, <1>6
<1>9. stack' = [front EXCEPT ![below].message = Stored(@, 18, Top.message)]
  BY <1>1, <1>2, <1>4 DEF ReadNested
<1>10. stack' = [front EXCEPT ![below] = [c EXCEPT !.message = x]]
  BY <1>6, <1>7, <1>8, <1>9
<1>11. [c EXCEPT !.message = x] = d
  <2>1. IsRecord([c EXCEPT !.message = x], x, c.buffer, c.buffer_end)
    BY MessageChanged
  <2>2. IsRecord(d, x, c.buffer, c.buffer_end)
    BY <1>7
  <2>. QED
    BY <2>1, <2>2 DEF IsRecord
<1>. QED
  BY <1>1, <1>2, <1>4, <1>10, <1>11

(* A nested request is read, and stored with those before it.                *)
LEMMA ReadNestedReads ==
  ASSUME IsReading, ReadNested
  PROVE  IsReading'
<1>1. PICK at : IsReadChain(at)
  BY DEF IsReading
<1>2. Top.buffer = Top.buffer_end /\ Depth > 1 /\ message' = message /\ out' = out
  BY DEF ReadNested, HasRead
<1>3. Top.message = at[Depth].message
  BY <1>1, <1>2, ReadsWhole
<1>4. Depth \in Nat \ {0} /\ stack = [k \in 1 .. Depth |-> stack[k]]
  BY <1>1 DEF IsReadChain
<1>5. PICK D \in Nat \ {0} : D = Depth
  BY <1>4
<1>6. PICK below \in Nat \ {0} : below = D - 1
  BY <1>2, <1>5
<1>7. below \in 1 .. Depth - 1 /\ below \in 1 .. Depth /\ below + 1 = Depth
  BY <1>5, <1>6
<1>8. PICK c, r : c = stack[below] /\ r = at[below]
  OBVIOUS
<1>9. /\ Nests(at[below], at[below + 1])
      /\ HasGot(stack[below], at[below], at[below].index - 1)
      /\ IsReadCall(out, stack[below], at[below])
  BY <1>1, <1>7 DEF IsReadChain
<1>10. PICK m, e : m = r.message /\ e = r.index
  OBVIOUS
<1>11. /\ r.field = 18 /\ e >= 1 /\ Top.message = m[18][e]
       /\ c.message = Got(<<m, r.field, e - 1>>)
  BY <1>3, <1>7, <1>8, <1>9, <1>10 DEF Nests, HasGot
<1>12. IsReadCall(out, c, r)
  BY <1>8, <1>9
<1>13. /\ m \in Messages /\ e \in 0 .. Len(m[18])
       /\ c = [message |-> c.message, buffer |-> c.buffer, buffer_end |-> c.buffer_end]
  BY <1>10, <1>11, <1>12 DEF IsReadCall, IsAt
<1>14. Stored(c.message, 18, Top.message) = Got(<<m, 18, e>>)
  <2>1. PICK f \in Fields : f = 18
    BY FieldsAre
  <2>2. e \in 1 .. Len(m[f])
    <3>1. Len(m[f]) \in Nat
      BY <1>13, MessageParts
    <3>. QED
      BY <1>11, <1>13, <2>1, <3>1
  <2>3. Stored(Got(<<m, f, e - 1>>), f, m[f][e]) = Got(<<m, f, e>>)
    BY <1>13, <2>2, GotStored
  <2>. QED
    BY <1>11, <2>1, <2>3
<1>15. PICK d : d = [message |-> Stored(c.message, 18, Top.message), buffer |-> c.buffer,
                     buffer_end |-> c.buffer_end]
  OBVIOUS
<1>16. stack' = [Front(stack) EXCEPT ![Depth - 1] = d]
  <2>1. c = stack[Depth - 1]
    BY <1>5, <1>6, <1>8
  <2>2. IsRecord(c, c.message, c.buffer, c.buffer_end)
    BY <1>13 DEF IsRecord
  <2>3. IsRecord(d, Stored(c.message, 18, Top.message), c.buffer, c.buffer_end)
    BY <1>15 DEF IsRecord
  <2>. QED
    BY <1>2, <1>4, <2>1, <2>2, <2>3, NestedStored
<1>17. d.buffer = c.buffer /\ d.buffer_end = c.buffer_end
       /\ d.message = Stored(c.message, 18, Top.message)
  BY <1>15
<1>18. d = [message |-> d.message, buffer |-> d.buffer, buffer_end |-> d.buffer_end]
  BY <1>15
<1>19. IsReadCall(out, d, r)
  BY <1>12, <1>17, <1>18 DEF IsReadCall
<1>20. HasGot(d, r, r.index)
  BY <1>10, <1>11, <1>14, <1>17 DEF HasGot
<1>21. IsReadCall(out, d, at[Depth - 1]) /\ HasGot(d, at[Depth - 1], at[Depth - 1].index)
  BY <1>5, <1>6, <1>8, <1>19, <1>20
<1>. QED
  BY <1>1, <1>2, <1>16, <1>21, ReadPops
-----------------------------------------------------------------------------
(* The server reads what the client wrote. *)

(* The server reads what `pack' wrote. *)
LEMMA PackReturnsReads ==
  ASSUME IsPacking, PackReturns
  PROVE  IsReading'
<1>1. /\ Depth = 1 /\ Returns /\ message' = message /\ out' = out
      /\ stack' = <<ReadCall(0, Len(out))>>
  BY DEF PackReturns
<1>2. message \in Messages /\ out = Encoding(message)
  BY <1>1, PackWrites
<1>3. PICK v \in Messages : v = message
  BY <1>2
<1>4. PICK M : M = Meant[All(v)]
  OBVIOUS
<1>5. M \in Seq(Bytes8) /\ out = M
  BY <1>2, <1>3, <1>4, WholeAgrees DEF Encoding
<1>6. PICK o \in Seq(Bytes8) : o = out
  BY <1>5
<1>7. PICK first \in Nat : first = 0
  OBVIOUS
<1>8. PICK end \in Nat : end = Len(o)
  BY LenProperties
<1>9. /\ end = first + Len(Meant[All(v)]) /\ end <= Len(o)
      /\ IsPart(o, first, end, Meant[All(v)])
  <2>1. SubSeq(o, 1, end) = o
    BY <1>8, WholePart
  <2>2. first + 1 = 1
    BY <1>7
  <2>3. IsPart(o, first, end, o)
    BY <2>1, <2>2 DEF IsPart
  <2>. QED
    BY <1>4, <1>5, <1>6, <1>7, <1>8, <2>3
<1>10. PICK c, z : c = ReadCall(first, end) /\ z = Mark(v, 1, 0, first)
  OBVIOUS
<1>11. IsReadCall(o, c, z) /\ HasGot(c, z, z.index) /\ z.message = v
  BY <1>9, <1>10, NewReadCall
<1>12. stack' = <<c>>
  BY <1>1, <1>6, <1>7, <1>8, <1>10
<1>13. Depth' = 1 /\ stack'[1] = c /\ stack' = [k \in 1 .. 1 |-> stack'[k]]
  BY <1>12 DEF Depth
<1>14. PICK at : at = [k \in 1 .. 1 |-> z]
  OBVIOUS
<1>15. at[1] = z
  BY <1>14
<1>16. \A k \in 1 .. Depth' : IsReadCall(out', stack'[k], at[k])
  BY <1>1, <1>6, <1>11, <1>13, <1>15
<1>17. \A k \in 1 .. Depth' - 1 : Nests(at[k], at[k + 1]) /\ HasGot(stack'[k], at[k], at[k].index - 1)
  BY <1>13
<1>18. HasGot(stack'[Depth'], at[Depth'], at[Depth'].index)
  BY <1>11, <1>13, <1>15
<1>19. at[1].message = message' /\ Depth' \in Nat \ {0}
  BY <1>1, <1>3, <1>11, <1>13, <1>15
<1>20. IsReadChain(at)'
  BY <1>13, <1>16, <1>17, <1>18, <1>19 DEF IsReadChain
<1>21. message' \in Messages /\ out' \in Seq(Bytes8)
  BY <1>1, <1>3, <1>6
<1>. QED
  BY <1>20, <1>21 DEF IsReading

ReadInv == WriteInv /\ (how = "read" => IsReading)

LEMMA ReadStep == ReadInv /\ [CodecNext]_codec_vars => ReadInv'
<1>. SUFFICES ASSUME ReadInv, [CodecNext]_codec_vars PROVE ReadInv'
  OBVIOUS
<1>1. WriteInv'
  BY WriteStep DEF ReadInv
<1>. SUFFICES ASSUME how' = "read" PROVE IsReading'
  BY <1>1 DEF ReadInv
<1>2. CASE PackReturns
  <2>1. how = "pack"
    BY <1>2 DEF PackReturns
  <2>. QED
    BY <1>2, <2>1, PackReturnsReads DEF ReadInv, WriteInv
<1>3. ASSUME NEW f \in Fields, ReadField(f) PROVE IsReading'
  <2>1. how = "read"
    BY <1>3 DEF ReadField
  <2>. QED
    BY <1>3, <2>1, ReadFieldReads DEF ReadInv
<1>4. ASSUME NEW f \in Fields, ReadRequest(f) PROVE IsReading'
  <2>1. how = "read"
    BY <1>4 DEF ReadRequest
  <2>. QED
    BY <1>4, <2>1, ReadRequestReads DEF ReadInv
<1>5. CASE ReadNested
  <2>1. how = "read"
    BY <1>5 DEF ReadNested, HasRead
  <2>. QED
    BY <1>5, <2>1, ReadNestedReads DEF ReadInv
<1>6. CASE UNCHANGED codec_vars
  <2>1. how' = how /\ message' = message /\ stack' = stack /\ out' = out
    BY <1>6 DEF codec_vars
  <2>2. IsReading
    BY <2>1 DEF ReadInv
  <2>. QED
    BY <2>1, <2>2 DEF IsReading, IsReadChain, Depth
<1>7. ASSUME NEW m \in Messages, Start(m) PROVE FALSE
  BY <1>7 DEF Start
<1>8. CASE ReadReturns
  BY <1>8 DEF ReadReturns, EndCall
<1>9. CASE AppendReturns
  BY <1>9 DEF AppendReturns, EndCall
<1>10. CASE NextField \/ PackValue \/ PackRequest \/ PackLength
  BY <1>10 DEF NextField, PackValue, PackRequest, PackLength
<1>11. CASE AppendValue \/ AppendBytes \/ LoseBytes \/ AppendRequest \/ AppendLength
  BY <1>11 DEF AppendValue, AppendBytes, LoseBytes, AppendRequest, AppendLength
<1>. QED
  BY <1>2, <1>3, <1>4, <1>5, <1>6, <1>7, <1>8, <1>9, <1>10, <1>11 DEF CodecNext

(* pinba__request__unpack_merge (pinba.pb-c.c), given the bytes that         *)
(* pinba__request__pack wrote of a request, makes the same request of them:  *)
(* each field has the values that were meant, in their order, no string is   *)
(* cut, and a nested request ends where its length says.  So for every       *)
(* request that fits in a datagram, however deep requests nest.              *)
THEOREM ServerReads == CodecSpec => []ServerReadsIt
<1>1. CodecInit => ReadInv
  <2>1. CodecInit => how # "read"
    BY DEF CodecInit
  <2>. QED
    BY <2>1, WriteInit DEF ReadInv
<1>2. ReadInv => ServerReadsIt
  <2>. SUFFICES ASSUME ReadInv, HasRead, Depth = 1 PROVE Top.message = message
    BY DEF ServerReadsIt
  <2>1. IsReading /\ Top.buffer = Top.buffer_end
    BY DEF ReadInv, HasRead
  <2>2. PICK at : IsReadChain(at)
    BY <2>1 DEF IsReading
  <2>3. Top.message = at[Depth].message
    BY <2>1, <2>2, ReadsWhole
  <2>4. at[1].message = message
    BY <2>2 DEF IsReadChain
  <2>. QED
    BY <2>3, <2>4
<1>. QED
  BY <1>1, <1>2, ReadStep, PTL DEF CodecSpec
=============================================================================
