--------------------------- MODULE DictionaryProofs ---------------------------
(* For every dictionary and every tag: a tag is renumbered once, by the      *)
(* entry it was sent with; and tags are equal just when their words are.     *)
EXTENDS Dictionary, TLAPS

(* No two words have one number. *)
WordsDiffer ==
  \A w, v \in Words : inv_dict[w] # NoIndex /\ inv_dict[w] = inv_dict[v] => w = v

IInv == TypeOK /\ Renumbered /\ WordsDiffer

(* A number that is marked is none that an entry has.                        *)
LEMMA MarkedIsAbove ==
  ASSUME NEW n \in Nat
  PROVE  Marked(n) \in Nat /\ Marked(n) >= Mark
BY MarkAssumption DEF Marked

LEMMA RequestTyping ==
  ASSUME NEW r \in Requests
  PROVE  /\ Len(r.dictionary) \in Nat /\ Len(r.dictionary) <= Mark
         /\ \A k \in 1 .. Len(r.dictionary) : r.dictionary[k] \in Words
         /\ \A j \in DOMAIN r.tag_name : r.tag_name[j] \in Nat
<1>1. r.dictionary \in Seq(Words) /\ r.tag_name \in Seq(Numbers) /\ Len(r.dictionary) <= Mark
  BY RequestsAssumption
<1>2. \A j \in DOMAIN r.tag_name : r.tag_name[j] \in Numbers
  BY <1>1
<1>. QED
  BY <1>1, <1>2, MarkAssumption DEF Numbers

(* A request that comes in has its tags as they were sent. *)
LEMMA FreshRequest ==
  ASSUME NEW r \in Requests
  PROVE  /\ r.tag_name \in [DOMAIN r.tag_name -> Nat]
         /\ \A j \in DOMAIN r.tag_name : ~(r.tag_name[j] < 0)
<1>1. r.tag_name \in Seq(Numbers)
  BY RequestsAssumption
<1>2. r.tag_name = [j \in DOMAIN r.tag_name |-> r.tag_name[j]]
  BY <1>1
<1>3. \A j \in DOMAIN r.tag_name : r.tag_name[j] \in Nat
  BY RequestTyping
<1>. QED
  BY <1>2, <1>3

LEMMA InitIInv == Init => IInv
<1>. SUFFICES ASSUME Init PROVE IInv
  OBVIOUS
<1>1. request \in Requests
  BY DEF Init
<1>2. tag_name \in [DOMAIN request.tag_name -> Nat]
      /\ \A j \in DOMAIN request.tag_name : ~(request.tag_name[j] < 0)
  BY <1>1, FreshRequest DEF Init
<1>3. Len(request.dictionary) \in Nat
  BY <1>1, RequestTyping
<1>4. TypeOK
  BY <1>1, <1>2, <1>3 DEF Init, TypeOK
<1>5. Renumbered
  BY <1>2 DEF Init, Renumbered
<1>6. WordsDiffer
  BY DEF Init, WordsDiffer
<1>. QED
  BY <1>4, <1>5, <1>6 DEF IInv

LEMMA NewRequestKeeps ==
  ASSUME IInv, NEW r \in Requests, NewRequest(r)
  PROVE  IInv'
<1>1. request' = r /\ tag_name' = r.tag_name /\ i' = 0
      /\ inv_dict' = inv_dict /\ cur_pos' = cur_pos
  BY DEF NewRequest
<1>2. r.tag_name \in [DOMAIN r.tag_name -> Nat]
      /\ \A j \in DOMAIN r.tag_name : ~(r.tag_name[j] < 0)
  BY FreshRequest
<1>3. Len(r.dictionary) \in Nat
  BY RequestTyping
<1>4. TypeOK'
  BY <1>1, <1>2, <1>3 DEF IInv, TypeOK
<1>5. Renumbered'
  BY <1>1, <1>2 DEF Renumbered
<1>6. WordsDiffer'
  BY <1>1 DEF IInv, WordsDiffer
<1>. QED
  BY <1>4, <1>5, <1>6 DEF IInv

LEMMA EntryKeeps ==
  ASSUME IInv, Entry
  PROVE  IInv'
<1>. DEFINE word == request.dictionary[i + 1]
<1>1. request \in Requests /\ i \in Nat /\ i < Len(request.dictionary)
  BY RequestTyping DEF IInv, TypeOK, Entry
<1>2. /\ Len(request.dictionary) \in Nat /\ Len(request.dictionary) <= Mark
      /\ \A k \in 1 .. Len(request.dictionary) : request.dictionary[k] \in Words
      /\ \A j \in DOMAIN request.tag_name : request.tag_name[j] \in Nat
  BY <1>1, RequestTyping
<1>3. word \in Words /\ i < Mark /\ i + 1 \in 1 .. Len(request.dictionary)
  BY <1>1, <1>2, MarkAssumption
<1>4. request' = request /\ i' = i + 1
  BY DEF Entry
<1>5. tag_name' = [j \in DOMAIN tag_name |->
                     IF tag_name[j] = i THEN Marked(add_word(word)) ELSE tag_name[j]]
  BY DEF Entry
<1>6. /\ inv_dict' = [inv_dict EXCEPT ![word] = add_word(word)]
      /\ cur_pos' = IF inv_dict[word] = NoIndex THEN cur_pos + 1 ELSE cur_pos
  BY DEF Entry, Keep
<1>7. /\ inv_dict \in [Words -> Nat \union {NoIndex}] /\ cur_pos \in Nat
      /\ tag_name \in [DOMAIN request.tag_name -> Nat]
      /\ \A w \in Words : inv_dict[w] # NoIndex => inv_dict[w] < cur_pos
  BY DEF IInv, TypeOK
<1>8. add_word(word) \in Nat /\ add_word(word) # NoIndex
  BY <1>3, <1>7, NoIndexAssumption DEF add_word
<1>9. inv_dict' \in [Words -> Nat \union {NoIndex}] /\ inv_dict'[word] = add_word(word)
  BY <1>3, <1>6, <1>7, <1>8
<1>10. \A w \in Words : inv_dict[w] # NoIndex => inv_dict'[w] = inv_dict[w]
  BY <1>3, <1>6, <1>7 DEF add_word
<1>11. TypeOK'
  <2>1. tag_name' \in [DOMAIN request.tag_name -> Nat]
    BY <1>5, <1>7, <1>8, MarkedIsAbove
  <2>2. cur_pos' \in Nat /\ cur_pos <= cur_pos'
    BY <1>6, <1>7
  <2>3. \A w \in Words : inv_dict'[w] # NoIndex => inv_dict'[w] < cur_pos'
    <3>. SUFFICES ASSUME NEW w \in Words, inv_dict'[w] # NoIndex
                  PROVE  inv_dict'[w] < cur_pos'
      OBVIOUS
    <3>1. CASE inv_dict[w] # NoIndex
      BY <1>7, <1>10, <2>2, <3>1
    <3>2. CASE inv_dict[w] = NoIndex
      <4>1. w = word
        BY <1>3, <1>6, <1>7, <3>2
      <4>2. inv_dict'[w] = cur_pos /\ cur_pos' = cur_pos + 1
        BY <1>6, <1>9, <3>2, <4>1 DEF add_word
      <4>. QED
        BY <1>7, <4>2
    <3>. QED
      BY <3>1, <3>2
  <2>4. i' \in 0 .. Len(request'.dictionary)
    BY <1>1, <1>2, <1>4
  <2>. QED
    BY <1>1, <1>4, <1>9, <2>1, <2>2, <2>3, <2>4 DEF TypeOK
<1>12. Renumbered'
  <2>. SUFFICES ASSUME NEW j \in DOMAIN request.tag_name
                PROVE  LET sent == request.tag_name[j]
                       IN  IF sent < i + 1
                           THEN /\ inv_dict'[request.dictionary[sent + 1]] # NoIndex
                                /\ tag_name'[j] = Marked(inv_dict'[request.dictionary[sent + 1]])
                           ELSE tag_name'[j] = sent
    BY <1>4 DEF Renumbered
  <2>. DEFINE sent == request.tag_name[j]
  <2>1. sent \in Nat
    BY <1>2
  <2>2. /\ j \in DOMAIN tag_name
        /\ tag_name'[j] = IF tag_name[j] = i THEN Marked(add_word(word)) ELSE tag_name[j]
    BY <1>5, <1>7
  <2>3. CASE sent < i
    <3>1. /\ inv_dict[request.dictionary[sent + 1]] # NoIndex
          /\ tag_name[j] = Marked(inv_dict[request.dictionary[sent + 1]])
      BY <2>3 DEF IInv, Renumbered
    <3>2. request.dictionary[sent + 1] \in Words
      <4>1. sent + 1 \in 1 .. Len(request.dictionary)
        BY <1>1, <1>2, <2>1, <2>3
      <4>. QED
        BY <1>2, <4>1
    <3>3. inv_dict[request.dictionary[sent + 1]] \in Nat
      BY <1>7, <3>1, <3>2
    <3>4. tag_name[j] # i
      <4>1. tag_name[j] \in Nat /\ tag_name[j] >= Mark
        BY <3>1, <3>3, MarkedIsAbove
      <4>. QED
        BY <1>1, <1>3, <4>1, MarkAssumption
    <3>5. tag_name'[j] = tag_name[j]
      BY <2>2, <3>4
    <3>6. inv_dict'[request.dictionary[sent + 1]] = inv_dict[request.dictionary[sent + 1]]
      BY <1>10, <3>1, <3>2
    <3>7. sent < i + 1
      BY <1>1, <2>1, <2>3
    <3>. QED
      BY <3>1, <3>5, <3>6, <3>7
  <2>4. CASE sent = i
    <3>1. tag_name[j] = i
      BY <1>1, <2>4 DEF IInv, Renumbered
    <3>2. tag_name'[j] = Marked(add_word(word))
      BY <2>2, <3>1
    <3>3. sent < i + 1
      BY <1>1, <2>4
    <3>. QED
      BY <1>8, <1>9, <2>4, <3>2, <3>3
  <2>5. CASE sent > i
    <3>1. tag_name[j] = sent
      BY <1>1, <2>1, <2>5 DEF IInv, Renumbered
    <3>2. ~(sent < i + 1) /\ sent # i
      BY <1>1, <2>1, <2>5
    <3>. QED
      BY <2>2, <3>1, <3>2
  <2>. QED
    BY <1>1, <2>1, <2>3, <2>4, <2>5
<1>13. WordsDiffer'
  <2>. SUFFICES ASSUME NEW w \in Words, NEW v \in Words,
                       inv_dict'[w] # NoIndex, inv_dict'[w] = inv_dict'[v]
                PROVE  w = v
    BY DEF WordsDiffer
  <2>1. \A u \in Words : u # word => inv_dict'[u] = inv_dict[u]
    BY <1>3, <1>6, <1>7
  <2>2. CASE inv_dict[word] # NoIndex
    <3>1. inv_dict'[word] = inv_dict[word]
      BY <1>3, <1>10, <2>2
    <3>. QED
      BY <2>1, <3>1 DEF IInv, WordsDiffer
  <2>3. CASE inv_dict[word] = NoIndex
    <3>1. inv_dict'[word] = cur_pos
      BY <1>9, <2>3 DEF add_word
    <3>2. \A u \in Words : inv_dict[u] # cur_pos
      BY <1>7, NoIndexAssumption
    <3>. QED
      BY <2>1, <3>1, <3>2 DEF IInv, WordsDiffer
  <2>. QED
    BY <2>2, <2>3
<1>. QED
  BY <1>11, <1>12, <1>13 DEF IInv

LEMMA StepIInv == IInv /\ [Next]_vars => IInv'
<1>. SUFFICES ASSUME IInv, [Next]_vars PROVE IInv'
  OBVIOUS
<1>1. ASSUME NEW r \in Requests, NewRequest(r) PROVE IInv'
  BY <1>1, NewRequestKeeps
<1>2. CASE Entry
  BY <1>2, EntryKeeps
<1>3. CASE UNCHANGED vars
  BY <1>3 DEF vars, IInv, TypeOK, Renumbered, WordsDiffer
<1>. QED
  BY <1>1, <1>2, <1>3 DEF Next

(* Every tag of every request is renumbered once, by the entry it was sent   *)
(* with (dictionary.cc, the mark of the top bit), for every dictionary.      *)
THEOREM RenumberedOnce == Spec => []Renumbered
<1>1. IInv => Renumbered
  BY DEF IInv
<1>. QED
  BY <1>1, InitIInv, StepIInv, PTL DEF Spec

(* The mark keeps apart the numbers below it. *)
LEMMA MarkedApart ==
  ASSUME NEW n \in Nat, NEW k \in Nat, n < Mark, k < Mark
  PROVE  Marked(n) = Marked(k) <=> n = k
BY MarkAssumption DEF Marked

(* Two tags of a request get one number just when they name one word         *)
(* (dictionary.cc), as long as the server knows no more than 2^31 words.     *)
THEOREM EqualTags == Spec => []TagsTellWords
<1>1. ASSUME IInv PROVE TagsTellWords
  <2>. SUFFICES ASSUME cur_pos <= Mark,
                       NEW j \in DOMAIN request.tag_name, request.tag_name[j] < i,
                       NEW k \in DOMAIN request.tag_name, request.tag_name[k] < i
                PROVE  tag_name[j] = tag_name[k] <=>
                         request.dictionary[request.tag_name[j] + 1]
                           = request.dictionary[request.tag_name[k] + 1]
    BY DEF TagsTellWords
  <2>. DEFINE word(t) == request.dictionary[request.tag_name[t] + 1]
  <2>1. request \in Requests /\ i \in 0 .. Len(request.dictionary)
    BY <1>1 DEF IInv, TypeOK
  <2>2. ASSUME NEW t \in DOMAIN request.tag_name, request.tag_name[t] < i
        PROVE  /\ word(t) \in Words
               /\ inv_dict[word(t)] \in Nat /\ inv_dict[word(t)] < Mark
               /\ tag_name[t] = Marked(inv_dict[word(t)])
    <3>1. request.tag_name[t] + 1 \in 1 .. Len(request.dictionary)
      BY <2>1, <2>2, RequestTyping
    <3>2. word(t) \in Words
      BY <2>1, <3>1, RequestTyping
    <3>3. inv_dict[word(t)] # NoIndex /\ tag_name[t] = Marked(inv_dict[word(t)])
      BY <1>1, <2>2 DEF IInv, Renumbered
    <3>4. inv_dict[word(t)] \in Nat /\ inv_dict[word(t)] < cur_pos /\ cur_pos \in Nat
      BY <1>1, <3>2, <3>3 DEF IInv, TypeOK
    <3>. QED
      BY <3>2, <3>3, <3>4, MarkAssumption
  <2>3. inv_dict[word(j)] # NoIndex
    BY <2>2, NoIndexAssumption
  <2>4. inv_dict[word(j)] = inv_dict[word(k)] <=> word(j) = word(k)
    BY <1>1, <2>2, <2>3 DEF IInv, WordsDiffer
  <2>5. tag_name[j] = tag_name[k] <=> inv_dict[word(j)] = inv_dict[word(k)]
    BY <2>2, MarkedApart
  <2>. QED
    BY <2>4, <2>5
<1>. QED
  BY <1>1, InitIInv, StepIInv, PTL DEF Spec
=============================================================================
