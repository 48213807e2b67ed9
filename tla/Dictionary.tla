------------------------------ MODULE Dictionary ------------------------------
(***************************************************************************)
(* Dictionary::new_request (dictionary.cc): the tags of a request are      *)
(* numbers of words in its own dictionary, and become numbers in the       *)
(* server's.  They are renumbered in place, entry by entry, while those    *)
(* still to come are compared with the entries' numbers; the top bit marks *)
(* the ones that are done.  An entry is a step here.                       *)
(*                                                                         *)
(* A number is below 2 Mark, of which the top bit is Mark: 0x80000000 in   *)
(* the code.  What `tag_value' becomes is not modelled (see README).       *)
(***************************************************************************)
EXTENDS Integers, Sequences, FiniteSets

CONSTANTS
  Words,
  Requests,  (* what clients send: a dictionary and the tag_name that goes with it *)
  Mark,
  NoIndex    (* the word is not in inv_dict *)

Numbers == 0 .. 2 * Mark - 1

ASSUME MarkAssumption == Mark \in Nat \ {0}
ASSUME NoIndexAssumption == NoIndex \notin Nat

(* The dictionary of a datagram has far less than Mark entries. *)
ASSUME RequestsAssumption ==
  \A r \in Requests :
    /\ r.dictionary \in Seq(Words)
    /\ r.tag_name \in Seq(Numbers)
    /\ Len(r.dictionary) <= Mark

VARIABLES
  inv_dict,   (* the number of each word *)
  cur_pos,    (* the next number *)
  request,    (* as it was sent *)
  tag_name,   (* request->tag_name *)
  i           (* the entry the loop is at *)

vars == <<inv_dict, cur_pos, request, tag_name, i>>

Init ==
  /\ inv_dict = [w \in Words |-> NoIndex]
  /\ cur_pos = 0
  /\ request \in Requests
  /\ tag_name = request.tag_name
  /\ i = 0

(* A word keeps its number; a new one gets the next. *)
add_word(w) == IF inv_dict[w] = NoIndex THEN cur_pos ELSE inv_dict[w]

(* Mutant: the word is not kept. *)
Keep_not(w) ==
  /\ inv_dict' = inv_dict
  /\ cur_pos' = IF inv_dict[w] = NoIndex THEN cur_pos + 1 ELSE cur_pos

Keep(w) ==
  /\ inv_dict' = [inv_dict EXCEPT ![w] = add_word(w)]
  /\ cur_pos' = IF inv_dict[w] = NoIndex THEN cur_pos + 1 ELSE cur_pos

(* Mutant: no mark. *)
Marked_not(n) == n

(* n | Mark *)
Marked(n) == IF n < Mark THEN n + Mark ELSE n

NewRequest(r) ==
  /\ i = Len(request.dictionary)
  /\ request' = r
  /\ tag_name' = r.tag_name
  /\ i' = 0
  /\ UNCHANGED <<inv_dict, cur_pos>>

Entry ==
  /\ i < Len(request.dictionary)
  /\ LET word == request.dictionary[i + 1]
     IN  /\ Keep(word)
         /\ tag_name' = [j \in DOMAIN tag_name |->
                           IF tag_name[j] = i THEN Marked(add_word(word)) ELSE tag_name[j]]
  /\ i' = i + 1
  /\ UNCHANGED request

Next ==
  \/ \E r \in Requests : NewRequest(r)
  \/ Entry

Spec == Init /\ [][Next]_vars
-----------------------------------------------------------------------------
(* A number that is given is one before the next. *)
TypeOK ==
  /\ inv_dict \in [Words -> Nat \union {NoIndex}]
  /\ cur_pos \in Nat
  /\ \A w \in Words : inv_dict[w] # NoIndex => inv_dict[w] < cur_pos
  /\ request \in Requests
  /\ tag_name \in [DOMAIN request.tag_name -> Nat]
  /\ i \in 0 .. Len(request.dictionary)

(***************************************************************************)
(* A tag is renumbered once, by the entry it was sent with, whatever       *)
(* numbers the entries before gave to other tags; and one that names no    *)
(* entry stays as it was sent.                                             *)
(***************************************************************************)
Renumbered ==
  \A j \in DOMAIN request.tag_name :
    LET sent == request.tag_name[j]
    IN  IF sent < i
        THEN /\ inv_dict[request.dictionary[sent + 1]] # NoIndex
             /\ tag_name[j] = Marked(inv_dict[request.dictionary[sent + 1]])
        ELSE tag_name[j] = sent

(***************************************************************************)
(* In the end two tags have one number just when they name one word, even  *)
(* if the client's dictionary has the word twice; until the server has     *)
(* given more numbers than the mark leaves room for, 2^31.                 *)
(***************************************************************************)
TagsTellWords ==
  i = Len(request.dictionary) /\ cur_pos <= Mark =>
    \A j, k \in {t \in DOMAIN request.tag_name : request.tag_name[t] < i} :
      tag_name[j] = tag_name[k] <=>
        request.dictionary[request.tag_name[j] + 1] = request.dictionary[request.tag_name[k] + 1]
=============================================================================
