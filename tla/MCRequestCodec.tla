---------------------------- MODULE MCRequestCodec ----------------------------
(* Requests for TLC: their nested requests have lengths on either side of    *)
(* one, and of two bytes of length, and of the scratch buffer.               *)
EXTENDS RequestCodec

CONSTANTS Plain, Full  (* the lengths of the script names of nested requests *)

String(length) == [k \in 1 .. length |-> Word(97)]

(* Nothing but the required fields. *)
Required(script_name, count) ==
  [f \in Fields |->
     CASE f = 3 -> <<String(script_name)>>
       [] f \in {1, 2} -> <<String(3 - f)>>
       [] Type(f) \in {"uint32", "float"} /\ Label(f) = "required" -> <<count>>
       [] f = 19 -> <<<<>>>>
       [] f \in 10 .. 18 \union 20 .. 23 -> <<>>]

(* Every field, the repeated ones twice, but no nested request. *)
Everything(script_name, count) ==
  [f \in Fields |->
     CASE Label(f) = "repeated" /\ Type(f) \in {"uint32", "float"} -> <<count, {}>>
       [] f = 15 -> <<String(0), String(64)>>
       [] f \in {16, 17} -> <<count>>
       [] f = 19 -> <<String(16)>>
       [] f \notin 10 .. 23 \/ f = 18 -> Required(script_name, count)[f]]

Leaves ==
  {Required(n, {6}) : n \in Plain} \union {Everything(n, {7, 31}) : n \in Full}

With(m, requests) == [m EXCEPT ![18] = requests]

Top1 ==
  UNION {{With(Required(0, {}), <<m>>), With(Everything(0, {13}), <<m, Required(1, {})>>)} : m \in Leaves}
Top2 ==
  {With(Required(0, {0}), <<With(Required(0, {}), <<m>>)>>) : m \in Leaves}
    \union {With(Required(0, {}), <<With(Required(0, {}), <<m, m>>)>>) :
              m \in {Everything(n, {7, 31}) : n \in Full}}

Nested(requests) == UNION {{m[18][e] : e \in DOMAIN m[18]} : m \in requests}

MCMessages ==
  Leaves \union Top1 \union Nested(Top1) \union Top2 \union Nested(Top2)

MCNesting ==
  [m \in MCMessages |->
     CASE Nested({m}) = {} -> 0
       [] Nested({m}) # {} /\ Nested(Nested({m})) = {} -> 1
       [] Nested(Nested({m})) # {} -> 2]
=============================================================================
