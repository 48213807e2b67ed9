------------------------------ MODULE ListCycle ------------------------------
(***************************************************************************)
(* What a ReportContainer promises its users, without saying how.  Every   *)
(* ReportList of every container has exactly one owner at any time, and    *)
(* its owner changes only along the cycle                                  *)
(*                                                                         *)
(*     empty --> worker --> full --> merger --> empty                      *)
(*                                                                         *)
(* so a worker and the merger are never given the same list, and a list a  *)
(* worker counted into reaches the merger before a worker sees it again.   *)
(***************************************************************************)
CONSTANTS
  Workers,   (* the worker threads, each with a container of its own *)
  Lists      (* the lists of one container *)

VARIABLE owner

Owners == {"empty", "worker", "full", "merger"}

TypeOK == owner \in [Workers -> [Lists -> Owners]]

Init == owner = [w \in Workers |-> [l \in Lists |-> "empty"]]

Pass(w, l, from, to) ==
  /\ owner[w][l] = from
  /\ owner' = [owner EXCEPT ![w][l] = to]

Next ==
  \E w \in Workers, l \in Lists :
    \/ Pass(w, l, "empty", "worker")
    \/ Pass(w, l, "worker", "full")
    \/ Pass(w, l, "full", "merger")
    \/ Pass(w, l, "merger", "empty")

Spec == Init /\ [][Next]_owner
=============================================================================
