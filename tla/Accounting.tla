----------------------------- MODULE Accounting -----------------------------
(***************************************************************************)
(* What the whole program promises of a request and a report: the request  *)
(* may go uncounted (the report did not exist where it was received), but  *)
(* once it is counted somewhere it is on its way to the main list, stays   *)
(* so until it gets there, and then stays there.                           *)
(***************************************************************************)
CONSTANTS
  ReportTypes,  (* the names of the reports *)
  Requests      (* the requests that may be received *)

VARIABLE status

Statuses == {"uncounted", "pending", "total"}

TypeOK == status \in [ReportTypes -> [Requests -> Statuses]]

Init == status = [t \in ReportTypes |-> [r \in Requests |-> "uncounted"]]

Move(from, to) ==
  /\ status' \in [ReportTypes -> [Requests -> Statuses]]
  /\ \A t \in ReportTypes, r \in Requests :
       \/ status'[t][r] = status[t][r]
       \/ status[t][r] = from /\ status'[t][r] = to

Count == Move("uncounted", "pending")
Merge == Move("pending", "total")

Next == Count \/ Merge

Spec == Init /\ [][Next]_status
=============================================================================
