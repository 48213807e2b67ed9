-------------------------- MODULE MCReportContainer --------------------------
(* ReportContainer with a bound on the commands that wait on one list. *)
EXTENDS ReportContainer

CONSTANT MaxPending

Room == \A w \in Workers, l \in Chunks : Len(cmd_map[w][l]) <= MaxPending

MCSpec == Init /\ [][Next /\ Room']_vars
=============================================================================
