------------------------------- MODULE Report -------------------------------
(***************************************************************************)
(* The data of one report, entry by entry (reports.cc, base_report.cc,     *)
(* report_data.cc): the Report of a worker's list, and the Report of the   *)
(* same name in the main list.  While the list is the worker's, records    *)
(* are added to and deleted from it; while it is the merger's, its entries *)
(* are added one by one to the main report and then cleared one by one.    *)
(* (ReportContainer shows it is never both's.)  Meanwhile the console may  *)
(* walk the main report from index to index.                               *)
(*                                                                         *)
(* A ReportData is its req_count.  An index is a number, to have the order *)
(* of the std::map.  The console holds the main list's lock and the merger *)
(* takes none, so a lookup may run into an insertion in the same map: it   *)
(* then finds its way through a tree being rebalanced, and may pass over   *)
(* an index, though never to one that does not compare greater.            *)
(***************************************************************************)
EXTENDS Integers

CONSTANTS
  Indexes,   (* the indexes records fall under *)
  MaxCount   (* bound on the records added or deleted under one index *)

ASSUME IndexesAssumption == Indexes \subseteq Nat

VARIABLES
  report_data,  (* the list's report: index to req_count *)
  main_data,    (* the main report: index to req_count *)
  net,          (* history: records added less records deleted, by index *)
  merger_pc,    (* "away", or the step of merge_report and clear *)
  todo,         (* the entries the merger has still to visit in this loop *)
  cur,          (* the entry it is at *)
  dumping,      (* the console is walking the main report *)
  at,           (* the index it is at *)
  shown,        (* history: the indexes it has been at *)
  present,      (* history: the indexes there were when it started *)
  raced         (* history: one of its lookups ran into an insertion *)

merger  == <<merger_pc, todo, cur>>
console == <<dumping, at, shown, present, raced>>
vars    == <<report_data, main_data, net, merger, console>>

EmptyReport == [i \in {} |-> 0]

Init ==
  /\ report_data = EmptyReport
  /\ main_data = EmptyReport
  /\ net = [i \in Indexes |-> 0]
  /\ merger_pc = "away" /\ todo = {} /\ cur = 0
  /\ dumping = FALSE /\ at = 0 /\ shown = {} /\ present = {} /\ raced = FALSE
-----------------------------------------------------------------------------
Has(data, i) == i \in DOMAIN data

(* The count under an index, 0 where there is no entry. *)
At(data, i) == IF Has(data, i) THEN data[i] ELSE 0

Put(data, i, n) ==
  [j \in DOMAIN data \union {i} |-> IF j = i THEN n ELSE data[j]]

(* RequestReport::add_record and del_record: get_or_create, then the count. *)
add_record(i) ==
  /\ merger_pc = "away"
  /\ net[i] < MaxCount
  /\ report_data' = Put(report_data, i, At(report_data, i) + 1)
  /\ net' = [net EXCEPT ![i] = @ + 1]
  /\ UNCHANGED <<main_data, merger, console>>

del_record(i) ==
  /\ merger_pc = "away"
  /\ net[i] > -MaxCount
  /\ report_data' = Put(report_data, i, At(report_data, i) - 1)
  /\ net' = [net EXCEPT ![i] = @ - 1]
  /\ UNCHANGED <<main_data, merger, console>>
-----------------------------------------------------------------------------
(* Report::merge_report, called by the merger on the main report. *)
BeginMerge ==
  /\ merger_pc = "away"
  /\ merger_pc' = "merge"
  /\ todo' = DOMAIN report_data
  /\ UNCHANGED <<report_data, main_data, net, cur, console>>

(* An index the main report has. *)
MergeEntry(i) ==
  /\ merger_pc = "merge"
  /\ i \in todo
  /\ Has(main_data, i)
  /\ main_data' = Put(main_data, i, main_data[i] + report_data[i])
  /\ todo' = todo \ {i}
  /\ UNCHANGED <<report_data, net, merger_pc, cur, console>>

(* Mutant: an entry that came back to nothing, or below, is passed over. *)
PassEntry_unsigned(i) ==
  /\ merger_pc = "merge"
  /\ i \in todo
  /\ ~Has(main_data, i)
  /\ report_data[i] <= 0
  /\ todo' = todo \ {i}
  /\ UNCHANGED <<report_data, main_data, net, merger_pc, cur, console>>

(* An index the main report lacks, with nothing to add. *)
PassEntry(i) ==
  /\ merger_pc = "merge"
  /\ i \in todo
  /\ ~Has(main_data, i)
  /\ report_data[i] = 0
  /\ todo' = todo \ {i}
  /\ UNCHANGED <<report_data, main_data, net, merger_pc, cur, console>>

(* An index it lacks, with something to add: add_report_data inserts a new  *)
(* entry, from the first step to the second, and then it is merged into.    *)
BeginInsert(i) ==
  /\ merger_pc = "merge"
  /\ i \in todo
  /\ ~Has(main_data, i)
  /\ report_data[i] # 0
  /\ merger_pc' = "insert"
  /\ cur' = i
  /\ UNCHANGED <<report_data, main_data, net, todo, console>>

EndInsert ==
  /\ merger_pc = "insert"
  /\ merger_pc' = "fill"
  /\ main_data' = Put(main_data, cur, 0)
  /\ UNCHANGED <<report_data, net, todo, cur, console>>

FillEntry ==
  /\ merger_pc = "fill"
  /\ merger_pc' = "merge"
  /\ main_data' = Put(main_data, cur, main_data[cur] + report_data[cur])
  /\ todo' = todo \ {cur}
  /\ cur' = 0
  /\ UNCHANGED <<report_data, net, console>>

(* Report::clear: the entries stay, with nothing in them. *)
BeginClear ==
  /\ merger_pc = "merge"
  /\ todo = {}
  /\ merger_pc' = "clear"
  /\ todo' = DOMAIN report_data
  /\ UNCHANGED <<report_data, main_data, net, cur, console>>

ClearEntry(i) ==
  /\ merger_pc = "clear"
  /\ i \in todo
  /\ report_data' = Put(report_data, i, 0)
  /\ todo' = todo \ {i}
  /\ UNCHANGED <<main_data, net, merger_pc, cur, console>>

EndClear ==
  /\ merger_pc = "clear"
  /\ todo = {}
  /\ merger_pc' = "away"
  /\ UNCHANGED <<report_data, main_data, net, todo, cur, console>>
-----------------------------------------------------------------------------
(* The console: get_report_data_first, then get_report_data_next, which is  *)
(* upper_bound, of the index it is at.                                      *)
Above(S, i) == {j \in S : j > i}
IsLeast(S, i) == i \in S /\ \A j \in S : i <= j

DumpFirst ==
  /\ ~dumping
  /\ \E i \in Indexes :
       /\ IsLeast(DOMAIN main_data, i)
       /\ at' = i
       /\ shown' = {i}
  /\ dumping' = TRUE
  /\ present' = DOMAIN main_data
  /\ raced' = FALSE
  /\ UNCHANGED <<report_data, main_data, net, merger>>

(* Mutant: the next index in no order, that of an unordered_map. *)
DumpNext_unordered ==
  /\ dumping
  /\ \E i \in Above(DOMAIN main_data, at) :
       /\ at' = i
       /\ shown' = shown \union {i}
  /\ raced' = (raced \/ merger_pc = "insert")
  /\ UNCHANGED <<report_data, main_data, net, merger, dumping, present>>

DumpNext ==
  /\ dumping
  /\ \E i \in Above(DOMAIN main_data, at) :
       /\ merger_pc = "insert" \/ IsLeast(Above(DOMAIN main_data, at), i)
       /\ at' = i
       /\ shown' = shown \union {i}
  /\ raced' = (raced \/ merger_pc = "insert")
  /\ UNCHANGED <<report_data, main_data, net, merger, dumping, present>>

(* No index is found above: none is there, or a lookup in a race missed it. *)
EndDump ==
  /\ dumping
  /\ Above(DOMAIN main_data, at) = {} \/ merger_pc = "insert"
  /\ dumping' = FALSE
  /\ at' = 0
  /\ shown' = {}
  /\ present' = {}
  /\ raced' = FALSE
  /\ UNCHANGED <<report_data, main_data, net, merger>>
-----------------------------------------------------------------------------
Worker == \E i \in Indexes : add_record(i) \/ del_record(i)

Merger ==
  \/ BeginMerge
  \/ \E i \in todo : MergeEntry(i) \/ PassEntry(i) \/ BeginInsert(i)
  \/ EndInsert \/ FillEntry
  \/ BeginClear \/ (\E i \in todo : ClearEntry(i)) \/ EndClear

Console == DumpFirst \/ DumpNext \/ EndDump

Next == Worker \/ Merger \/ Console

Spec == Init /\ [][Next]_vars
-----------------------------------------------------------------------------
IsReport(data) ==
  /\ DOMAIN data \subseteq Indexes
  /\ data \in [DOMAIN data -> Int]

TypeOK ==
  /\ IsReport(report_data)
  /\ IsReport(main_data)
  /\ net \in [Indexes -> Int]
  /\ merger_pc \in {"away", "merge", "insert", "fill", "clear"}
  /\ todo \in SUBSET DOMAIN report_data
  /\ merger_pc \in {"insert", "fill"} => cur \in todo
  /\ dumping \in BOOLEAN
  /\ at \in Indexes \union {0}
  /\ shown \in SUBSET Indexes
  /\ present \in SUBSET Indexes
  /\ raced \in BOOLEAN

(* What the list's report has under i that the main report has not yet. *)
Pending(i) ==
  CASE merger_pc = "away"                    -> At(report_data, i)
    [] merger_pc \in {"merge", "insert", "fill"} ->
         IF i \in todo THEN At(report_data, i) ELSE 0
    [] merger_pc = "clear"                   -> 0

(***************************************************************************)
(* Every record added or deleted is accounted for once, under its index,   *)
(* in the list or in the main report: also the deletions that leave less   *)
(* than nothing under an index, and the entries left empty by earlier      *)
(* rounds, which the next merge visits again.                              *)
(***************************************************************************)
Conserved == \A i \in Indexes : At(main_data, i) + Pending(i) = net[i]

(***************************************************************************)
(* Whatever the merger adds behind the console's back or ahead of it, the  *)
(* console has been at each index that was there when it started and that  *)
(* is not above the one it is at: the walk leaves nothing out, unless one  *)
(* of its lookups ran into an insertion.                                   *)
(***************************************************************************)
WalkIsComplete ==
  dumping /\ ~raced => {i \in present : i <= at} \subseteq shown
=============================================================================
