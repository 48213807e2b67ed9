-------------------------------- MODULE Pinba --------------------------------
(***************************************************************************)
(* The running program (main.cc): WorkerCount worker threads that receive  *)
(* requests and count them into the reports of the list they hold          *)
(* (worker.cc), the merger thread that adds full lists into the main list  *)
(* and clears them (merger.cc, report_list.cc, reports.cc), and the main   *)
(* thread, here the console, that creates and shows reports by name        *)
(* (report_manager.cc).  They meet in the ReportContainers, whose          *)
(* operations are the actions of ReportContainer, and in the main list.    *)
(*                                                                         *)
(* Data.  A ReportData is what its req_count counts: how many times each   *)
(* request was added to it.  counted[w][l][t][r] is the multiplicity of    *)
(* request r in report t of list l of worker w, total[t][r] that in report *)
(* t of the main list.  A report keeps one ReportData per index; Index[r]  *)
(* is the index (server name) request r falls under, and the entry of      *)
(* report t at index i is counted[w][l][t] on the requests with that       *)
(* index.  That an entry exists with nothing counted in it is abstracted.  *)
(*                                                                         *)
(* Time.  `next' < now is the flag due[w]; how long a period lasts, and    *)
(* the sleeps of the merger and the console, are arbitrary delays.         *)
(*                                                                         *)
(* A datagram is the set of the well-formed requests in it, the top one    *)
(* and those nested in it; the empty set when nothing was received or      *)
(* decoded.  Each request is received once: a datagram a sender repeats is *)
(* made of new requests.                                                   *)
(***************************************************************************)
EXTENDS Integers, Sequences, FiniteSets, Functions

CONSTANTS
  WorkerCount,  (* WORKER_CNT *)
  ChunkCount,   (* lists per container *)
  ReportTypes,  (* the names typed at the console *)
  Requests,     (* the requests that may be received *)
  Indexes,      (* the report indexes *)
  Index,        (* the index of each request *)
  NoType        (* stands for no report name *)

ASSUME WorkerCountAssumption == WorkerCount \in Nat
ASSUME ListCountAssumption == ChunkCount \in Nat \ {0}
ASSUME IndexAssumption == Index \in [Requests -> Indexes]
ASSUME NoTypeAssumption == NoType \notin ReportTypes

Workers == 0 .. WorkerCount - 1
NoList == 0
Chunks == 1 .. ChunkCount

VARIABLES
  (* ReportContainer: *) empty_chunks, full_chunks, cmd_map, cmd_lock, reports,
  (* worker: *)  worker_pc, held, fresh, due,
  (* merger: *)  merger_pc, merger_i, found, merging, todo, cur, todo_idx,
  (* console: *) console_pc, console_i, name,
  (* counts: *)  counted, total, main_reports,
  (* network: *) received

container == <<empty_chunks, full_chunks, cmd_map, cmd_lock, reports>>
worker    == <<worker_pc, held, fresh, due>>
merger    == <<merger_pc, merger_i, found, merging, todo, cur, todo_idx>>
console   == <<console_pc, console_i, name>>
counts    == <<counted, total, main_reports>>
vars      == <<container, worker, merger, console, counts, received>>
-----------------------------------------------------------------------------
(***************************************************************************)
(* The containers, used by these threads: the lists a thread has are those *)
(* its local variables point to, and the reports asked for so far are the  *)
(* main list's and the one the console is adding to container after        *)
(* container.                                                              *)
(***************************************************************************)
WorkerHas == [w \in Workers |-> {held[w], fresh[w]} \ {NoList}]
MergerHas == [w \in Workers |-> IF w = merger_i THEN {merging} \ {NoList} ELSE {}]
Flushed   == [w \in Workers |-> IF w = merger_i /\ merger_pc = "push"
                                THEN {merging} ELSE {}]
Commanded == [w \in Workers |->
                IF \/ console_pc = "create" /\ w < console_i
                   \/ console_pc = "insert"
                THEN main_reports \union {name} ELSE main_reports]

C == INSTANCE ReportContainer
       WITH worker_has <- WorkerHas, merger_has <- MergerHas,
            flushed <- Flushed, commanded <- Commanded

Zero == [r \in Requests |-> 0]

Init ==
  /\ empty_chunks = [w \in Workers |-> [i \in 1 .. ChunkCount |-> i]]
  /\ full_chunks  = [w \in Workers |-> <<>>]
  /\ cmd_map      = [w \in Workers |-> [l \in Chunks |-> <<>>]]
  /\ cmd_lock     = [w \in Workers |-> NoList]
  /\ reports      = [w \in Workers |-> [l \in Chunks |-> {}]]
  /\ worker_pc = [w \in Workers |-> "top"]
  /\ held = [w \in Workers |-> NoList]
  /\ fresh = [w \in Workers |-> NoList]
  /\ due = [w \in Workers |-> TRUE]
  /\ merger_pc = "scan" /\ merger_i = 0 /\ found = FALSE /\ merging = NoList
  /\ todo = {} /\ cur = NoType /\ todo_idx = {}
  /\ console_pc = "prompt" /\ console_i = 0 /\ name = NoType
  /\ counted = [w \in Workers |-> [l \in Chunks |-> [t \in ReportTypes |-> Zero]]]
  /\ total = [t \in ReportTypes |-> Zero]
  /\ main_reports = {}
  /\ received = {}
-----------------------------------------------------------------------------
(***************************************************************************)
(* A worker thread (pinba_worker_loop).  At the top of the loop, once the  *)
(* period is over, it takes an empty list, and only if there is one gives  *)
(* back the list it holds; with no empty list it goes on with the one it   *)
(* has and tries again at the next turn.  Then it blocks in recv.          *)
(***************************************************************************)
PeriodElapses(w) ==
  /\ ~due[w]
  /\ due' = [due EXCEPT ![w] = TRUE]
  /\ UNCHANGED <<container, worker_pc, held, fresh, merger, console, counts,
                 received>>

(* Mutant: the list is given back before a new one is at hand. *)
KeepList_giving(w) ==
  /\ worker_pc[w] = "top"
  /\ due[w] => empty_chunks[w] = <<>>
  /\ worker_pc' = [worker_pc EXCEPT ![w] = "recv"]
  /\ UNCHANGED <<fresh, due, merger, console, counts, received>>
  /\ IF due[w] /\ held[w] # NoList
     THEN /\ held' = [held EXCEPT ![w] = NoList]
          /\ C!return_full_list(w, held[w])
     ELSE UNCHANGED <<container, held>>

KeepList(w) ==
  /\ worker_pc[w] = "top"
  /\ due[w] => empty_chunks[w] = <<>>
  /\ worker_pc' = [worker_pc EXCEPT ![w] = "recv"]
  /\ UNCHANGED <<container, held, fresh, due, merger, console, counts, received>>

TakeEmptyList(w) ==
  /\ worker_pc[w] = "top"
  /\ due[w]
  /\ \E l \in Chunks :
       /\ fresh' = [fresh EXCEPT ![w] = l]
       /\ UNCHANGED <<held, due, merger, console, counts, received>>
       /\ worker_pc' = [worker_pc EXCEPT ![w] = "swap"]
       /\ C!get_emty_list(w, l)

(* Mutant: the new list is given back in place of the old one. *)
SwapLists_crossed(w) ==
  /\ worker_pc[w] = "swap"
  /\ held' = [held EXCEPT ![w] = fresh[w]]
  /\ fresh' = [fresh EXCEPT ![w] = NoList]
  /\ due' = [due EXCEPT ![w] = FALSE]
  /\ worker_pc' = [worker_pc EXCEPT ![w] = "recv"]
  /\ UNCHANGED <<merger, console, counts, received>>
  /\ IF held[w] = NoList THEN UNCHANGED container
                         ELSE C!return_full_list(w, fresh[w])

SwapLists(w) ==
  /\ worker_pc[w] = "swap"
  /\ held' = [held EXCEPT ![w] = fresh[w]]
  /\ fresh' = [fresh EXCEPT ![w] = NoList]
  /\ due' = [due EXCEPT ![w] = FALSE]
  /\ worker_pc' = [worker_pc EXCEPT ![w] = "recv"]
  /\ UNCHANGED <<merger, console, counts, received>>
  /\ IF held[w] = NoList THEN UNCHANGED container
                         ELSE C!return_full_list(w, held[w])

(* Mutant: del_record in place of add_record. *)
CountIn_down(w, datagram) ==
  [t \in ReportTypes |-> [r \in Requests |->
     counted[w][held[w]][t][r]
       - (IF t \in reports[w][held[w]] /\ r \in datagram THEN 1 ELSE 0)]]

(* Every request of the datagram is added to every report of the list held. *)
CountIn(w, datagram) ==
  [t \in ReportTypes |-> [r \in Requests |->
     counted[w][held[w]][t][r]
       + (IF t \in reports[w][held[w]] /\ r \in datagram THEN 1 ELSE 0)]]

Receive(w) ==
  /\ worker_pc[w] = "recv"
  /\ worker_pc' = [worker_pc EXCEPT ![w] = "top"]
  /\ \E datagram \in SUBSET (Requests \ received) :
       /\ received' = received \union datagram
       /\ counted' = IF held[w] = NoList THEN counted
                     ELSE [counted EXCEPT ![w][held[w]] = CountIn(w, datagram)]
  /\ UNCHANGED <<container, held, fresh, due, merger, console, total,
                 main_reports>>
-----------------------------------------------------------------------------
(***************************************************************************)
(* The merger thread (merge_loop), container merger_i.  `todo' are the     *)
(* reports of the list being merged still to be visited, `cur' the one     *)
(* being merged, `todo_idx' its entries still to be added.  The order of   *)
(* the maps' iterators is left open.                                       *)
(***************************************************************************)
GetFullList ==
  /\ merger_pc = "scan"
  /\ merger_i < WorkerCount
  /\ \E l \in Chunks :
       /\ merging' = l
       /\ found' = TRUE
       /\ todo' = reports[merger_i][l]
       /\ merger_pc' = "merge"
       /\ UNCHANGED <<worker, merger_i, cur, todo_idx, console, counts, received>>
       /\ C!get_full_list(merger_i, l)

(* Mutant: the scan stops at a container without a full list. *)
SkipContainer_break ==
  /\ merger_pc = "scan"
  /\ merger_i < WorkerCount
  /\ full_chunks[merger_i] = <<>>
  /\ merger_i' = WorkerCount
  /\ UNCHANGED <<container, worker, merger_pc, found, merging, todo, cur,
                 todo_idx, console, counts, received>>

SkipContainer ==
  /\ merger_pc = "scan"
  /\ merger_i < WorkerCount
  /\ full_chunks[merger_i] = <<>>
  /\ merger_i' = merger_i + 1
  /\ UNCHANGED <<container, worker, merger_pc, found, merging, todo, cur,
                 todo_idx, console, counts, received>>

(* Mutant: the next scan does not start over. *)
EndScan_no_reset ==
  /\ merger_pc = "scan"
  /\ merger_i = WorkerCount
  /\ merger_pc' = IF found THEN "scan" ELSE "sleep"
  /\ found' = FALSE
  /\ UNCHANGED <<container, worker, merger_i, merging, todo, cur, todo_idx,
                 console, counts, received>>

(* The last container is done: sleep for a period if none had a full list. *)
EndScan ==
  /\ merger_pc = "scan"
  /\ merger_i = WorkerCount
  /\ merger_pc' = IF found THEN "scan" ELSE "sleep"
  /\ merger_i' = 0
  /\ found' = FALSE
  /\ UNCHANGED <<container, worker, merging, todo, cur, todo_idx, console,
                 counts, received>>

Wake ==
  /\ merger_pc = "sleep"
  /\ merger_pc' = "scan"
  /\ UNCHANGED <<container, worker, merger_i, found, merging, todo, cur,
                 todo_idx, console, counts, received>>

(***************************************************************************)
(* merge_reports looks each report up in the main list, without taking the *)
(* main list's lock.  The lookup of a name that is there succeeds; while   *)
(* the console is inserting a name into that same std::map the lookup may  *)
(* also miss any name.                                                     *)
(***************************************************************************)
FindReport(t) ==
  /\ merger_pc = "merge"
  /\ t \in todo
  /\ t \in main_reports
  /\ todo' = todo \ {t}
  /\ cur' = t
  /\ todo_idx' = Indexes
  /\ merger_pc' = "data"
  /\ UNCHANGED <<container, worker, merger_i, found, merging, console, counts,
                 received>>

(* Mutant: the report is cleared although it was not merged. *)
MissReport_clearing(t) ==
  /\ merger_pc = "merge"
  /\ t \in todo
  /\ t \notin main_reports \/ console_pc = "insert"
  /\ todo' = todo \ {t}
  /\ counted' = [counted EXCEPT ![merger_i][merging][t] = Zero]
  /\ UNCHANGED <<container, worker, merger_pc, merger_i, found, merging, cur,
                 todo_idx, console, total, main_reports, received>>

(* The report is skipped: neither merged nor cleared. *)
MissReport(t) ==
  /\ merger_pc = "merge"
  /\ t \in todo
  /\ t \notin main_reports \/ console_pc = "insert"
  /\ todo' = todo \ {t}
  /\ UNCHANGED <<container, worker, merger_pc, merger_i, found, merging, cur,
                 todo_idx, console, counts, received>>

(* Report::merge_report, one ReportData: req_count += data->req_count. *)
MergeData(i) ==
  /\ merger_pc = "data"
  /\ i \in todo_idx
  /\ todo_idx' = todo_idx \ {i}
  /\ total' = [total EXCEPT ![cur] = [r \in Requests |->
       @[r] + (IF Index[r] = i THEN counted[merger_i][merging][cur][r] ELSE 0)]]
  /\ UNCHANGED <<container, worker, merger_pc, merger_i, found, merging, todo,
                 cur, console, counted, main_reports, received>>

(* Mutant: the report is not cleared. *)
ClearReport_not ==
  /\ merger_pc = "data"
  /\ todo_idx = {}
  /\ merger_pc' = "merge"
  /\ cur' = NoType
  /\ UNCHANGED <<container, worker, merger_i, found, merging, todo, todo_idx,
                 console, counts, received>>

(* Report::clear, when all entries are merged. *)
ClearReport ==
  /\ merger_pc = "data"
  /\ todo_idx = {}
  /\ counted' = [counted EXCEPT ![merger_i][merging][cur] = Zero]
  /\ merger_pc' = "merge"
  /\ cur' = NoType
  /\ UNCHANGED <<container, worker, merger_i, found, merging, todo, todo_idx,
                 console, total, main_reports, received>>

(* return_empty_list, in the steps ReportContainer takes it in. *)
BeginReturn ==
  /\ merger_pc = "merge"
  /\ todo = {}
  /\ merger_pc' = "replay"
  /\ UNCHANGED <<worker, merger_i, found, merging, todo, cur, todo_idx, console,
                 counts, received>>
  /\ C!LockCommands(merger_i, merging)

(* A report the command creates, in place of none, has nothing counted. *)
RunCommand ==
  /\ merger_pc = "replay"
  /\ UNCHANGED <<worker, merger, console, total, main_reports, received>>
  /\ C!RunCommand(merger_i, merging)
  /\ counted' = [counted EXCEPT ![merger_i][merging] =
       [t \in ReportTypes |->
          IF t \in reports[merger_i][merging] THEN @[t] ELSE Zero]]

EndCommands ==
  /\ merger_pc = "replay"
  /\ merger_pc' = "push"
  /\ UNCHANGED <<worker, merger_i, found, merging, todo, cur, todo_idx, console,
                 counts, received>>
  /\ C!UnlockCommands(merger_i, merging)

EndReturn ==
  /\ merger_pc = "push"
  /\ merger_pc' = "scan"
  /\ merger_i' = merger_i + 1
  /\ merging' = NoList
  /\ UNCHANGED <<worker, found, todo, cur, todo_idx, console, counts, received>>
  /\ C!PushEmpty(merger_i, merging)
-----------------------------------------------------------------------------
(***************************************************************************)
(* The main thread.  get_report takes the main list's lock, return_report  *)
(* releases it; "show" and "insert" are the states it is held in.  Nobody  *)
(* else ever takes it.  Printing a report changes nothing.                 *)
(***************************************************************************)
ShowReport(t) ==
  /\ console_pc = "prompt"
  /\ t \in main_reports
  /\ console_pc' = "show"
  /\ UNCHANGED <<container, worker, merger, console_i, name, counts, received>>

ReturnReport ==
  /\ console_pc = "show"
  /\ console_pc' = "prompt"
  /\ UNCHANGED <<container, worker, merger, console_i, name, counts, received>>

(* Mutant: the name is not looked up first. *)
NewReport_unchecked(t) ==
  /\ console_pc = "prompt"
  /\ console_pc' = "create"
  /\ console_i' = 0
  /\ name' = t
  /\ UNCHANGED <<container, worker, merger, counts, received>>

(* ReportManager::add_new_report: first every container, in turn, ... *)
NewReport(t) ==
  /\ console_pc = "prompt"
  /\ t \notin main_reports
  /\ console_pc' = "create"
  /\ console_i' = 0
  /\ name' = t
  /\ UNCHANGED <<container, worker, merger, counts, received>>

TellContainer ==
  /\ console_pc = "create"
  /\ console_i < WorkerCount
  /\ console_i' = console_i + 1
  /\ UNCHANGED <<worker, merger, console_pc, name, counts, received>>
  /\ C!add_report(console_i, name)

(* ... then the main list: SharedReportList::add_report, under its lock. *)
BeginInsert ==
  /\ console_pc = "create"
  /\ console_i = WorkerCount
  /\ console_pc' = "insert"
  /\ UNCHANGED <<container, worker, merger, console_i, name, counts, received>>

(* Mutant: create_report returns NULL for the main list. *)
EndInsert_null ==
  /\ console_pc = "insert"
  /\ console_pc' = "prompt"
  /\ console_i' = 0
  /\ name' = NoType
  /\ UNCHANGED <<container, worker, merger, counts, received>>

EndInsert ==
  /\ console_pc = "insert"
  /\ console_pc' = "prompt"
  /\ main_reports' = main_reports \union {name}
  /\ total' = IF name \in main_reports THEN total ELSE [total EXCEPT ![name] = Zero]
  /\ console_i' = 0
  /\ name' = NoType
  /\ UNCHANGED <<container, worker, merger, counted, received>>
-----------------------------------------------------------------------------
WorkerStep(w) == KeepList(w) \/ TakeEmptyList(w) \/ SwapLists(w)

MergerStep ==
  \/ GetFullList \/ SkipContainer \/ EndScan \/ Wake
  \/ \E t \in todo : FindReport(t) \/ MissReport(t)
  \/ \E i \in todo_idx : MergeData(i)
  \/ ClearReport
  \/ BeginReturn \/ RunCommand \/ EndCommands \/ EndReturn

ConsoleStep ==
  ReturnReport \/ TellContainer \/ BeginInsert \/ EndInsert

Environment ==
  \/ \E w \in Workers : Receive(w) \/ PeriodElapses(w)
  \/ \E t \in ReportTypes : ShowReport(t) \/ NewReport(t)

Next ==
  \/ \E w \in Workers : WorkerStep(w)
  \/ MergerStep
  \/ ConsoleStep
  \/ Environment

Spec == Init /\ [][Next]_vars

(***************************************************************************)
(* Fairness: a thread that can take a step eventually does, and time goes  *)
(* on.  Nothing is assumed of the network and of the user at the console:  *)
(* a worker may wait in recv for ever.                                     *)
(***************************************************************************)
Fairness ==
  /\ \A w \in Workers : WF_vars(WorkerStep(w)) /\ WF_vars(PeriodElapses(w))
  /\ WF_vars(MergerStep)
  /\ WF_vars(ConsoleStep)

FairSpec == Spec /\ Fairness

(* The merger alone is scheduled. *)
MergerFairSpec == Spec /\ WF_vars(MergerStep)
-----------------------------------------------------------------------------
TypeOK ==
  /\ C!TypeOK
  /\ worker_pc \in [Workers -> {"top", "swap", "recv"}]
  /\ held \in [Workers -> Chunks \union {NoList}]
  /\ fresh \in [Workers -> Chunks \union {NoList}]
  /\ due \in [Workers -> BOOLEAN]
  /\ merger_pc \in {"scan", "merge", "data", "replay", "push", "sleep"}
  /\ merger_i \in 0 .. WorkerCount
  /\ found \in BOOLEAN
  /\ merging \in Chunks \union {NoList}
  /\ todo \in SUBSET ReportTypes
  /\ cur \in ReportTypes \union {NoType}
  /\ todo_idx \in SUBSET Indexes
  /\ console_pc \in {"prompt", "show", "create", "insert"}
  /\ console_i \in 0 .. WorkerCount
  /\ name \in ReportTypes \union {NoType}
  /\ counted \in [Workers -> [Chunks -> [ReportTypes -> [Requests -> Nat]]]]
  /\ total \in [ReportTypes -> [Requests -> Nat]]
  /\ main_reports \in SUBSET ReportTypes
  /\ received \in SUBSET Requests

(* The threads use the containers as ReportContainer allows. *)
ContainerSpec == C!Spec

(* What list l of worker w still has to contribute to total[t][r]: nothing *)
(* any more once its entry was added to the main report, cleared or not.   *)
Added(w, l, t, r) ==
  /\ merger_pc = "data" /\ w = merger_i /\ l = merging /\ t = cur
  /\ Index[r] \notin todo_idx

Owes(t, r) ==
  {wl \in Workers \X Chunks :
     counted[wl[1]][wl[2]][t][r] > 0 /\ ~Added(wl[1], wl[2], t, r)}

(***************************************************************************)
(* A request is never counted twice in a report, whatever the worker, the  *)
(* list and the turn of the merger: it is owed by one list at most, once,  *)
(* and by none when it is in the main list already.                        *)
(***************************************************************************)
CountedOnce ==
  \A t \in ReportTypes, r \in Requests :
    /\ total[t][r] \in {0, 1}
    /\ \A w \in Workers, l \in Chunks : counted[w][l][t][r] \in {0, 1}
    /\ total[t][r] = 1 => Owes(t, r) = {}
    /\ \A x, y \in Owes(t, r) : x = y

(***************************************************************************)
(* A worker that receives has a list to count in: the first turn of its    *)
(* loop always finds an empty one, so worker.cc never drops a request for  *)
(* want of a list.                                                         *)
(***************************************************************************)
NoRequestDropped ==
  \A w \in Workers : worker_pc[w] = "recv" => held[w] # NoList

(***************************************************************************)
(* A list has a report the main list lacks only while the console is still *)
(* creating that very report.                                              *)
(***************************************************************************)
MissingOnlyWhileCreated ==
  \A w \in Workers, l \in Chunks : \A t \in reports[w][l] \ main_reports :
    console_pc \in {"create", "insert"} /\ t = name

(***************************************************************************)
(* The console checks a name under the main list's lock and adds it after  *)
(* giving the lock back.  Even so no command ever asks a list for a report *)
(* it has, or will have by then: such a Report would be made and leaked.   *)
(***************************************************************************)
NoReportTwice ==
  \A w \in Workers, l \in Chunks :
    LET cmds == cmd_map[w][l]
    IN  \A i \in DOMAIN cmds :
          /\ cmds[i].type \notin reports[w][l]
          /\ \A j \in DOMAIN cmds : cmds[i].type = cmds[j].type => i = j

(* The counts implement Accounting: what is counted stays counted. *)
StatusOf(t, r) ==
  CASE total[t][r] > 0    -> "total"
    [] Owes(t, r) # {}    -> "pending"
    [] OTHER              -> "uncounted"

A == INSTANCE Accounting
       WITH status <- [t \in ReportTypes |-> [r \in Requests |-> StatusOf(t, r)]]

AccountingSpec == A!Spec
-----------------------------------------------------------------------------
(* The merger never leaves a full list unmerged: it comes back empty, with  *)
(* nobody's help.                                                          *)
FullListsReturn ==
  \A w \in Workers, l \in Chunks :
    l \in Range(full_chunks[w]) ~> l \in Range(empty_chunks[w])

(***************************************************************************)
(* As long as worker w keeps receiving something, even things it cannot    *)
(* decode, what it counted for a report of the main list reaches the main  *)
(* list.  (A worker that receives nothing keeps its list.)                 *)
(***************************************************************************)
TrafficIsMerged ==
  \A w \in Workers, t \in ReportTypes, r \in Requests :
    []<>(worker_pc[w] = "top") =>
      ((t \in main_reports /\ \E l \in Chunks : counted[w][l][t][r] > 0)
         ~> total[t][r] > 0)

(* With traffic, a report that was created is in every list some day. *)
ReportReachesLists ==
  \A w \in Workers, t \in ReportTypes :
    []<>(worker_pc[w] = "top") =>
      (t \in main_reports ~> \A l \in Chunks : t \in reports[w][l])
=============================================================================
