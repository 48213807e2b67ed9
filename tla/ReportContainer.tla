--------------------------- MODULE ReportContainer ---------------------------
(***************************************************************************)
(* The ReportContainers (report_container.h, report_container.cc) through  *)
(* which each worker thread hands its filled ReportLists to the merger     *)
(* thread and gets them back cleared.  ReportManager makes one container   *)
(* per worker, so every variable is a function on Workers.                 *)
(*                                                                         *)
(* A container owns ChunkCount lists, report_chunks[0 .. chunk_count - 1], *)
(* named 1 .. ChunkCount here so that 0 can stand for the NULL pointer.    *)
(* Its two mutexes guard different things:                                 *)
(*   - chunk_lock guards the deques empty_chunks and full_chunks.  Every   *)
(*     critical section under it is one deque operation: one action.       *)
(*   - cmd_lock guards cmd_map, the queues of report commands still to be  *)
(*     executed on each list.  return_empty_list keeps it for a whole loop *)
(*     and locks nothing else meanwhile; cmd_lock[w] is the list the loop  *)
(*     is working on, NoList when the mutex is free.                       *)
(*                                                                         *)
(* The operations below are the container's methods, or their steps.  Next *)
(* lets users call them as they may: worker_has[w] and merger_has[w] are   *)
(* the lists that the worker and the merger were given and did not give    *)
(* back.  Pinba.tla has the real threads.                                  *)
(***************************************************************************)
EXTENDS Integers, Sequences, Functions

CONSTANTS
  Workers,      (* the worker threads *)
  ChunkCount,   (* chunk_count, the constructor's argument *)
  ReportTypes   (* the report names commands speak of *)

ASSUME ChunkCountAssumption == ChunkCount \in Nat

NoList == 0
Chunks == 1 .. ChunkCount

(* A report_cmd_t; a command with a NULL producer deletes the report. *)
Commands == [producer : BOOLEAN, type : ReportTypes]

VARIABLES
  empty_chunks,  (* per worker: lists ready for the worker, oldest first *)
  full_chunks,   (* per worker: lists waiting for the merger, oldest first *)
  cmd_map,       (* per worker and list: commands to execute, oldest first *)
  cmd_lock,      (* per worker: the list whose commands are being executed *)
  reports,       (* per worker and list: the names of the reports it has *)
  worker_has,    (* per worker: the lists the worker has *)
  merger_has,    (* per worker: the lists the merger has *)
  flushed,       (* those of merger_has whose commands were executed *)
  commanded      (* history: the reports asked for by all commands so far *)

container == <<empty_chunks, full_chunks, cmd_map, cmd_lock, reports>>
users     == <<worker_has, merger_has, flushed, commanded>>
vars      == <<container, users>>

Init ==
  /\ empty_chunks = [w \in Workers |-> [i \in 1 .. ChunkCount |-> i]]
  /\ full_chunks  = [w \in Workers |-> <<>>]
  /\ cmd_map      = [w \in Workers |-> [l \in Chunks |-> <<>>]]
  /\ cmd_lock     = [w \in Workers |-> NoList]
  /\ reports      = [w \in Workers |-> [l \in Chunks |-> {}]]
  /\ worker_has   = [w \in Workers |-> {}]
  /\ merger_has   = [w \in Workers |-> {}]
  /\ flushed      = [w \in Workers |-> {}]
  /\ commanded    = [w \in Workers |-> {}]
-----------------------------------------------------------------------------
(***************************************************************************)
(* The deques.  A get on an empty deque returns NULL and changes nothing.  *)
(***************************************************************************)
get_emty_list(w, l) ==
  /\ empty_chunks[w] # <<>>
  /\ l = Head(empty_chunks[w])
  /\ empty_chunks' = [empty_chunks EXCEPT ![w] = Tail(@)]
  /\ UNCHANGED <<full_chunks, cmd_map, cmd_lock, reports>>

(* Mutant: the worker puts the list back where it took it from. *)
return_full_list_as_empty(w, l) ==
  /\ empty_chunks' = [empty_chunks EXCEPT ![w] = Append(@, l)]
  /\ UNCHANGED <<full_chunks, cmd_map, cmd_lock, reports>>

return_full_list(w, l) ==
  /\ full_chunks' = [full_chunks EXCEPT ![w] = Append(@, l)]
  /\ UNCHANGED <<empty_chunks, cmd_map, cmd_lock, reports>>

(* Mutant: the list is read but not erased from the deque. *)
get_full_list_unerased(w, l) ==
  /\ full_chunks[w] # <<>>
  /\ l = Head(full_chunks[w])
  /\ UNCHANGED container

get_full_list(w, l) ==
  /\ full_chunks[w] # <<>>
  /\ l = Head(full_chunks[w])
  /\ full_chunks' = [full_chunks EXCEPT ![w] = Tail(@)]
  /\ UNCHANGED <<empty_chunks, cmd_map, cmd_lock, reports>>
-----------------------------------------------------------------------------
(***************************************************************************)
(* return_empty_list: take cmd_lock, execute the list's commands one after *)
(* the other, release cmd_lock, and only then push the list, under         *)
(* chunk_lock.  A command may arrive between the last two.                 *)
(***************************************************************************)
LockCommands(w, l) ==
  /\ cmd_lock[w] = NoList
  /\ cmd_lock' = [cmd_lock EXCEPT ![w] = l]
  /\ UNCHANGED <<empty_chunks, full_chunks, cmd_map, reports>>

(* ReportList::add_report skips a name the list has; del_report one it lacks. *)
Execute(names, cmd) ==
  IF cmd.producer THEN names \union {cmd.type} ELSE names \ {cmd.type}

(* Mutant: the newest command is executed first. *)
RunCommand_newest(w, l) ==
  /\ cmd_lock[w] = l
  /\ cmd_map[w][l] # <<>>
  /\ LET n == Len(cmd_map[w][l])
     IN  /\ reports' = [reports EXCEPT ![w][l] = Execute(@, cmd_map[w][l][n])]
         /\ cmd_map' = [cmd_map EXCEPT ![w][l] = SubSeq(@, 1, n - 1)]
  /\ UNCHANGED <<empty_chunks, full_chunks, cmd_lock>>

RunCommand(w, l) ==
  /\ cmd_lock[w] = l
  /\ cmd_map[w][l] # <<>>
  /\ reports' = [reports EXCEPT ![w][l] = Execute(@, Head(cmd_map[w][l]))]
  /\ cmd_map' = [cmd_map EXCEPT ![w][l] = Tail(@)]
  /\ UNCHANGED <<empty_chunks, full_chunks, cmd_lock>>

UnlockCommands(w, l) ==
  /\ cmd_lock[w] = l
  /\ cmd_map[w][l] = <<>>
  /\ cmd_lock' = [cmd_lock EXCEPT ![w] = NoList]
  /\ UNCHANGED <<empty_chunks, full_chunks, cmd_map, reports>>

(* Mutant: the variable was set to NULL before the push. *)
PushEmpty_null(w, l) ==
  /\ empty_chunks' = [empty_chunks EXCEPT ![w] = Append(@, NoList)]
  /\ UNCHANGED <<full_chunks, cmd_map, cmd_lock, reports>>

PushEmpty(w, l) ==
  /\ empty_chunks' = [empty_chunks EXCEPT ![w] = Append(@, l)]
  /\ UNCHANGED <<full_chunks, cmd_map, cmd_lock, reports>>
-----------------------------------------------------------------------------
(* Mutant: the command is queued on the first list only. *)
Enqueue_first(w, cmd) ==
  /\ cmd_lock[w] = NoList
  /\ cmd_map' = [cmd_map EXCEPT ![w][1] = Append(@, cmd)]
  /\ UNCHANGED <<empty_chunks, full_chunks, cmd_lock, reports>>

(* Mutant: the command is executed on every list at once. *)
Enqueue_now(w, cmd) ==
  /\ cmd_lock[w] = NoList
  /\ reports' = [reports EXCEPT
                   ![w] = [l \in Chunks |-> Execute(reports[w][l], cmd)]]
  /\ UNCHANGED <<empty_chunks, full_chunks, cmd_map, cmd_lock>>

(* Queue one command on every list of the container, under cmd_lock. *)
Enqueue(w, cmd) ==
  /\ cmd_lock[w] = NoList
  /\ cmd_map' = [cmd_map EXCEPT
                   ![w] = [l \in Chunks |-> Append(cmd_map[w][l], cmd)]]
  /\ UNCHANGED <<empty_chunks, full_chunks, cmd_lock, reports>>

add_report(w, t) == Enqueue(w, [producer |-> TRUE,  type |-> t])
del_report(w, t) == Enqueue(w, [producer |-> FALSE, type |-> t])
-----------------------------------------------------------------------------
(***************************************************************************)
(* The users.  A worker gives back lists it has; the merger returns lists  *)
(* it has, once each, finishing a list's commands before pushing it.  Any  *)
(* thread may queue a command at any time.                                 *)
(***************************************************************************)
WorkerGets(w, l) ==
  /\ get_emty_list(w, l)
  /\ worker_has' = [worker_has EXCEPT ![w] = @ \union {l}]
  /\ UNCHANGED <<merger_has, flushed, commanded>>

WorkerReturns(w, l) ==
  /\ l \in worker_has[w]
  /\ return_full_list(w, l)
  /\ worker_has' = [worker_has EXCEPT ![w] = @ \ {l}]
  /\ UNCHANGED <<merger_has, flushed, commanded>>

MergerGets(w, l) ==
  /\ get_full_list(w, l)
  /\ merger_has' = [merger_has EXCEPT ![w] = @ \union {l}]
  /\ UNCHANGED <<worker_has, flushed, commanded>>

MergerLocks(w, l) ==
  /\ l \in merger_has[w] \ flushed[w]
  /\ LockCommands(w, l)
  /\ UNCHANGED users

MergerRuns(w, l) ==
  /\ RunCommand(w, l)
  /\ UNCHANGED users

MergerUnlocks(w, l) ==
  /\ UnlockCommands(w, l)
  /\ flushed' = [flushed EXCEPT ![w] = @ \union {l}]
  /\ UNCHANGED <<worker_has, merger_has, commanded>>

MergerPushes(w, l) ==
  /\ l \in flushed[w]
  /\ PushEmpty(w, l)
  /\ merger_has' = [merger_has EXCEPT ![w] = @ \ {l}]
  /\ flushed' = [flushed EXCEPT ![w] = @ \ {l}]
  /\ UNCHANGED <<worker_has, commanded>>

AnyoneCommands(w, t) ==
  /\ \/ /\ add_report(w, t)
        /\ commanded' = [commanded EXCEPT ![w] = @ \union {t}]
     \/ /\ del_report(w, t)
        /\ commanded' = [commanded EXCEPT ![w] = @ \ {t}]
  /\ UNCHANGED <<worker_has, merger_has, flushed>>

Next ==
  \E w \in Workers :
    \/ \E l \in Chunks :
         \/ WorkerGets(w, l)
         \/ WorkerReturns(w, l)
         \/ MergerGets(w, l)
         \/ MergerLocks(w, l)
         \/ MergerRuns(w, l)
         \/ MergerUnlocks(w, l)
         \/ MergerPushes(w, l)
    \/ \E t \in ReportTypes : AnyoneCommands(w, t)

Spec == Init /\ [][Next]_vars
-----------------------------------------------------------------------------
TypeOK ==
  /\ empty_chunks \in [Workers -> Seq(Chunks)]
  /\ full_chunks \in [Workers -> Seq(Chunks)]
  /\ cmd_map \in [Workers -> [Chunks -> Seq(Commands)]]
  /\ cmd_lock \in [Workers -> Chunks \union {NoList}]
  /\ reports \in [Workers -> [Chunks -> SUBSET ReportTypes]]
  /\ worker_has \in [Workers -> SUBSET Chunks]
  /\ merger_has \in [Workers -> SUBSET Chunks]
  /\ flushed \in [Workers -> SUBSET Chunks]
  /\ commanded \in [Workers -> SUBSET ReportTypes]

(* The four places a list can be in partition the lists of container w. *)
Partition(w) ==
  LET E == Range(empty_chunks[w])
      F == Range(full_chunks[w])
  IN  /\ IsInjective(empty_chunks[w])
      /\ IsInjective(full_chunks[w])
      /\ E \intersect F = {}
      /\ (E \union F) \intersect (worker_has[w] \union merger_has[w]) = {}
      /\ worker_has[w] \intersect merger_has[w] = {}
      /\ Chunks = E \union F \union worker_has[w] \union merger_has[w]

(***************************************************************************)
(* No list is lost, queued twice, or in the hands of two threads.  Nothing *)
(* else keeps the worker and the merger from using one list at once, since *)
(* a ReportList has no lock of its own.                                    *)
(***************************************************************************)
OneOwner == \A w \in Workers : Partition(w)

(* The reports a list has once the queued commands cmds have been executed: *)
(* the last command about a name decides, in the absence of one the list.   *)
Outcome(names, cmds) ==
  {t \in ReportTypes :
     IF \E i \in DOMAIN cmds : cmds[i].type = t
     THEN \E i \in DOMAIN cmds :
            /\ cmds[i].type = t
            /\ cmds[i].producer
            /\ \A j \in DOMAIN cmds : cmds[j].type = t => j <= i
     ELSE t \in names}

(***************************************************************************)
(* The lists of a container receive each command at a time of their own,   *)
(* whenever they pass through return_empty_list, in between other commands *)
(* of other times.  Still each of them is on its way to the same set of    *)
(* reports, the one asked for by the commands in the order they were given.*)
(***************************************************************************)
ListsConverge ==
  \A w \in Workers, l \in Chunks :
    Outcome(reports[w][l], cmd_map[w][l]) = commanded[w]

(***************************************************************************)
(* A command is executed (a Report is created in, or deleted from, a list) *)
(* only while the merger has the list: never under the worker, which       *)
(* counts into the list's reports without any lock, nor while the list is  *)
(* in the queue of empty ones.                                             *)
(***************************************************************************)
ReportsStable ==
  [][\A w \in Workers, l \in Chunks :
       reports'[w][l] # reports[w][l] =>
         /\ l \in merger_has[w]
         /\ l \notin worker_has[w]
         /\ l \notin Range(empty_chunks[w])]_vars

(* The container implements the ownership cycle of ListCycle. *)
OwnerOf(w, l) ==
  IF l \in worker_has[w] THEN "worker"
  ELSE IF l \in merger_has[w] THEN "merger"
  ELSE IF l \in Range(full_chunks[w]) THEN "full"
  ELSE "empty"

Cycle == INSTANCE ListCycle
  WITH Lists <- Chunks,
       owner <- [w \in Workers |-> [l \in Chunks |-> OwnerOf(w, l)]]

CycleSpec == Cycle!Spec
=============================================================================
