-------------------------------- MODULE Startup --------------------------------
(***************************************************************************)
(* From main (main.cc) to the loops of its threads: the socket is opened   *)
(* (pinba_socket_open), the report manager made, and each worker started   *)
(* on an argument block of its own, which it reads some time later.        *)
(* Whatever may fail does: socket, setsockopt, calloc, bind,               *)
(* pthread_create.  What the threads do from then on is Pinba's.           *)
(***************************************************************************)
EXTENDS Integers

CONSTANTS
  WORKER_CNT,
  NULL

ASSUME WorkerCntAssumption == WORKER_CNT \in Nat

Workers == 0 .. WORKER_CNT - 1

(* What may be in the argument of a worker. *)
Args == [reports : Workers, s : {"socket"}]

ASSUME NullAssumption == NULL \notin Nat /\ NULL # "socket" /\ NULL \notin Args

VARIABLES
  main,     (* where main is.  pinba_socket_open returned NULL: "failed", or     *)
            (* "starved" if for want of memory; "returned": exit is still to end *)
            (* the threads                                                       *)
  i,        (* the worker it is about to start *)
  arg,      (* the block it fills for it *)
  listen,   (* the descriptor: "closed", "open", or "bound" to the address *)
  socket,   (* the pinba_socket: NULL, or allocated, with the descriptor in it *)
  count,    (* how many containers the report manager has; NULL: there is none *)
  args,     (* the argument blocks: the container and the socket, or NULL *)
  worker,   (* each thread: its pthread argument, and what it has read there *)
  merger    (* the merge thread: "none", "created", "running" *)

startup_vars == <<main, i, arg, listen, socket, count, args, worker, merger>>

NotStarted == [pc |-> "none", arg |-> NULL, reports |-> NULL, s |-> NULL]

StartupInit ==
  /\ main = "socket"
  /\ i = 0
  /\ arg = NULL
  /\ listen = "closed"
  /\ socket = NULL
  /\ count = NULL
  /\ args = [b \in Workers |-> NULL]
  /\ worker = [w \in Workers |-> NotStarted]
  /\ merger = "none"
-----------------------------------------------------------------------------
(* pinba_socket_open, system call by system call. *)
Socket ==
  /\ main = "socket"
  /\ \/ listen' = "open" /\ main' = "setsockopt"
     \/ listen' = listen /\ main' = "failed"
  /\ UNCHANGED <<i, arg, socket, count, args, worker, merger>>

SetReuseAddr ==
  /\ main = "setsockopt"
  /\ \/ main' = "calloc" /\ UNCHANGED listen
     \/ main' = "failed" /\ listen' = "closed"
  /\ UNCHANGED <<i, arg, socket, count, args, worker, merger>>

(* If there is no block for the socket, the descriptor stays open. *)
AllocateSocket ==
  /\ main = "calloc"
  /\ \/ socket' = "socket" /\ main' = "bind"
     \/ socket' = NULL /\ main' = "starved"
  /\ UNCHANGED <<i, arg, listen, count, args, worker, merger>>

(* Mutant: the socket is not closed. *)
pinba_socket_free_open ==
  /\ UNCHANGED listen
  /\ socket' = NULL

pinba_socket_free ==
  /\ listen' = "closed"
  /\ socket' = NULL

(* Mutant: the result of bind is not looked at. *)
Bind_unchecked ==
  /\ main = "bind"
  /\ main' = "manager"
  /\ listen' \in {"open", "bound"}
  /\ UNCHANGED <<i, arg, socket, count, args, worker, merger>>

Bind ==
  /\ main = "bind"
  /\ \/ listen' = "bound" /\ main' = "manager" /\ UNCHANGED socket
     \/ pinba_socket_free /\ main' = "failed"
  /\ UNCHANGED <<i, arg, count, args, worker, merger>>
-----------------------------------------------------------------------------
NewReportManager ==
  /\ main = "manager"
  /\ count' = WORKER_CNT
  /\ main' = "workers"
  /\ UNCHANGED <<i, arg, listen, socket, args, worker, merger>>

(* The containers are numbered. *)
get_thread_container(n) == IF n >= count THEN NULL ELSE n

(* Mutant: one block for all the workers. *)
NewArg_shared == {0}

(* Where calloc may find a block: no worker's block is ever freed. *)
NewArg == {b \in Workers : args[b] = NULL}

(* calloc and the three assignments.  A block that is not to be had crashes  *)
(* the program.                                                              *)
FillArg ==
  /\ main = "workers"
  /\ i < WORKER_CNT
  /\ \/ \E b \in NewArg :
          /\ arg' = b
          /\ args' = [args EXCEPT ![b] = [reports |-> get_thread_container(i), s |-> socket]]
          /\ main' = "create"
     \/ main' = "exited" /\ UNCHANGED <<arg, args>>
  /\ UNCHANGED <<i, listen, socket, count, worker, merger>>

CreateWorker ==
  /\ main = "create"
  /\ \/ /\ worker' = [worker EXCEPT
                         ![i] = [pc |-> "created", arg |-> arg, reports |-> NULL, s |-> NULL]]
        /\ i' = i + 1
        /\ main' = "workers"
     \/ main' = "returned" /\ UNCHANGED <<worker, i>>
  /\ UNCHANGED <<arg, listen, socket, count, args, merger>>

(* Mutant: one worker too few. *)
AllStarted_early == i + 1 >= WORKER_CNT

(* The loop over the workers is done. *)
AllStarted == i = WORKER_CNT

CreateMerger ==
  /\ main = "workers"
  /\ AllStarted
  /\ \/ merger' = "created" /\ main' = "console"
     \/ main' = "returned" /\ UNCHANGED merger
  /\ UNCHANGED <<i, arg, listen, socket, count, args, worker>>

(* exit, or return, ends the process and all its threads. *)
Exit ==
  /\ main \in {"failed", "starved", "returned"}
  /\ main' = "exited"
  /\ UNCHANGED <<i, arg, listen, socket, count, args, worker, merger>>
-----------------------------------------------------------------------------
(* worker_thread_fnc, when it gets to run. *)
StartWorker(w) ==
  /\ main # "exited"
  /\ worker[w].pc = "created"
  /\ worker' = [worker EXCEPT ![w].pc = "running",
                              ![w].reports = args[worker[w].arg].reports,
                              ![w].s = args[worker[w].arg].s]
  /\ UNCHANGED <<main, i, arg, listen, socket, count, args, merger>>

(* merge_thread_fnc *)
StartMerger ==
  /\ main # "exited"
  /\ merger = "created"
  /\ merger' = "running"
  /\ UNCHANGED <<main, i, arg, listen, socket, count, args, worker>>
-----------------------------------------------------------------------------
Main ==
  \/ Socket
  \/ SetReuseAddr
  \/ AllocateSocket
  \/ Bind
  \/ NewReportManager
  \/ FillArg
  \/ CreateWorker
  \/ CreateMerger
  \/ Exit

StartupNext ==
  \/ Main
  \/ \E w \in Workers : StartWorker(w)
  \/ StartMerger

StartupSpec == StartupInit /\ [][StartupNext]_startup_vars

(* Every thread is scheduled. *)
FairStartupSpec ==
  /\ StartupSpec
  /\ WF_startup_vars(Main)
  /\ \A w \in Workers : WF_startup_vars(StartWorker(w))
  /\ WF_startup_vars(StartMerger)
-----------------------------------------------------------------------------
Places ==
  {"socket", "setsockopt", "calloc", "bind", "failed", "starved",
   "manager", "workers", "create", "console", "returned", "exited"}

ThreadStates ==
  [pc : {"none", "created", "running"},
   arg : Workers \union {NULL}, reports : Workers \union {NULL}, s : {"socket", NULL}]

(* A block that was filled has a container in it. *)
StartupTypeOK ==
  /\ main \in Places
  /\ i \in 0 .. WORKER_CNT
  /\ arg \in Workers \union {NULL}
  /\ listen \in {"closed", "open", "bound"}
  /\ socket \in {"socket", NULL}
  /\ count \in {WORKER_CNT, NULL}
  /\ args \in [Workers -> Args \union {NULL}]
  /\ worker \in [Workers -> ThreadStates]
  /\ merger \in {"none", "created", "running"}

(***************************************************************************)
(* Worker w works on container w, however late it reads its argument: no   *)
(* two workers on one container, whose lists only one may fill, and none   *)
(* on a container that the merger's scan leaves out.                       *)
(***************************************************************************)
WorkersHaveOwnContainer ==
  \A w \in Workers : worker[w].pc = "running" => worker[w].reports = w

(* No worker calls recv but on the bound socket, which is never closed      *)
(* under it.                                                                *)
SocketIsBound ==
  \A w \in Workers :
    worker[w].pc = "running" => worker[w].s = socket /\ socket # NULL /\ listen = "bound"

(* When pinba_socket_open fails it leaves nothing behind: neither the       *)
(* descriptor nor the block, but for the descriptor it had no block for.    *)
NullMeansClosed == main = "failed" => listen = "closed" /\ socket = NULL

(* The program ends, or all its threads come to run.                        *)
EveryThreadStarts ==
  <>(\/ main = "exited"
     \/ merger = "running" /\ \A w \in Workers : worker[w].pc = "running")
=============================================================================
