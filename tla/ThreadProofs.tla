----------------------------- MODULE ThreadProofs -----------------------------
(***************************************************************************)
(* How the threads come to run, and how they go by the wall clock, which   *)
(* may be set at any time.                                                 *)
(*                                                                         *)
(* For any number of workers, each works on the container of its own       *)
(* number, and on the bound socket, however late it reads its argument     *)
(* (Startup).  The argument: a block that was filled is never filled       *)
(* again, since calloc gives out free ones only; so the block a thread was *)
(* given keeps what main put there for it.  And nothing is started before  *)
(* bind.                                                                   *)
(*                                                                         *)
(* For any period, any microseconds in a second and any settings of the    *)
(* clock, the worker swaps its lists neither before the period is over nor *)
(* later than the clock says (WorkerClock).  The argument: timeradd adds   *)
(* and timercmp compares the microseconds a timeval stands for, as long as *)
(* it is normal; the clock is the time that passed and what it was set by; *)
(* so next is that of the last swap, and the period on top.                *)
(*                                                                         *)
(* For any threads and messages, what the error log drops is its last      *)
(* line, no older than the clock was set back by; no line follows itself   *)
(* within a second; the lines are in order (ErrorLog).                     *)
(***************************************************************************)
EXTENDS Startup, WorkerClock, ErrorLog, TLAPS

Before == {"socket", "setsockopt", "calloc", "bind", "failed", "starved"}

Managed == {"workers", "create", "console", "returned"}

(* Nothing is started before the socket is bound and the containers made. *)
Order ==
  /\ main \in Before \union {"manager"} => \A w \in Workers : worker[w].pc = "none"
  /\ main \in Managed => count = WORKER_CNT
  /\ main \in Managed \union {"manager"} => socket = "socket" /\ listen = "bound"
  /\ main = "bind" => socket = "socket"

Filled(b, w) == b \in Workers /\ args[b] = [reports |-> w, s |-> "socket"]

(* What main put into a block is what its worker finds there. *)
Given ==
  /\ main = "create" => i < WORKER_CNT /\ Filled(arg, i)
  /\ \A w \in Workers : worker[w].pc # "none" =>
       /\ socket = "socket"
       /\ listen = "bound"
       /\ Filled(worker[w].arg, w)
  /\ \A w \in Workers : worker[w].pc = "running" =>
       worker[w].reports = w /\ worker[w].s = "socket"

Closed == main = "failed" => listen = "closed" /\ socket = NULL

(* A socket is allocated only after the descriptor is open. *)
Unallocated == main \in {"socket", "setsockopt", "calloc"} => socket = NULL

ClosedFirst == main = "socket" => listen = "closed"

StartupInv == StartupTypeOK /\ Order /\ Given /\ Closed /\ Unallocated /\ ClosedFirst

LEMMA StartupInvInit == StartupInit => StartupInv
<1> SUFFICES ASSUME StartupInit PROVE StartupInv
  OBVIOUS
<1> USE WorkerCntAssumption, NullAssumption
<1>1. StartupTypeOK
  <2>1. [b \in Workers |-> NULL] \in [Workers -> Args \union {NULL}]
    OBVIOUS
  <2>2. NotStarted \in ThreadStates
    BY DEF NotStarted, ThreadStates
  <2>3. [w \in Workers |-> NotStarted] \in [Workers -> ThreadStates]
    BY <2>2
  <2> QED BY <2>1, <2>3 DEF StartupInit, StartupTypeOK, Places
<1>2. Order
  BY DEF StartupInit, Order, Before, Managed, NotStarted
<1>3. Given
  BY DEF StartupInit, Given, NotStarted
<1>4. Closed /\ Unallocated /\ ClosedFirst
  BY DEF StartupInit, Closed, Unallocated, ClosedFirst
<1> QED BY <1>1, <1>2, <1>3, <1>4 DEF StartupInv

(* Opening the socket: no worker is there yet. *)
LEMMA OpenStep ==
  ASSUME StartupInv, Socket \/ SetReuseAddr \/ AllocateSocket \/ Bind \/ NewReportManager \/ Exit
  PROVE  StartupInv'
<1> USE WorkerCntAssumption, NullAssumption DEF StartupInv
<1>1. CASE Socket
  BY <1>1 DEF Socket, StartupTypeOK, Places, Order, Before, Managed, Given, Filled, Closed, Unallocated, ClosedFirst
<1>2. CASE SetReuseAddr
  BY <1>2 DEF SetReuseAddr, StartupTypeOK, Places, Order, Before, Managed, Given, Filled, Closed, Unallocated, ClosedFirst
<1>3. CASE AllocateSocket
  BY <1>3 DEF AllocateSocket, StartupTypeOK, Places, Order, Before, Managed, Given, Filled, Closed, Unallocated, ClosedFirst
<1>4. CASE Bind
  BY <1>4 DEF Bind, pinba_socket_free, StartupTypeOK, Places, Order, Before, Managed, Given, Filled, Closed, Unallocated, ClosedFirst
<1>5. CASE NewReportManager
  BY <1>5 DEF NewReportManager, StartupTypeOK, Places, Order, Before, Managed, Given, Filled, Closed, Unallocated, ClosedFirst
<1>6. CASE Exit
  BY <1>6 DEF Exit, StartupTypeOK, Places, Order, Before, Managed, Given, Filled, Closed, Unallocated, ClosedFirst
<1> QED BY <1>1, <1>2, <1>3, <1>4, <1>5, <1>6

(* A block that is filled was free: no worker has it. *)
LEMMA FillStep == ASSUME StartupInv, FillArg PROVE StartupInv'
<1> USE WorkerCntAssumption, NullAssumption DEF StartupInv
<1>1. CASE main' = "exited" /\ UNCHANGED <<arg, args>>
  BY <1>1 DEF FillArg, StartupTypeOK, Places, Order, Before, Managed, Given, Filled, Closed, Unallocated, ClosedFirst
<1>2. ASSUME NEW b \in NewArg,
             arg' = b,
             args' = [args EXCEPT ![b] = [reports |-> get_thread_container(i), s |-> socket]],
             main' = "create"
      PROVE  StartupInv'
  <2>1. /\ i \in Workers /\ i < WORKER_CNT /\ socket = "socket" /\ listen = "bound"
        /\ count = WORKER_CNT
    BY DEF FillArg, Order, Managed, StartupTypeOK, Workers
  <2>2. get_thread_container(i) = i
    BY <2>1 DEF get_thread_container, Workers
  <2>3. b \in Workers /\ args[b] = NULL
    BY <1>2 DEF NewArg
  <2>4. args' = [args EXCEPT ![b] = [reports |-> i, s |-> "socket"]]
    BY <1>2, <2>1, <2>2
  <2>5. args \in [Workers -> Args \union {NULL}]
    BY DEF StartupTypeOK
  <2>6. args'[b] = [reports |-> i, s |-> "socket"]
    BY <2>3, <2>4, <2>5
  <2>7. \A c \in Workers : c # b => args'[c] = args[c]
    BY <2>4, <2>5
  <2>8. [reports |-> i, s |-> "socket"] \in Args
    BY <2>1 DEF Args
  <2>9. args' \in [Workers -> Args \union {NULL}]
    BY <2>4, <2>5, <2>8
  <2>10. UNCHANGED <<i, listen, socket, count, worker, merger>>
    BY DEF FillArg
  <2>11. StartupTypeOK'
    BY <1>2, <2>3, <2>9, <2>10 DEF StartupTypeOK, Places
  <2>12. \A w \in Workers : NULL # [reports |-> w, s |-> "socket"]
    BY DEF Args
  <2>13. \A w \in Workers : worker[w].pc # "none" => Filled(worker[w].arg, w)'
    <3> SUFFICES ASSUME NEW w \in Workers, worker[w].pc # "none"
                 PROVE  Filled(worker[w].arg, w)'
      OBVIOUS
    <3>1. Filled(worker[w].arg, w)
      BY DEF Given
    <3>2. worker[w].arg # b
      BY <3>1, <2>3, <2>12 DEF Filled
    <3> QED BY <3>1, <3>2, <2>7, <2>10 DEF Filled
  <2>14. Given'
    BY <1>2, <2>1, <2>3, <2>6, <2>10, <2>13 DEF Given, Filled
  <2>15. Order' /\ Closed' /\ Unallocated' /\ ClosedFirst'
    BY <1>2, <2>1, <2>10 DEF Order, Before, Managed, Closed, Unallocated, ClosedFirst
  <2> QED BY <2>11, <2>14, <2>15
<1> QED BY <1>1, <1>2 DEF FillArg

(* A thread is given its own block. *)
LEMMA CreateStep == ASSUME StartupInv, CreateWorker \/ CreateMerger PROVE StartupInv'
<1> USE WorkerCntAssumption, NullAssumption DEF StartupInv
<1>1. CASE CreateMerger
  BY <1>1 DEF CreateMerger, StartupTypeOK, Places, Order, Before, Managed, Given, Filled, Closed, Unallocated, ClosedFirst
<1>2. CASE CreateWorker /\ main' = "returned"
  BY <1>2 DEF CreateWorker, StartupTypeOK, Places, Order, Before, Managed, Given, Filled, Closed, Unallocated, ClosedFirst
<1> DEFINE t == [pc |-> "created", arg |-> arg, reports |-> NULL, s |-> NULL]
<1>3. CASE /\ CreateWorker
           /\ worker' = [worker EXCEPT ![i] = t]
           /\ i' = i + 1
           /\ main' = "workers"
  <2>2. /\ main = "create" /\ i \in Workers /\ i < WORKER_CNT /\ Filled(arg, i)
        /\ UNCHANGED <<arg, listen, socket, count, args, merger>>
    BY <1>3 DEF CreateWorker, Given, StartupTypeOK, Workers
  <2>3. t \in ThreadStates /\ t.pc = "created" /\ t.arg = arg
    BY <2>2 DEF ThreadStates, Filled
  <2>4. worker' = [worker EXCEPT ![i] = t]
    BY <1>3
  <2> HIDE DEF t
  <2>5. worker \in [Workers -> ThreadStates]
    BY DEF StartupTypeOK
  <2>6. worker'[i] = t /\ \A w \in Workers : w # i => worker'[w] = worker[w]
    BY <2>2, <2>4, <2>5
  <2>7. worker' \in [Workers -> ThreadStates]
    BY <2>3, <2>4, <2>5
  <2>8. i' \in 0 .. WORKER_CNT
    BY <1>3, <2>2 DEF Workers
  <2>9. StartupTypeOK'
    BY <1>3, <2>2, <2>7, <2>8 DEF StartupTypeOK, Places
  <2>10. socket = "socket" /\ listen = "bound"
    BY <2>2 DEF Order, Managed
  <2>11. \A w \in Workers : worker'[w].pc # "none" =>
           socket' = "socket" /\ listen' = "bound" /\ Filled(worker[w].arg, w)'
    BY <2>2, <2>3, <2>6, <2>10 DEF Given, Filled
  <2>12. \A w \in Workers : worker'[w].pc = "running" =>
           worker'[w].reports = w /\ worker'[w].s = "socket"
    BY <2>3, <2>6 DEF Given
  <2>13. Given'
    BY <1>3, <2>11, <2>12 DEF Given
  <2>14. Order' /\ Closed' /\ Unallocated' /\ ClosedFirst'
    BY <1>3, <2>2 DEF Order, Before, Managed, Closed, Unallocated, ClosedFirst
  <2> QED BY <2>9, <2>13, <2>14
<1> QED BY <1>1, <1>2, <1>3 DEF CreateWorker

(* What a thread reads is what it was given. *)
LEMMA StartStep ==
  ASSUME StartupInv, NEW w \in Workers, StartWorker(w)
  PROVE  StartupInv'
<1> USE WorkerCntAssumption, NullAssumption DEF StartupInv
<1> DEFINE t == [worker[w] EXCEPT !.pc = "running",
                                  !.reports = args[worker[w].arg].reports,
                                  !.s = args[worker[w].arg].s]
<1>1. worker \in [Workers -> ThreadStates] /\ worker[w].pc = "created"
  BY DEF StartWorker, StartupTypeOK
<1>2. socket = "socket" /\ listen = "bound" /\ Filled(worker[w].arg, w)
  BY <1>1 DEF Given
<1>3. args[worker[w].arg].reports = w /\ args[worker[w].arg].s = "socket"
  BY <1>2 DEF Filled
<1>4. worker[w] \in ThreadStates
  BY <1>1
<1>5. /\ t \in ThreadStates /\ t.pc = "running" /\ t.arg = worker[w].arg
      /\ t.reports = w /\ t.s = "socket"
  BY <1>3, <1>4 DEF ThreadStates
<1>6. worker' = [worker EXCEPT ![w] = t]
  BY <1>1 DEF StartWorker
<1> HIDE DEF t
<1>7. worker'[w] = t /\ \A v \in Workers : v # w => worker'[v] = worker[v]
  BY <1>1, <1>6
<1>8. worker' \in [Workers -> ThreadStates]
  BY <1>1, <1>5, <1>6
<1>9. UNCHANGED <<main, i, arg, listen, socket, count, args, merger>>
  BY DEF StartWorker
<1>10. StartupTypeOK'
  BY <1>8, <1>9 DEF StartupTypeOK
<1>11. main \notin Before \union {"manager"}
  BY <1>1 DEF Order
<1>12. \A v \in Workers : worker'[v].pc # "none" =>
         socket' = "socket" /\ listen' = "bound" /\ Filled(worker[v].arg, v)'
  BY <1>2, <1>5, <1>7, <1>9 DEF Given, Filled
<1>13. \A v \in Workers : worker'[v].pc = "running" =>
         worker'[v].reports = v /\ worker'[v].s = "socket"
  BY <1>5, <1>7 DEF Given
<1>14. main' = "create" => i' < WORKER_CNT /\ Filled(arg, i)'
  BY <1>9 DEF Given, Filled
<1>15. Given'
  BY <1>12, <1>13, <1>14 DEF Given
<1>16. Order' /\ Closed' /\ Unallocated' /\ ClosedFirst'
  BY <1>9, <1>11 DEF Order, Closed, Unallocated, ClosedFirst
<1> QED BY <1>10, <1>15, <1>16

LEMMA StartupInvStep == StartupInv /\ [StartupNext]_startup_vars => StartupInv'
<1> SUFFICES ASSUME StartupInv, [StartupNext]_startup_vars PROVE StartupInv'
  OBVIOUS
<1>1. CASE Main
  BY <1>1, OpenStep, FillStep, CreateStep DEF Main
<1>2. ASSUME NEW w \in Workers, StartWorker(w) PROVE StartupInv'
  BY <1>2, StartStep
<1>3. CASE StartMerger
  BY <1>3 DEF StartMerger, StartupInv, StartupTypeOK, Order, Given, Filled, Closed, Unallocated, ClosedFirst
<1>4. CASE UNCHANGED startup_vars
  BY <1>4 DEF startup_vars, StartupInv, StartupTypeOK, Order, Given, Filled, Closed, Unallocated, ClosedFirst
<1> QED BY <1>1, <1>2, <1>3, <1>4 DEF StartupNext

(* Every variable keeps its type: a container is there for every worker     *)
(* that is started (main.cc).                                               *)
THEOREM StartupTypes == StartupSpec => []StartupTypeOK
<1>1. StartupInv => StartupTypeOK
  BY DEF StartupInv
<1> QED BY <1>1, StartupInvInit, StartupInvStep, PTL DEF StartupSpec

(* Worker w works on container w (worker_thread_fnc).                       *)
THEOREM OwnContainers == StartupSpec => []WorkersHaveOwnContainer
<1>1. StartupInv => WorkersHaveOwnContainer
  BY DEF StartupInv, Given, WorkersHaveOwnContainer
<1> QED BY <1>1, StartupInvInit, StartupInvStep, PTL DEF StartupSpec

(* A worker that runs has the bound socket (worker_thread_fnc, recv).       *)
THEOREM BoundSocket == StartupSpec => []SocketIsBound
<1>1. StartupInv => SocketIsBound
  BY NullAssumption DEF StartupInv, Given, SocketIsBound
<1> QED BY <1>1, StartupInvInit, StartupInvStep, PTL DEF StartupSpec

(* What pinba_socket_open leaves when it fails is closed and freed.         *)
THEOREM FailureCloses == StartupSpec => []NullMeansClosed
<1>1. StartupInv => NullMeansClosed
  BY DEF StartupInv, Closed, NullMeansClosed
<1> QED BY <1>1, StartupInvInit, StartupInvStep, PTL DEF StartupSpec
-----------------------------------------------------------------------------
LEMMA ValType == ASSUME NEW a \in Timeval PROVE Val(a) \in Nat
<1>1. a.tv_sec \in Nat /\ a.tv_usec \in Nat /\ Million \in Nat
  BY MillionAssumption DEF Timeval
<1>2. a.tv_sec * Million \in Nat
  BY <1>1
<1> QED BY <1>1, <1>2 DEF Val

(* The carry neither loses nor gains a microsecond. *)
LEMMA AddKeepsVal ==
  ASSUME NEW a \in Timeval, NEW b \in Timeval
  PROVE  timeradd(a, b) \in Timeval /\ Val(timeradd(a, b)) = Val(a) + Val(b)
<1> DEFINE sec == a.tv_sec + b.tv_sec
           usec == a.tv_usec + b.tv_usec
<1>1. /\ a.tv_sec \in Nat /\ b.tv_sec \in Nat /\ Million \in Nat /\ Million > 0
      /\ a.tv_usec \in 0 .. Million - 1 /\ b.tv_usec \in 0 .. Million - 1
  BY MillionAssumption DEF Timeval
<1>2. sec * Million = a.tv_sec * Million + b.tv_sec * Million
  BY <1>1
<1>3. a.tv_sec * Million \in Nat /\ b.tv_sec * Million \in Nat
  BY <1>1
<1>4. CASE usec >= Million
  <2>1. timeradd(a, b) = [tv_sec |-> sec + 1, tv_usec |-> usec - Million]
    BY <1>4 DEF timeradd
  <2>2. sec + 1 \in Nat /\ usec - Million \in 0 .. Million - 1
    BY <1>1, <1>4
  <2>3. (sec + 1) * Million = sec * Million + Million
    BY <1>1
  <2>4. Val(timeradd(a, b)) = (sec + 1) * Million + (usec - Million)
    BY <2>1 DEF Val
  <2>5. Val(timeradd(a, b)) = (a.tv_sec * Million + b.tv_sec * Million + Million) + (usec - Million)
    BY <2>4, <2>3, <1>2
  <2>6. timeradd(a, b) \in Timeval
    BY <2>1, <2>2 DEF Timeval
  <2> QED BY <2>5, <2>6, <1>1, <1>3 DEF Val
<1>5. CASE ~ (usec >= Million)
  <2>1. timeradd(a, b) = [tv_sec |-> sec, tv_usec |-> usec]
    BY <1>5 DEF timeradd
  <2>2. sec \in Nat /\ usec \in 0 .. Million - 1
    BY <1>1, <1>5
  <2>3. Val(timeradd(a, b)) = (a.tv_sec * Million + b.tv_sec * Million) + usec
    BY <2>1, <1>2 DEF Val
  <2>4. timeradd(a, b) \in Timeval
    BY <2>1, <2>2 DEF Timeval
  <2> QED BY <2>3, <2>4, <1>1, <1>3 DEF Val
<1> QED BY <1>4, <1>5

(* An earlier second is earlier whatever the microseconds. *)
LEMMA EarlierSecond ==
  ASSUME NEW a \in Timeval, NEW b \in Timeval, a.tv_sec < b.tv_sec
  PROVE  Val(a) < Val(b)
<1>1. /\ a.tv_sec \in Nat /\ b.tv_sec \in Nat /\ Million \in Nat /\ Million > 0
      /\ a.tv_usec \in 0 .. Million - 1 /\ b.tv_usec \in 0 .. Million - 1
  BY MillionAssumption DEF Timeval
<1> DEFINE more == b.tv_sec - a.tv_sec - 1
<1>2. more \in Nat
  BY <1>1
<1>3. more * Million \in Nat
  BY <1>1, <1>2
<1>4. b.tv_sec = a.tv_sec + more + 1
  BY <1>1
<1>5. (a.tv_sec + more + 1) * Million = a.tv_sec * Million + more * Million + Million
  BY <1>1, <1>2
<1>6. b.tv_sec * Million = a.tv_sec * Million + more * Million + Million
  BY <1>4, <1>5
<1>7. a.tv_sec * Million \in Nat
  BY <1>1
<1> HIDE DEF more
<1> QED BY <1>1, <1>3, <1>6, <1>7 DEF Val

LEMMA BeforeIsLess ==
  ASSUME NEW a \in Timeval, NEW b \in Timeval
  PROVE  IsBefore(a, b) <=> Val(a) < Val(b)
<1>1. /\ a.tv_sec \in Nat /\ b.tv_sec \in Nat
      /\ a.tv_usec \in Nat /\ b.tv_usec \in Nat
  BY MillionAssumption DEF Timeval
<1>2. Val(a) \in Nat /\ Val(b) \in Nat
  BY ValType
<1>3. CASE a.tv_sec = b.tv_sec
  <2>1. a.tv_sec * Million \in Nat
    BY <1>1, MillionAssumption
  <2>2. Val(a) < Val(b) <=> a.tv_usec < b.tv_usec
    BY <1>1, <1>3, <2>1 DEF Val
  <2> QED BY <1>3, <2>2 DEF IsBefore
<1>4. CASE a.tv_sec < b.tv_sec
  BY <1>1, <1>4, EarlierSecond DEF IsBefore
<1>5. CASE b.tv_sec < a.tv_sec
  <2>1. Val(b) < Val(a)
    BY <1>5, EarlierSecond
  <2> QED BY <1>1, <1>2, <1>5, <2>1 DEF IsBefore
<1> QED BY <1>1, <1>3, <1>4, <1>5

LEMMA ZeroIsFirst ==
  /\ Zero \in Timeval
  /\ Val(Zero) = 0
  /\ \A b \in Timeval : ~ IsBefore(Zero, b) => b = Zero
<1>1. Zero \in Timeval
  BY MillionAssumption DEF Zero, Timeval
<1>2. Val(Zero) = 0
  BY MillionAssumption DEF Zero, Val
<1>3. ASSUME NEW b \in Timeval, ~ IsBefore(Zero, b) PROVE b = Zero
  <2>1. b.tv_sec \in Nat /\ b.tv_usec \in Nat /\ b = [tv_sec |-> b.tv_sec, tv_usec |-> b.tv_usec]
    BY MillionAssumption DEF Timeval
  <2>2. b.tv_sec = 0 /\ b.tv_usec = 0
    BY <1>3, <2>1 DEF IsBefore, Zero
  <2> QED BY <2>1, <2>2 DEF Zero
<1> QED BY <1>1, <1>2, <1>3
-----------------------------------------------------------------------------
(* What the clock shows, what it showed when it was read, and what it must  *)
(* pass before the lists are swapped.                                       *)
Clocks ==
  /\ Val(clock) = elapsed + set
  /\ Val(cur) = read.at + read.set
  /\ IF reports
     THEN Val(next) = swapped.at + swapped.set + Val(period)
     ELSE next = Zero

Inv == TypeOK /\ Clocks

LEMMA InvInit == Init => Inv
<1> SUFFICES ASSUME Init PROVE Inv
  OBVIOUS
<1>1. clock \in Timeval /\ period \in Periods /\ Zero \in Timeval
  BY SettingsAssumption, ZeroIsFirst DEF Init
<1>2. Val(clock) \in Nat
  BY <1>1, ValType
<1>3. TypeOK
  <2>1. [at |-> 0, set |-> 0] \in Moment
    BY MaxTimeAssumption DEF Moment
  <2>2. set \in Int
    BY <1>2 DEF Init
  <2>3. empty \in 0 .. Chunks /\ elapsed \in 0 .. MaxTime
    BY ChunksAssumption, MaxTimeAssumption DEF Init
  <2> QED BY <1>1, <2>1, <2>2, <2>3 DEF Init, TypeOK
<1>4. Clocks
  BY <1>2, ZeroIsFirst DEF Init, Clocks
<1> QED BY <1>3, <1>4 DEF Inv

LEMMA InvStep == Inv /\ [Next]_vars => Inv'
<1> SUFFICES ASSUME Inv, [Next]_vars PROVE Inv'
  OBVIOUS
<1> USE DEF Inv
<1>1. period \in Timeval /\ clock \in Timeval /\ cur \in Timeval
  BY PeriodsAssumption DEF TypeOK
<1>2. CASE GetTimeOfDay
  <2>1. TypeOK'
    BY <1>2 DEF GetTimeOfDay, TypeOK, Moment
  <2>2. Clocks'
    BY <1>2 DEF GetTimeOfDay, Clocks
  <2> QED BY <2>1, <2>2
<1>3. CASE SwapLists
  <2>1. next' \in Timeval /\ Val(next') = Val(cur) + Val(period)
    BY <1>1, <1>3, AddKeepsVal DEF SwapLists
  <2>2. TypeOK'
    BY <1>3, <2>1, ChunksAssumption DEF SwapLists, TypeOK
  <2>3. UNCHANGED <<clock, cur, period, elapsed, set, read>> /\ reports' /\ swapped' = read
    BY <1>3 DEF SwapLists
  <2>4. Val(cur) = read.at + read.set
    BY DEF Clocks
  <2>5. Val(next') = read.at + read.set + Val(period)
    BY <2>1, <2>4
  <2>6. Val(next') = swapped'.at + swapped'.set + Val(period')
    BY <2>3, <2>5
  <2>7. Clocks'
    BY <2>3, <2>6 DEF Clocks
  <2> QED BY <2>2, <2>7
<1>4. CASE KeepList
  BY <1>4 DEF KeepList, TypeOK, Clocks
<1>5. CASE Receive
  BY <1>5 DEF Receive, TypeOK, Clocks
<1>6. CASE ReturnEmptyList
  <2>1. empty' \in 0 .. Chunks
    BY <1>6, ChunksAssumption DEF ReturnEmptyList, TypeOK
  <2> QED BY <1>6, <2>1 DEF ReturnEmptyList, TypeOK, Clocks
<1>7. CASE Tick
  <2> DEFINE one == [tv_sec |-> 0, tv_usec |-> 1]
  <2>1. CASE Million = 1
    <3>1. clock.tv_usec = 0 /\ clock.tv_sec \in Nat
      BY <1>1, <2>1 DEF Timeval
    <3>2. clock' = [tv_sec |-> clock.tv_sec + 1, tv_usec |-> 0]
      BY <1>7, <2>1, <3>1 DEF Tick, timeradd
    <3>3. clock' \in Timeval /\ Val(clock') = Val(clock) + 1
      BY <2>1, <3>1, <3>2 DEF Timeval, Val
    <3> QED BY <1>7, <3>3, MaxTimeAssumption DEF Tick, TypeOK, Clocks
  <2>2. CASE Million # 1
    <3>1. one \in Timeval
      BY <2>2, MillionAssumption DEF Timeval
    <3>2. Val(one) = 1
      BY MillionAssumption DEF Val
    <3>3. clock' = timeradd(clock, one)
      BY <1>7 DEF Tick
    <3>4. clock' \in Timeval /\ Val(clock') = Val(clock) + 1
      BY <1>1, <3>1, <3>2, <3>3, AddKeepsVal
    <3> QED BY <1>7, <3>4, MaxTimeAssumption DEF Tick, TypeOK, Clocks
  <2> QED BY <2>1, <2>2
<1>8. ASSUME NEW t \in Settings, SetClock(t) PROVE Inv'
  <2>1. t \in Timeval /\ Val(t) \in Nat
    BY SettingsAssumption, ValType
  <2>2. Val(t) = elapsed + (Val(t) - elapsed)
    BY <2>1, MaxTimeAssumption DEF TypeOK
  <2>3. clock' = t /\ set' = Val(t) - elapsed
    BY <1>8 DEF SetClock
  <2>4. Val(clock') = elapsed + set'
    BY <2>2, <2>3
  <2>5. set' \in Int
    BY <2>1, <2>3, MaxTimeAssumption DEF TypeOK
  <2>6. UNCHANGED <<pc, period, cur, next, reports, empty, elapsed, read, swapped>>
    BY <1>8 DEF SetClock
  <2>7. TypeOK'
    BY <2>1, <2>3, <2>5, <2>6 DEF TypeOK
  <2>8. Clocks'
    BY <2>4, <2>6 DEF Clocks
  <2> QED BY <2>7, <2>8
<1>9. CASE UNCHANGED vars
  BY <1>9 DEF vars, TypeOK, Clocks
<1> QED BY <1>2, <1>3, <1>4, <1>5, <1>6, <1>7, <1>8, <1>9 DEF Next

(* In both, next and cur are numbers of microseconds. *)
LEMMA Numbers ==
  ASSUME Inv
  PROVE  /\ Val(next) \in Nat /\ Val(cur) \in Nat /\ Val(period) \in Nat
         /\ read.at \in Int /\ read.set \in Int /\ swapped.at \in Int /\ swapped.set \in Int
         /\ IsBefore(next, cur) <=> Val(next) < Val(cur)
<1>1. next \in Timeval /\ cur \in Timeval /\ period \in Timeval
  BY PeriodsAssumption DEF Inv, TypeOK
<1>2. read \in Moment /\ swapped \in Moment
  BY DEF Inv, TypeOK
<1>3. read.at \in Int /\ read.set \in Int /\ swapped.at \in Int /\ swapped.set \in Int
  BY <1>2 DEF Moment
<1> QED BY <1>1, <1>3, ValType, BeforeIsLess

(* Every variable keeps its type; every timeval stays normal.               *)
THEOREM ClockTypes == Spec => []TypeOK
<1>1. Inv => TypeOK
  BY DEF Inv
<1> QED BY <1>1, InvInit, InvStep, PTL DEF Spec

(* A list is handed in only when its period is over (pinba_worker_loop).    *)
THEOREM NeverEarly == Spec => NotBeforeThePeriod
<1>1. Inv /\ [Next]_vars => [SwapLists /\ reports => Waited > Val(period) - Forward]_vars
  <2> SUFFICES ASSUME Inv, SwapLists, reports
               PROVE  Waited > Val(period) - Forward
    OBVIOUS
  <2>1. Val(next) < Val(cur)
    BY Numbers DEF SwapLists
  <2>2. Val(next) = swapped.at + swapped.set + Val(period) /\ Val(cur) = read.at + read.set
    BY DEF Inv, Clocks
  <2> QED BY <2>1, <2>2, Numbers DEF Waited, Forward
<1> QED BY <1>1, InvInit, InvStep, PTL DEF Spec, NotBeforeThePeriod

(* It is kept no longer than the clock was set back by, once there is an    *)
(* empty one to take (pinba_worker_loop).                                   *)
THEOREM NeverLate == Spec => NotLaterThanTheClock
<1> DEFINE Late == IF reports THEN Waited <= Val(period) - Forward ELSE cur = Zero
<1>1. Inv /\ [Next]_vars => [KeepList /\ empty > 0 => Late]_vars
  <2> SUFFICES ASSUME Inv, KeepList, empty > 0
               PROVE  Late
    OBVIOUS
  <2>1. ~ IsBefore(next, cur)
    BY DEF KeepList, Inv, TypeOK
  <2>2. CASE reports
    <3>1. Val(next) = swapped.at + swapped.set + Val(period) /\ Val(cur) = read.at + read.set
      BY <2>2 DEF Inv, Clocks
    <3> QED BY <2>1, <2>2, <3>1, Numbers DEF Waited, Forward
  <2>3. CASE ~ reports
    <3>1. next = Zero /\ cur \in Timeval
      BY <2>3 DEF Inv, Clocks, TypeOK
    <3> QED BY <2>1, <2>3, <3>1, ZeroIsFirst
  <2> QED BY <2>2, <2>3
<1> QED BY <1>1, InvInit, InvStep, PTL DEF Spec, NotLaterThanTheClock
-----------------------------------------------------------------------------
(* The error log. *)
(* What setting the clock back does not change and nothing else lowers: how  *)
(* far the clock is ahead of the seconds that passed, if it had only been    *)
(* set forward.                                                              *)
Ahead(r) == r.t - r.now + r.back

(* Reading r is not before reading q. *)
IsAfter(q, r) == q.now <= r.now /\ Ahead(q) <= Ahead(r)

(* Who is between Lock and the end has the mutex. *)
LogExclusion == \A th \in Threads : step[th] \in {"time", "compare"} => error_mutex = th

(* What is kept is what was printed. *)
Kept == last_error_time = line.read.t /\ last_errormsg = line.text

(* The thread that compares has read the clock after the last line's time.   *)
LogOrdered ==
  /\ IsAfter(line.read, Reading)
  /\ \A th \in Threads :
       step[th] = "compare" =>
         IsAfter(line.read, time_read[th]) /\ IsAfter(time_read[th], Reading)

LogInv == LogTypeOK /\ LogExclusion /\ Kept /\ LogOrdered

LEMMA ReadingTyping ==
  ASSUME LogTypeOK
  PROVE  /\ Reading \in Readings
         /\ line.read \in Readings /\ line.text \in Messages \union {NoMessage}
         /\ \A th \in Threads : time_read[th] \in Readings
BY DEF LogTypeOK, Reading, Readings

LEMMA IsAfterItself ==
  ASSUME NEW r \in Readings
  PROVE  IsAfter(r, r)
<1>1. Ahead(r) \in Int /\ r.now \in Nat
  BY DEF Readings, Ahead
<1>. QED
  BY <1>1 DEF IsAfter

LEMMA IsAfterTransitive ==
  ASSUME NEW p \in Readings, NEW q \in Readings, NEW r \in Readings,
         IsAfter(p, q), IsAfter(q, r)
  PROVE  IsAfter(p, r)
<1>1. Ahead(p) \in Int /\ Ahead(q) \in Int /\ Ahead(r) \in Int
  BY DEF Readings, Ahead
<1>2. p.now \in Nat /\ q.now \in Nat /\ r.now \in Nat
  BY DEF Readings
<1>. QED
  BY <1>1, <1>2 DEF IsAfter

LEMMA LogInvInit == LogInit => LogInv
<1>. SUFFICES ASSUME LogInit PROVE LogInv
  OBVIOUS
<1>1. time \in Nat
  BY BoundsAssumption DEF LogInit
<1>2. Epoch \in Readings
  BY DEF Epoch, Readings
<1>3. line.read = Epoch /\ line.text = NoMessage
  BY DEF LogInit
<1>4. LogTypeOK
  BY <1>1, <1>2 DEF LogInit, LogTypeOK
<1>5. LogExclusion
  BY DEF LogInit, LogExclusion
<1>6. Kept
  BY <1>3 DEF LogInit, Kept, Epoch
<1>7. IsAfter(Epoch, Reading)
  BY <1>1 DEF LogInit, IsAfter, Ahead, Epoch, Reading
<1>8. LogOrdered
  BY <1>3, <1>7 DEF LogInit, LogOrdered
<1>. QED
  BY <1>4, <1>5, <1>6, <1>8 DEF LogInv
-----------------------------------------------------------------------------
(* The clock moves: what it showed before was shown before. *)
LEMMA ClockMoves ==
  ASSUME LogInv, Reading' \in Readings, IsAfter(Reading, Reading'),
         UNCHANGED <<error_mutex, last_error_time, last_errormsg, step, errormsg,
                     time_read, line>>
  PROVE  LogInv'
<1>1. LogTypeOK'
  <2>1. time' = Reading'.t /\ now' = Reading'.now /\ back' = Reading'.back
    BY DEF Reading
  <2>2. time' \in Nat /\ now' \in Nat /\ back' \in Nat
    BY <2>1 DEF Readings
  <2>. QED
    BY <2>2 DEF LogInv, LogTypeOK
<1>2. LogExclusion' /\ Kept'
  BY DEF LogInv, LogExclusion, Kept
<1>3. IsAfter(line.read, Reading')
  BY ReadingTyping, IsAfterTransitive DEF LogInv, LogOrdered
<1>4. \A th \in Threads : step[th] = "compare" => IsAfter(time_read[th], Reading')
  BY ReadingTyping, IsAfterTransitive DEF LogInv, LogOrdered
<1>5. LogOrdered'
  BY <1>3, <1>4 DEF LogInv, LogOrdered
<1>. QED
  BY <1>1, <1>2, <1>5 DEF LogInv

LEMMA PassSecondKeeps ==
  ASSUME LogInv, PassSecond
  PROVE  LogInv'
<1>1. time \in Nat /\ now \in Nat /\ back \in Nat
  BY DEF LogInv, LogTypeOK
<1>2. Reading' = [t |-> time + 1, now |-> now + 1, back |-> back]
  BY DEF PassSecond, Reading
<1>3. Reading' \in Readings
  BY <1>1, <1>2 DEF Readings
<1>4. IsAfter(Reading, Reading')
  BY <1>1, <1>2 DEF IsAfter, Ahead, Reading
<1>. QED
  BY <1>3, <1>4, ClockMoves DEF PassSecond

LEMMA SetForwardKeeps ==
  ASSUME LogInv, NEW c \in 0 .. MaxSeconds, SetForward(c)
  PROVE  LogInv'
<1>1. time \in Nat /\ now \in Nat /\ back \in Nat /\ c \in Nat /\ c > time
  BY BoundsAssumption DEF LogInv, LogTypeOK, SetForward
<1>2. Reading' = [t |-> c, now |-> now, back |-> back]
  BY DEF SetForward, Reading
<1>3. Reading' \in Readings
  BY <1>1, <1>2 DEF Readings
<1>4. IsAfter(Reading, Reading')
  BY <1>1, <1>2 DEF IsAfter, Ahead, Reading
<1>. QED
  BY <1>3, <1>4, ClockMoves DEF SetForward

LEMMA SetBackKeeps ==
  ASSUME LogInv, NEW c \in 0 .. MaxSeconds, SetBack(c)
  PROVE  LogInv'
<1>1. time \in Nat /\ now \in Nat /\ back \in Nat /\ c \in Nat /\ c < time
  BY BoundsAssumption DEF LogInv, LogTypeOK, SetBack
<1>2. Reading' = [t |-> c, now |-> now, back |-> back + (time - c)]
  BY DEF SetBack, Reading
<1>3. back + (time - c) \in Nat
  BY <1>1
<1>4. Reading' \in Readings
  BY <1>1, <1>2, <1>3 DEF Readings
<1>5. IsAfter(Reading, Reading')
  BY <1>1, <1>2 DEF IsAfter, Ahead, Reading
<1>. QED
  BY <1>4, <1>5, ClockMoves DEF SetBack
-----------------------------------------------------------------------------
LEMMA CallKeeps ==
  ASSUME LogInv, NEW th \in Threads, NEW m \in Messages, Call(th, m)
  PROVE  LogInv'
<1>1. LogTypeOK'
  BY DEF LogInv, LogTypeOK, Call, Goto
<1>2. LogExclusion'
  BY DEF LogInv, LogTypeOK, LogExclusion, Call, Goto
<1>3. Kept'
  BY DEF LogInv, Kept, Call
<1>4. Reading' = Reading
  BY DEF Call, Reading
<1>5. LogOrdered'
  BY <1>4 DEF LogInv, LogTypeOK, LogOrdered, Call, Goto
<1>. QED
  BY <1>1, <1>2, <1>3, <1>5 DEF LogInv

LEMMA LockKeeps ==
  ASSUME LogInv, NEW th \in Threads, Lock(th)
  PROVE  LogInv'
<1>1. LogTypeOK'
  BY DEF LogInv, LogTypeOK, Lock, Goto
<1>2. LogExclusion'
  <2>1. \A u \in Threads : step[u] \notin {"time", "compare"}
    BY NoThreadAssumption DEF LogInv, LogExclusion, Lock
  <2>. QED
    BY <2>1 DEF LogInv, LogTypeOK, LogExclusion, Lock, Goto
<1>3. Kept'
  BY DEF LogInv, Kept, Lock
<1>4. Reading' = Reading
  BY DEF Lock, Reading
<1>5. LogOrdered'
  BY <1>4 DEF LogInv, LogTypeOK, LogOrdered, Lock, Goto
<1>. QED
  BY <1>1, <1>2, <1>3, <1>5 DEF LogInv

LEMMA ReadClockKeeps ==
  ASSUME LogInv, NEW th \in Threads, ReadClock(th)
  PROVE  LogInv'
<1>1. LogTypeOK'
  BY ReadingTyping DEF LogInv, LogTypeOK, ReadClock, Goto
<1>2. LogExclusion'
  BY DEF LogInv, LogTypeOK, LogExclusion, ReadClock, Goto
<1>3. Kept'
  BY DEF LogInv, Kept, ReadClock
<1>4. Reading' = Reading /\ line' = line
  BY DEF ReadClock, Reading
<1>5. \A u \in Threads : step'[u] = "compare" =>
        IsAfter(line.read, time_read'[u]) /\ IsAfter(time_read'[u], Reading)
  <2>. SUFFICES ASSUME NEW u \in Threads, step'[u] = "compare"
                PROVE  IsAfter(line.read, time_read'[u]) /\ IsAfter(time_read'[u], Reading)
    OBVIOUS
  <2>1. CASE u = th
    <3>1. time_read'[u] = Reading
      BY <2>1 DEF LogInv, LogTypeOK, ReadClock
    <3>2. IsAfter(Reading, Reading)
      BY ReadingTyping, IsAfterItself DEF LogInv
    <3>. QED
      BY <3>1, <3>2 DEF LogInv, LogOrdered
  <2>2. CASE u # th
    <3>1. time_read'[u] = time_read[u] /\ step[u] = "compare"
      BY <2>2 DEF LogInv, LogTypeOK, ReadClock, Goto
    <3>. QED
      BY <3>1 DEF LogInv, LogOrdered
  <2>. QED
    BY <2>1, <2>2
<1>6. LogOrdered'
  BY <1>4, <1>5 DEF LogInv, LogOrdered
<1>. QED
  BY <1>1, <1>2, <1>3, <1>6 DEF LogInv

LEMMA DropKeeps ==
  ASSUME LogInv, NEW th \in Threads, Drop(th)
  PROVE  LogInv'
<1>1. LogTypeOK'
  BY DEF LogInv, LogTypeOK, Drop, Goto
<1>2. LogExclusion'
  BY DEF LogInv, LogTypeOK, LogExclusion, Drop, Goto
<1>3. Kept'
  BY DEF LogInv, Kept, Drop
<1>4. Reading' = Reading
  BY DEF Drop, Reading
<1>5. LogOrdered'
  BY <1>4 DEF LogInv, LogTypeOK, LogOrdered, Drop, Goto
<1>. QED
  BY <1>1, <1>2, <1>3, <1>5 DEF LogInv

(* Nobody else compares, so the line that is printed is before no reading. *)
LEMMA WriteLineKeeps ==
  ASSUME LogInv, NEW th \in Threads, WriteLine(th)
  PROVE  LogInv'
<1>1. step[th] = "compare" /\ error_mutex = th
  BY DEF LogInv, LogExclusion, WriteLine, Goto
<1>2. \A u \in Threads : step'[u] \notin {"time", "compare"}
  BY <1>1 DEF LogInv, LogTypeOK, LogExclusion, WriteLine, Goto
<1>3. line'.read = time_read[th] /\ line'.text = errormsg[th]
  BY DEF WriteLine
<1>4. time_read[th] \in Readings /\ time_read[th].t \in Nat /\ errormsg[th] \in Messages \union {NoMessage}
  BY DEF LogInv, LogTypeOK, Readings
<1>5. LogTypeOK'
  <2>1. line' \in [text : Messages \union {NoMessage}, read : Readings]
    BY <1>4 DEF WriteLine
  <2>. QED
    BY <1>4, <2>1 DEF LogInv, LogTypeOK, WriteLine, Goto
<1>6. LogExclusion'
  BY <1>2 DEF LogExclusion
<1>7. Kept'
  BY <1>3 DEF Kept, WriteLine
<1>8. Reading' = Reading
  BY DEF WriteLine, Reading
<1>9. IsAfter(line'.read, Reading)
  BY <1>1, <1>3 DEF LogInv, LogOrdered
<1>10. LogOrdered'
  BY <1>2, <1>8, <1>9 DEF LogOrdered
<1>. QED
  BY <1>5, <1>6, <1>7, <1>10 DEF LogInv

LEMMA LogInvStep == LogInv /\ [LogNext]_log_vars => LogInv'
<1>. SUFFICES ASSUME LogInv, [LogNext]_log_vars PROVE LogInv'
  OBVIOUS
<1>1. CASE UNCHANGED log_vars
  BY <1>1 DEF log_vars, LogInv, LogTypeOK, LogExclusion, Kept, LogOrdered, Reading
<1>2. CASE LogNext
  BY <1>2, PassSecondKeeps, SetForwardKeeps, SetBackKeeps, CallKeeps, LockKeeps,
     ReadClockKeeps, DropKeeps, WriteLineKeeps DEF LogNext, Holds
<1>. QED
  BY <1>1, <1>2
-----------------------------------------------------------------------------
(* The types of the log's state. *)
THEOREM ErrorLogTypes == LogSpec => []LogTypeOK
<1>1. LogInv => LogTypeOK
  BY DEF LogInv
<1>. QED
  BY <1>1, LogInvInit, LogInvStep, PTL DEF LogSpec

(* A step that changes the last line is a WriteLine; one that ends a call and    *)
(* does not change it is a Drop, or a WriteLine of the very same line.           *)
LEMMA PrintedLine ==
  ASSUME LogInv, LogNext, line' # line
  PROVE  \E th \in Threads : WriteLine(th)
BY DEF LogNext, Holds, PassSecond, SetForward, SetBack, Call, Lock, ReadClock, Drop

LEMMA Ended ==
  ASSUME LogInv, LogNext, NEW th \in Threads, step[th] = "compare", step'[th] = "idle"
  PROVE  Drop(th) \/ WriteLine(th)
<1>1. step' # step
  OBVIOUS
<1>2. \/ \E m \in Messages, u \in Threads : Call(u, m)
      \/ \E u \in Threads : Lock(u) \/ ReadClock(u) \/ Drop(u) \/ WriteLine(u)
  BY <1>1 DEF LogNext, Holds, PassSecond, SetForward, SetBack
<1>3. \A u \in Threads, m \in Messages : ~Call(u, m)
  BY DEF LogInv, LogTypeOK, Call, Goto
<1>4. \A u \in Threads : ~Lock(u) /\ ~ReadClock(u)
  BY DEF LogInv, LogTypeOK, Lock, ReadClock, Goto
<1>5. \A u \in Threads : Drop(u) \/ WriteLine(u) => u = th
  BY DEF LogInv, LogTypeOK, Drop, WriteLine, Goto
<1>. QED
  BY <1>2, <1>3, <1>4, <1>5

(* The arithmetic of two readings. *)
LEMMA Elapsed ==
  ASSUME NEW q \in Readings, NEW r \in Readings, IsAfter(q, r)
  PROVE  /\ Passed(q, r) - SetBackBy(q, r) <= r.t - q.t
         /\ r.t >= q.t - SetBackBy(q, r)
         /\ Passed(q, r) \in Int /\ SetBackBy(q, r) \in Int
<1>1. /\ q.t \in Nat /\ q.now \in Nat /\ q.back \in Nat
      /\ r.t \in Nat /\ r.now \in Nat /\ r.back \in Nat
  BY DEF Readings
<1>. QED
  BY <1>1 DEF IsAfter, Ahead, Passed, SetBackBy

(* A message that is dropped is the last line, which is not older than the   *)
(* seconds the clock was set back by since (main.cc).                        *)
THEOREM DropsAreRepeats == LogSpec => DropsOnlyRepeats
<1>1. ASSUME LogInv, LogNext, NEW th \in Threads,
             step[th] = "compare", step'[th] = "idle", line' = line
      PROVE  /\ errormsg[th] = line.text
             /\ Passed(line.read, time_read[th]) <= SetBackBy(line.read, time_read[th])
  <2>1. line.read \in Readings /\ time_read[th] \in Readings
    BY <1>1, ReadingTyping DEF LogInv
  <2>2. IsAfter(line.read, time_read[th])
    BY <1>1 DEF LogInv, LogOrdered
  <2>3. CASE Drop(th)
    <3>1. errormsg[th] = line.text /\ time_read[th].t - line.read.t < 1
      BY <1>1, <2>3 DEF Drop, IsRepeated, LogInv, Kept
    <3>2. time_read[th].t \in Nat /\ line.read.t \in Nat
      BY <2>1 DEF Readings
    <3>3. /\ Passed(line.read, time_read[th]) - SetBackBy(line.read, time_read[th])
             <= time_read[th].t - line.read.t
          /\ Passed(line.read, time_read[th]) \in Int
          /\ SetBackBy(line.read, time_read[th]) \in Int
      BY <2>1, <2>2, Elapsed
    <3>. QED
      BY <3>1, <3>2, <3>3
  <2>4. CASE WriteLine(th)
    <3>1. line.read = time_read[th] /\ line.text = errormsg[th]
      BY <1>1, <2>4 DEF WriteLine
    <3>2. time_read[th].now \in Nat /\ time_read[th].back \in Nat
      BY <2>1 DEF Readings
    <3>. QED
      BY <3>1, <3>2 DEF Passed, SetBackBy
  <2>. QED
    BY <1>1, <2>3, <2>4, Ended
<1>2. ASSUME LogInv, [LogNext]_log_vars
      PROVE  [\A th \in Threads :
                step[th] = "compare" /\ step'[th] = "idle" /\ line' = line =>
                /\ errormsg[th] = line.text
                /\ Passed(line.read, time_read[th]) <= SetBackBy(line.read, time_read[th])]_log_vars
  BY <1>1, <1>2
<1>. QED
  BY <1>2, LogInvInit, LogInvStep, PTL DEF LogSpec, DropsOnlyRepeats

(* No line follows itself within a second of the clock (main.cc). *)
THEOREM NoLineTwiceASecond == LogSpec => NotTwiceASecond
<1>1. ASSUME LogInv, LogNext, line' # line, line'.text = line.text
      PROVE  line'.read.t >= line.read.t + 1
  <2>1. PICK th \in Threads : WriteLine(th)
    BY <1>1, PrintedLine
  <2>2. line'.read = time_read[th] /\ line'.text = errormsg[th]
    BY <2>1 DEF WriteLine
  <2>3. time_read[th].t \in Nat /\ line.read.t \in Nat
    BY <1>1, ReadingTyping DEF LogInv, Readings
  <2>4. ~ (time_read[th].t - line.read.t < 1)
    BY <1>1, <2>1, <2>2 DEF WriteLine, IsRepeated, LogInv, Kept
  <2>. QED
    BY <2>2, <2>3, <2>4
<1>2. ASSUME LogInv, [LogNext]_log_vars
      PROVE  [line' # line /\ line'.text = line.text => line'.read.t >= line.read.t + 1]_log_vars
  BY <1>1, <1>2
<1>. QED
  BY <1>2, LogInvInit, LogInvStep, PTL DEF LogSpec, NotTwiceASecond

(* The lines are in the order of their times, but for what the clock was set *)
(* back by (main.cc): the time is read under the mutex.                      *)
THEOREM LinesInOrder == LogSpec => InOrder
<1>1. ASSUME LogInv, LogNext, line' # line
      PROVE  line'.read.t >= line.read.t - SetBackBy(line.read, line'.read)
  <2>1. PICK th \in Threads : WriteLine(th)
    BY <1>1, PrintedLine
  <2>2. line'.read = time_read[th] /\ step[th] = "compare"
    BY <2>1 DEF WriteLine, Goto
  <2>3. IsAfter(line.read, time_read[th]) /\ line.read \in Readings /\ time_read[th] \in Readings
    BY <1>1, <2>2, ReadingTyping DEF LogInv, LogOrdered
  <2>. QED
    BY <2>2, <2>3, Elapsed
<1>2. ASSUME LogInv, [LogNext]_log_vars
      PROVE  [line' # line => line'.read.t >= line.read.t - SetBackBy(line.read, line'.read)]_log_vars
  BY <1>1, <1>2
<1>. QED
  BY <1>2, LogInvInit, LogInvStep, PTL DEF LogSpec, InOrder
=============================================================================
