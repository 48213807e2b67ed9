----------------------------- MODULE PinbaProofs -----------------------------
(***************************************************************************)
(* Proofs about Pinba, for any number of workers, lists per container,     *)
(* reports, requests and indexes.                                          *)
(*                                                                         *)
(* The argument goes back and forth between the two modules.  What the     *)
(* threads' program counters say of their local variables (Locals) makes   *)
(* every step of the program one that ReportContainer allows its users, or *)
(* one it does not notice; so the lemmas of ReportContainerProofs hold of  *)
(* the program's containers; and the partition of the lists they give is   *)
(* in turn what keeps Locals, and the counts, right.                       *)
(*                                                                         *)
(* Two more invariants are built on that one.  Registry: each list is on   *)
(* its way to the reports that were asked for, a name once.  Counts: a     *)
(* request is owed to the main list by one list at most, and by none once  *)
(* the main list has it.                                                   *)
(***************************************************************************)
EXTENDS Pinba, TLAPS

CP == INSTANCE ReportContainerProofs
        WITH worker_has <- WorkerHas, merger_has <- MergerHas,
             flushed <- Flushed, commanded <- Commanded

(* Pinba speaks of C, the lemmas of CP: the same definitions twice. *)
LEMMA SameOperations ==
  ASSUME NEW w, NEW l, NEW t
  PROVE  /\ C!WorkerGets(w, l) <=> CP!WorkerGets(w, l)
         /\ C!WorkerReturns(w, l) <=> CP!WorkerReturns(w, l)
         /\ C!MergerGets(w, l) <=> CP!MergerGets(w, l)
         /\ C!MergerLocks(w, l) <=> CP!MergerLocks(w, l)
         /\ C!MergerRuns(w, l) <=> CP!MergerRuns(w, l)
         /\ C!MergerUnlocks(w, l) <=> CP!MergerUnlocks(w, l)
         /\ C!MergerPushes(w, l) <=> CP!MergerPushes(w, l)
         /\ C!AnyoneCommands(w, t) <=> CP!AnyoneCommands(w, t)
<1> USE DEF C!users, CP!users, C!NoList, CP!NoList, C!Chunks, CP!Chunks
<1>1. C!WorkerGets(w, l) <=> CP!WorkerGets(w, l)
  BY DEF C!WorkerGets, CP!WorkerGets, C!get_emty_list, CP!get_emty_list
<1>2. C!WorkerReturns(w, l) <=> CP!WorkerReturns(w, l)
  BY DEF C!WorkerReturns, CP!WorkerReturns, C!return_full_list,
         CP!return_full_list
<1>3. C!MergerGets(w, l) <=> CP!MergerGets(w, l)
  BY DEF C!MergerGets, CP!MergerGets, C!get_full_list, CP!get_full_list
<1>4. C!MergerLocks(w, l) <=> CP!MergerLocks(w, l)
  BY DEF C!MergerLocks, CP!MergerLocks, C!LockCommands, CP!LockCommands
<1>5. C!MergerRuns(w, l) <=> CP!MergerRuns(w, l)
  BY DEF C!MergerRuns, CP!MergerRuns, C!RunCommand, CP!RunCommand, C!Execute,
         CP!Execute
<1>6. C!MergerUnlocks(w, l) <=> CP!MergerUnlocks(w, l)
  BY DEF C!MergerUnlocks, CP!MergerUnlocks, C!UnlockCommands,
         CP!UnlockCommands
<1>7. C!MergerPushes(w, l) <=> CP!MergerPushes(w, l)
  BY DEF C!MergerPushes, CP!MergerPushes, C!PushEmpty, CP!PushEmpty
<1>8. C!AnyoneCommands(w, t) <=> CP!AnyoneCommands(w, t)
  BY DEF C!AnyoneCommands, CP!AnyoneCommands, C!add_report, CP!add_report,
         C!del_report, CP!del_report, C!Enqueue, CP!Enqueue
<1> QED BY <1>1, <1>2, <1>3, <1>4, <1>5, <1>6, <1>7, <1>8

LEMMA SameContainers ==
  /\ C!Init <=> CP!Init
  /\ [C!Next]_(C!vars) <=> [CP!Next]_(CP!vars)
  /\ C!TypeOK <=> CP!TypeOK
  /\ C!TypeOK' <=> CP!TypeOK'
  /\ C!OneOwner <=> CP!OneOwner
  /\ C!OneOwner' <=> CP!OneOwner'
<1>1. C!Init <=> CP!Init
  BY DEF C!Init, CP!Init, C!Chunks, CP!Chunks, C!NoList, CP!NoList
<1>2. C!vars = CP!vars
  BY DEF C!vars, CP!vars, C!container, CP!container, C!users, CP!users
<1>3. C!Next <=> CP!Next
  BY SameOperations DEF C!Next, CP!Next, C!Chunks, CP!Chunks
<1>4. (UNCHANGED C!vars) <=> (UNCHANGED CP!vars)
  BY DEF C!vars, CP!vars, C!container, CP!container, C!users, CP!users
<1>5. (C!TypeOK <=> CP!TypeOK) /\ (C!TypeOK' <=> CP!TypeOK')
  BY DEF C!TypeOK, CP!TypeOK, C!Chunks, CP!Chunks, C!NoList, CP!NoList,
         C!Commands, CP!Commands
<1>6. (C!OneOwner <=> CP!OneOwner) /\ (C!OneOwner' <=> CP!OneOwner')
  BY DEF C!OneOwner, CP!OneOwner, C!Partition, CP!Partition, C!Chunks,
         CP!Chunks, C!Range, CP!Range, C!IsInjective, CP!IsInjective
<1> QED BY <1>1, <1>3, <1>4, <1>5, <1>6
-----------------------------------------------------------------------------
(* What the program counters say of the threads' variables. *)
WorkerLocals ==
  \A w \in Workers :
    /\ worker_pc[w] = "swap" <=> fresh[w] # NoList
    /\ fresh[w] # NoList => fresh[w] # held[w]
    /\ held[w] = NoList => /\ worker_pc[w] # "recv"
                           /\ due[w]
                           /\ full_chunks[w] = <<>>
                           /\ w = merger_i => merging = NoList

MergerLocals ==
  /\ merging # NoList <=> merger_pc \in {"merge", "data", "replay", "push"}
  /\ merging # NoList => merger_i \in Workers
  /\ merger_pc = "data" => cur \in ReportTypes

ConsoleLocals ==
  /\ console_pc \in {"create", "insert"} => name \in ReportTypes
  /\ console_pc = "insert" => console_i = WorkerCount

Locals == WorkerLocals /\ MergerLocals /\ ConsoleLocals

LEMMA ContainerStep ==
  TypeOK /\ Locals /\ C!OneOwner /\ [Next]_vars => [C!Next]_(C!vars)
<1> SUFFICES ASSUME TypeOK, Locals, C!OneOwner, [Next]_vars
             PROVE  C!Next \/ UNCHANGED C!vars
  OBVIOUS
<1> USE DEF Locals, WorkerLocals, MergerLocals, ConsoleLocals
<1>0. /\ Chunks = C!Chunks
      /\ NoList \notin Chunks
      /\ ChunkCount \in Nat \ {0}
      /\ WorkerCount \in Nat
      /\ \A i \in 0 .. WorkerCount : i < WorkerCount => i \in Workers
      /\ \A w \in Workers : w \in Nat /\ w < WorkerCount
  BY ListCountAssumption, WorkerCountAssumption
     DEF C!Chunks, Chunks, NoList, Workers
<1>1. ASSUME UNCHANGED container, UNCHANGED <<held, fresh>>,
             MergerHas' = MergerHas, Flushed' = Flushed, Commanded' = Commanded
      PROVE  UNCHANGED C!vars
  BY <1>1 DEF C!vars, C!container, C!users, container, WorkerHas
<1>2. ASSUME UNCHANGED merger PROVE MergerHas' = MergerHas /\ Flushed' = Flushed
  BY <1>2 DEF MergerHas, Flushed, merger
<1>3. ASSUME UNCHANGED console, main_reports' = main_reports
      PROVE  Commanded' = Commanded
  BY <1>3 DEF Commanded, console
<1>4. ASSUME UNCHANGED worker PROVE WorkerHas' = WorkerHas
  BY <1>4 DEF WorkerHas, worker
<1>5. ASSUME NEW w \in Workers, PeriodElapses(w) \/ KeepList(w) \/ Receive(w)
      PROVE  UNCHANGED C!vars
  BY <1>1, <1>2, <1>3, <1>5 DEF PeriodElapses, KeepList, Receive, counts
<1>6. ASSUME NEW w \in Workers, TakeEmptyList(w) PROVE C!Next
  <2>1. PICK l \in Chunks : /\ fresh' = [fresh EXCEPT ![w] = l]
                            /\ C!get_emty_list(w, l)
                            /\ UNCHANGED <<held, merger, console, counts>>
    BY <1>6 DEF TakeEmptyList
  <2>2. fresh[w] = NoList
    BY <1>6 DEF TakeEmptyList, TypeOK
  <2>3. WorkerHas' = [WorkerHas EXCEPT ![w] = @ \union {l}]
    <3>1. ASSUME NEW v \in Workers
          PROVE  WorkerHas'[v] = IF v = w THEN WorkerHas[v] \union {l}
                                          ELSE WorkerHas[v]
      BY <1>0, <2>1, <2>2 DEF WorkerHas, TypeOK
    <3> QED BY <3>1 DEF WorkerHas
  <2>4. C!WorkerGets(w, l)
    BY <1>2, <1>3, <2>1, <2>3 DEF C!WorkerGets, counts
  <2> QED BY <1>0, <2>4 DEF C!Next
<1>7. ASSUME NEW w \in Workers, SwapLists(w) PROVE C!Next \/ UNCHANGED C!vars
  <2>1. /\ held' = [held EXCEPT ![w] = fresh[w]]
        /\ fresh' = [fresh EXCEPT ![w] = NoList]
        /\ MergerHas' = MergerHas /\ Flushed' = Flushed /\ Commanded' = Commanded
    BY <1>2, <1>3, <1>7 DEF SwapLists, counts
  <2>2. CASE held[w] = NoList
    <3>1. WorkerHas' = WorkerHas
      BY <2>1, <2>2 DEF WorkerHas, TypeOK
    <3>2. UNCHANGED container
      BY <1>7, <2>2 DEF SwapLists
    <3> QED BY <2>1, <3>1, <3>2 DEF C!vars, C!container, C!users, container
  <2>3. CASE held[w] # NoList
    <3>1. C!return_full_list(w, held[w]) /\ held[w] \in Chunks
      BY <1>7, <2>3 DEF SwapLists, TypeOK
    <3>2. held[w] # fresh[w]
      BY <1>7 DEF SwapLists
    <3>3. WorkerHas' = [WorkerHas EXCEPT ![w] = @ \ {held[w]}]
      BY <2>1, <2>3, <3>2 DEF WorkerHas, TypeOK
    <3>4. held[w] \in WorkerHas[w]
      BY <2>3 DEF WorkerHas
    <3>5. C!WorkerReturns(w, held[w])
      BY <2>1, <3>1, <3>3, <3>4 DEF C!WorkerReturns
    <3> QED BY <1>0, <3>1, <3>5 DEF C!Next
  <2> QED BY <2>2, <2>3
<1>8. CASE GetFullList
  <2>1. PICK l \in Chunks : merging' = l /\ C!get_full_list(merger_i, l)
    BY <1>8 DEF GetFullList
  <2>2. /\ merger_i \in Workers /\ merging = NoList /\ merger_pc = "scan"
        /\ merger_pc' = "merge" /\ merger_i' = merger_i
    <3>1. /\ merger_pc = "scan" /\ merger_pc' = "merge" /\ merger_i' = merger_i
          /\ merger_i < WorkerCount
      BY <1>8 DEF GetFullList
    <3>2. merger_i \in Workers
      BY <1>0, <3>1 DEF TypeOK
    <3> QED BY <3>1, <3>2
  <2>6. WorkerHas' = WorkerHas /\ Commanded' = Commanded
    BY <1>3, <1>4, <1>8 DEF GetFullList, counts
  <2>3. MergerHas' = [MergerHas EXCEPT ![merger_i] = @ \union {l}]
    BY <1>0, <2>1, <2>2 DEF MergerHas
  <2>4. Flushed' = Flushed
    BY <2>2 DEF Flushed
  <2>5. C!MergerGets(merger_i, l)
    BY <2>1, <2>3, <2>4, <2>6 DEF C!MergerGets
  <2> QED BY <1>0, <2>2, <2>5 DEF C!Next
<1>9. CASE SkipContainer \/ EndScan \/ Wake
  <2>1. /\ merging = NoList /\ merging' = NoList
        /\ merger_pc # "push" /\ merger_pc' # "push"
        /\ UNCHANGED container /\ UNCHANGED <<held, fresh>>
        /\ Commanded' = Commanded
    BY <1>3, <1>9 DEF SkipContainer, EndScan, Wake, worker, counts
  <2>2. MergerHas' = MergerHas /\ Flushed' = Flushed
    BY <2>1 DEF MergerHas, Flushed
  <2> QED BY <1>1, <2>1, <2>2
<1>10. ASSUME \/ \E t \in todo : FindReport(t) \/ MissReport(t)
              \/ \E i \in todo_idx : MergeData(i)
              \/ ClearReport
       PROVE  UNCHANGED C!vars
  <2>1. /\ UNCHANGED container /\ UNCHANGED <<held, fresh, merger_i, merging>>
        /\ merger_pc # "push" /\ merger_pc' # "push"
        /\ Commanded' = Commanded
    BY <1>3, <1>10 DEF FindReport, MissReport, MergeData, ClearReport, worker,
       counts
  <2>2. MergerHas' = MergerHas /\ Flushed' = Flushed
    BY <2>1 DEF MergerHas, Flushed
  <2> QED BY <1>1, <2>1, <2>2
<1>11. CASE BeginReturn \/ RunCommand \/ EndCommands \/ EndReturn
  <2>1. /\ merger_i \in Workers /\ merging \in Chunks /\ merging # NoList
        /\ WorkerHas' = WorkerHas /\ Commanded' = Commanded
        /\ MergerHas[merger_i] = {merging}
    BY <1>0, <1>3, <1>4, <1>11
       DEF BeginReturn, RunCommand, EndCommands, EndReturn, TypeOK, counts,
           MergerHas
  <2>2. ASSUME UNCHANGED <<merger_i, merging>> PROVE MergerHas' = MergerHas
    BY <2>2 DEF MergerHas
  <2>3. CASE BeginReturn
    <3>1. /\ C!LockCommands(merger_i, merging) /\ UNCHANGED <<merger_i, merging>>
          /\ merger_pc = "merge" /\ merger_pc' = "replay"
      BY <2>3 DEF BeginReturn
    <3>2. Flushed' = Flushed /\ Flushed[merger_i] = {}
      BY <2>1, <3>1 DEF Flushed
    <3>3. C!MergerLocks(merger_i, merging)
      BY <2>1, <2>2, <3>1, <3>2 DEF C!MergerLocks, C!users
    <3> QED BY <1>0, <2>1, <3>3 DEF C!Next
  <2>4. CASE RunCommand
    <3>1. C!RunCommand(merger_i, merging) /\ UNCHANGED <<merger_i, merging, merger_pc>>
      BY <2>4 DEF RunCommand, merger
    <3>2. Flushed' = Flushed
      BY <3>1 DEF Flushed
    <3>3. C!MergerRuns(merger_i, merging)
      BY <2>1, <2>2, <3>1, <3>2 DEF C!MergerRuns, C!users
    <3> QED BY <1>0, <2>1, <3>3 DEF C!Next
  <2>5. CASE EndCommands
    <3>1. /\ C!UnlockCommands(merger_i, merging) /\ UNCHANGED <<merger_i, merging>>
          /\ merger_pc = "replay" /\ merger_pc' = "push"
      BY <2>5 DEF EndCommands
    <3>2. Flushed' = [Flushed EXCEPT ![merger_i] = @ \union {merging}]
      BY <2>1, <3>1 DEF Flushed
    <3>3. C!MergerUnlocks(merger_i, merging)
      BY <2>1, <2>2, <3>1, <3>2 DEF C!MergerUnlocks
    <3> QED BY <1>0, <2>1, <3>3 DEF C!Next
  <2>6. CASE EndReturn
    <3>1. /\ C!PushEmpty(merger_i, merging) /\ merging' = NoList
          /\ merger_pc = "push" /\ merger_pc' = "scan"
      BY <2>6 DEF EndReturn
    <3>2. Flushed' = [Flushed EXCEPT ![merger_i] = @ \ {merging}]
      BY <2>1, <3>1 DEF Flushed
    <3>3. MergerHas' = [MergerHas EXCEPT ![merger_i] = @ \ {merging}]
      BY <2>1, <3>1 DEF MergerHas
    <3>4. merging \in Flushed[merger_i]
      BY <2>1, <3>1 DEF Flushed
    <3>5. C!MergerPushes(merger_i, merging)
      BY <2>1, <3>1, <3>2, <3>3, <3>4 DEF C!MergerPushes
    <3> QED BY <1>0, <2>1, <3>5 DEF C!Next
  <2> QED BY <1>11, <2>3, <2>4, <2>5, <2>6
<1>12. ASSUME \/ \E t \in ReportTypes : ShowReport(t) \/ NewReport(t)
              \/ ReturnReport \/ BeginInsert \/ EndInsert
       PROVE  UNCHANGED C!vars
  <2>1. /\ UNCHANGED container /\ UNCHANGED <<held, fresh>>
        /\ MergerHas' = MergerHas /\ Flushed' = Flushed
    BY <1>2, <1>12 DEF ShowReport, NewReport, ReturnReport, BeginInsert,
       EndInsert, worker
  <2>2. ASSUME \E t \in ReportTypes : ShowReport(t) PROVE Commanded' = Commanded
    BY <2>2 DEF ShowReport, Commanded, counts
  <2>3. ASSUME \E t \in ReportTypes : NewReport(t) PROVE Commanded' = Commanded
    <3>1. /\ console_pc = "prompt" /\ console_pc' = "create" /\ console_i' = 0
          /\ main_reports' = main_reports
      BY <2>3 DEF NewReport, counts
    <3>2. \A w \in Workers : ~(w < 0)
      BY <1>0
    <3> QED BY <3>1, <3>2 DEF Commanded
  <2>4. ASSUME ReturnReport PROVE Commanded' = Commanded
    BY <2>4 DEF ReturnReport, Commanded, counts
  <2>5. ASSUME BeginInsert PROVE Commanded' = Commanded
    <3>1. /\ console_pc = "create" /\ console_pc' = "insert"
          /\ console_i = WorkerCount /\ name' = name
          /\ main_reports' = main_reports
      BY <2>5 DEF BeginInsert, counts
    <3>2. \A w \in Workers : w < WorkerCount
      BY <1>0
    <3> QED BY <3>1, <3>2 DEF Commanded
  <2>6. ASSUME EndInsert PROVE Commanded' = Commanded
    BY <2>6 DEF EndInsert, Commanded
  <2>7. Commanded' = Commanded
    BY <1>12, <2>2, <2>3, <2>4, <2>5, <2>6
  <2> QED BY <1>1, <2>1, <2>7
<1>13. CASE TellContainer
  <2>1. /\ console_pc = "create" /\ console_pc' = "create"
        /\ console_i < WorkerCount /\ console_i' = console_i + 1
        /\ name' = name /\ main_reports' = main_reports
        /\ C!add_report(console_i, name)
    BY <1>13 DEF TellContainer, counts
  <2>2. console_i \in Workers /\ name \in ReportTypes
    <3>1. console_i \in Workers
      BY <1>0, <2>1 DEF TypeOK
    <3>2. name \in ReportTypes
      BY <2>1
    <3> QED BY <3>1, <3>2
  <2>3. WorkerHas' = WorkerHas /\ MergerHas' = MergerHas /\ Flushed' = Flushed
    BY <1>2, <1>4, <1>13 DEF TellContainer
  <2>4. Commanded' = [Commanded EXCEPT ![console_i] = @ \union {name}]
    <3>1. \A w \in Workers : w < console_i + 1 <=> w < console_i \/ w = console_i
      BY <1>0, <2>2
    <3>2. ASSUME NEW w \in Workers
          PROVE  Commanded'[w] = IF w = console_i THEN Commanded[w] \union {name}
                                                  ELSE Commanded[w]
      BY <1>0, <2>1, <2>2, <3>1 DEF Commanded
    <3> QED BY <3>2 DEF Commanded
  <2>5. C!AnyoneCommands(console_i, name)
    BY <2>1, <2>3, <2>4 DEF C!AnyoneCommands
  <2> QED BY <2>2, <2>5 DEF C!Next
<1>14. CASE UNCHANGED vars
  BY <1>1, <1>2, <1>3, <1>14 DEF vars, worker, counts
<1> QED BY <1>5, <1>6, <1>7, <1>8, <1>9, <1>10, <1>11, <1>12, <1>13, <1>14
        DEF Next, WorkerStep, MergerStep, ConsoleStep, Environment
-----------------------------------------------------------------------------
(* The inductive invariant: types, locals, and the partition of the lists. *)
Inv ==
  /\ TypeOK
  /\ Locals
  /\ CP!MergerLists
  /\ C!OneOwner

LEMMA ContainerInit == Init => C!Init
BY ListCountAssumption
   DEF Init, C!Init, WorkerHas, MergerHas, Flushed, Commanded, C!Chunks, Chunks,
       C!NoList, NoList

LEMMA InvInit == Init => Inv
<1> SUFFICES ASSUME Init PROVE Inv
  OBVIOUS
<1>0. /\ ChunkCount \in Nat \ {0}
      /\ WorkerCount \in Nat
      /\ Chunks = C!Chunks /\ NoList = C!NoList
  BY ListCountAssumption, WorkerCountAssumption
     DEF C!Chunks, Chunks, NoList, C!NoList
<1>1. C!Init
  BY ContainerInit
<1>2. CP!Init
  BY <1>1, SameContainers
<1>3. CP!TypeOK /\ CP!MergerLists /\ CP!OneOwner
  BY <1>2, ListCountAssumption, CP!TypeInit, CP!MergerListsInit,
     CP!PartitionInit
<1>4. C!TypeOK /\ C!OneOwner
  BY <1>3, SameContainers
<1>5. TypeOK
  <2>1. 0 \in 0 .. WorkerCount
    BY <1>0
  <2>2. Zero \in [Requests -> Nat]
    BY DEF Zero
  <2>3. counted \in [Workers -> [Chunks -> [ReportTypes -> [Requests -> Nat]]]]
    BY <2>2 DEF Init
  <2>4. total \in [ReportTypes -> [Requests -> Nat]]
    BY <2>2 DEF Init
  <2> QED BY <1>4, <2>1, <2>3, <2>4 DEF Init, TypeOK
<1>6. Locals
  BY DEF Init, Locals, WorkerLocals, MergerLocals, ConsoleLocals
<1> QED BY <1>3, <1>4, <1>5, <1>6 DEF Inv

LEMMA LocalsStep == TypeOK /\ Locals /\ C!OneOwner /\ [Next]_vars => Locals'
<1> SUFFICES ASSUME TypeOK, Locals, C!OneOwner, [Next]_vars
             PROVE  Locals'
  OBVIOUS
<1>0. /\ Chunks = C!Chunks
      /\ NoList \notin Chunks
      /\ ChunkCount \in Nat \ {0}
      /\ WorkerCount \in Nat
      /\ \A i \in 0 .. WorkerCount : i < WorkerCount => i \in Workers
      /\ Chunks # {}
  <2>1. /\ ChunkCount \in Nat \ {0} /\ WorkerCount \in Nat
    BY ListCountAssumption, WorkerCountAssumption
  <2>2. 1 \in Chunks
    BY <2>1 DEF Chunks
  <2> QED BY <2>1, <2>2 DEF C!Chunks, Chunks, NoList, Workers
(* What the partition says of a worker's lists. *)
<1>1. ASSUME NEW w \in Workers, NEW l \in Chunks, C!get_emty_list(w, l)
      PROVE  l # held[w]
  <2>1. C!Partition(w) /\ empty_chunks[w] \in Seq(Chunks)
    BY <1>0 DEF C!OneOwner, TypeOK, C!TypeOK
  <2>2. l \in C!Range(empty_chunks[w])
    BY <1>1, <2>1 DEF C!get_emty_list, C!Range
  <2>3. l \notin WorkerHas[w]
    BY <2>1, <2>2 DEF C!Partition
  <2> QED BY <1>0, <2>3 DEF WorkerHas
<1>2. ASSUME NEW w \in Workers, held[w] = NoList, empty_chunks[w] = <<>>,
             worker_pc[w] = "top"
      PROVE  FALSE
  <2>1. C!Partition(w)
    BY DEF C!OneOwner
  <2>2. full_chunks[w] = <<>> /\ fresh[w] = NoList
        /\ (w = merger_i => merging = NoList)
    BY <1>2 DEF Locals, WorkerLocals
  <2>3. WorkerHas[w] = {} /\ MergerHas[w] = {}
    BY <1>2, <2>2 DEF WorkerHas, MergerHas
  <2>4. C!Range(empty_chunks[w]) = {} /\ C!Range(full_chunks[w]) = {}
    BY <1>2, <2>2 DEF C!Range
  <2>5. Chunks = {}
    BY <1>0, <2>1, <2>3, <2>4 DEF C!Partition
  <2> QED BY <1>0, <2>5
<1>3. ASSUME NEW w \in Workers, WorkerStep(w) \/ Receive(w) \/ PeriodElapses(w)
      PROVE  Locals'
  <2>1. MergerLocals' /\ ConsoleLocals'
    BY <1>3 DEF WorkerStep, KeepList, TakeEmptyList, SwapLists, Receive,
       PeriodElapses, merger, console, Locals, MergerLocals, ConsoleLocals
  <2>2. merger_i' = merger_i /\ merging' = merging
    BY <1>3 DEF WorkerStep, KeepList, TakeEmptyList, SwapLists, Receive,
       PeriodElapses, merger
  <2> SUFFICES ASSUME NEW v \in Workers
               PROVE  /\ worker_pc'[v] = "swap" <=> fresh'[v] # NoList
                      /\ fresh'[v] # NoList => fresh'[v] # held'[v]
                      /\ held'[v] = NoList =>
                           /\ worker_pc'[v] # "recv"
                           /\ due'[v]
                           /\ full_chunks'[v] = <<>>
                           /\ v = merger_i' => merging' = NoList
    BY <2>1 DEF Locals, WorkerLocals
  <2>3. /\ worker_pc[v] = "swap" <=> fresh[v] # NoList
        /\ fresh[v] # NoList => fresh[v] # held[v]
        /\ held[v] = NoList => /\ worker_pc[v] # "recv"
                               /\ due[v]
                               /\ full_chunks[v] = <<>>
                               /\ v = merger_i => merging = NoList
    BY DEF Locals, WorkerLocals
  <2>4. CASE KeepList(w)
    <3>1. held[w] # NoList
      BY <1>2, <2>4 DEF KeepList, Locals, WorkerLocals
    <3> QED BY <2>2, <2>3, <2>4, <3>1 DEF KeepList, container, TypeOK
  <2>5. CASE TakeEmptyList(w)
    <3>1. PICK l \in Chunks : /\ fresh' = [fresh EXCEPT ![w] = l]
                              /\ C!get_emty_list(w, l)
                              /\ UNCHANGED <<held, due>>
                              /\ worker_pc' = [worker_pc EXCEPT ![w] = "swap"]
      BY <2>5 DEF TakeEmptyList
    <3>2. l # held[w] /\ l # NoList
      BY <1>0, <1>1, <3>1
    <3>3. full_chunks' = full_chunks
      BY <3>1 DEF C!get_emty_list
    <3> QED BY <2>2, <2>3, <3>1, <3>2, <3>3 DEF TypeOK
  <2>6. CASE SwapLists(w)
    <3>1. fresh[w] # NoList
      BY <2>6 DEF SwapLists, Locals, WorkerLocals
    <3>2. v # w => full_chunks'[v] = full_chunks[v]
      BY <2>6 DEF SwapLists, container, C!return_full_list, TypeOK, C!TypeOK
    <3> QED BY <2>2, <2>3, <2>6, <3>1, <3>2 DEF SwapLists, TypeOK
  <2>7. CASE Receive(w)
    BY <2>2, <2>3, <2>7 DEF Receive, container, TypeOK
  <2>8. CASE PeriodElapses(w)
    BY <2>2, <2>3, <2>8 DEF PeriodElapses, container, TypeOK
  <2> QED BY <1>3, <2>4, <2>5, <2>6, <2>7, <2>8 DEF WorkerStep
<1>4. CASE MergerStep
  <2>1. ConsoleLocals' /\ UNCHANGED worker
    BY <1>4 DEF MergerStep, GetFullList, SkipContainer, EndScan, Wake,
       FindReport, MissReport, MergeData, ClearReport, BeginReturn, RunCommand,
       EndCommands, EndReturn, console, Locals, ConsoleLocals
  <2>2. CASE GetFullList
    <3>1. PICK l \in Chunks : /\ merging' = l
                              /\ C!get_full_list(merger_i, l)
      BY <2>2 DEF GetFullList
    <3>2. merger_i' = merger_i /\ merger_pc' = "merge" /\ merger_i < WorkerCount
      BY <2>2 DEF GetFullList
    <3>3. merger_i \in Workers
      BY <1>0, <3>2 DEF TypeOK
    <3>4. MergerLocals'
      BY <1>0, <3>1, <3>2, <3>3 DEF MergerLocals
    <3>5. ASSUME NEW v \in Workers, held[v] = NoList
          PROVE  v # merger_i /\ full_chunks'[v] = <<>>
      <4>1. full_chunks[v] = <<>>
        BY <3>5 DEF Locals, WorkerLocals
      <4>2. v # merger_i
        BY <3>1, <4>1 DEF C!get_full_list
      <4> QED BY <3>1, <4>1, <4>2 DEF C!get_full_list, TypeOK, C!TypeOK
    <3>6. WorkerLocals'
      BY <2>1, <3>2, <3>5 DEF Locals, WorkerLocals, worker
    <3> QED BY <2>1, <3>4, <3>6 DEF Locals
  <2>3. CASE ~GetFullList
    <3>1. full_chunks' = full_chunks
      BY <1>4, <2>3 DEF MergerStep, SkipContainer, EndScan, Wake, FindReport,
         MissReport, MergeData, ClearReport, BeginReturn, RunCommand,
         EndCommands, EndReturn, container, C!LockCommands, C!RunCommand,
         C!UnlockCommands, C!PushEmpty
    <3>2. MergerLocals' /\ (merging' = NoList \/ UNCHANGED <<merging, merger_i>>)
      <4>1. CASE SkipContainer \/ EndScan \/ Wake
        BY <4>1 DEF SkipContainer, EndScan, Wake, Locals, MergerLocals
      <4>2. CASE \E t \in todo : FindReport(t) \/ MissReport(t)
        BY <4>2 DEF FindReport, MissReport, Locals, MergerLocals, TypeOK
      <4>3. CASE \/ \E i \in todo_idx : MergeData(i)
                 \/ ClearReport
        BY <4>3 DEF MergeData, ClearReport, Locals, MergerLocals
      <4>4. CASE BeginReturn \/ RunCommand \/ EndCommands
        BY <4>4 DEF BeginReturn, RunCommand, EndCommands, merger, Locals,
           MergerLocals
      <4>5. CASE EndReturn
        BY <4>5 DEF EndReturn, Locals, MergerLocals
      <4> QED BY <1>4, <2>3, <4>1, <4>2, <4>3, <4>4, <4>5 DEF MergerStep
    <3>3. WorkerLocals'
      BY <2>1, <3>1, <3>2 DEF Locals, WorkerLocals, worker
    <3> QED BY <2>1, <3>2, <3>3 DEF Locals
  <2> QED BY <2>2, <2>3
<1>5. CASE ConsoleStep \/ (\E t \in ReportTypes : ShowReport(t) \/ NewReport(t))
  <2>1. UNCHANGED worker /\ UNCHANGED merger /\ full_chunks' = full_chunks
    BY <1>5 DEF ConsoleStep, ShowReport, NewReport, ReturnReport, TellContainer,
       BeginInsert, EndInsert, container, C!add_report, C!Enqueue
  <2>2. ConsoleLocals'
    BY <1>5 DEF ConsoleStep, ShowReport, NewReport, ReturnReport, TellContainer,
       BeginInsert, EndInsert, Locals, ConsoleLocals
  <2>3. WorkerLocals' /\ MergerLocals'
    BY <2>1 DEF Locals, WorkerLocals, MergerLocals, worker, merger
  <2> QED BY <2>2, <2>3 DEF Locals
<1>6. CASE UNCHANGED vars
  BY <1>6 DEF vars, container, worker, merger, console, Locals, WorkerLocals,
     MergerLocals, ConsoleLocals
<1> QED BY <1>3, <1>4, <1>5, <1>6 DEF Next, Environment
-----------------------------------------------------------------------------
LEMMA TypeStep == TypeOK /\ Locals /\ C!OneOwner /\ [Next]_vars => TypeOK'
<1> SUFFICES ASSUME TypeOK, Locals, C!OneOwner, [Next]_vars
             PROVE  TypeOK'
  OBVIOUS
<1>0. /\ Chunks = C!Chunks
      /\ WorkerCount \in Nat
      /\ 0 \in 0 .. WorkerCount
      /\ \A i \in 0 .. WorkerCount :
           i < WorkerCount => i \in Workers /\ i + 1 \in 0 .. WorkerCount
      /\ \A i \in Workers : i + 1 \in 0 .. WorkerCount
  BY WorkerCountAssumption DEF C!Chunks, Chunks, Workers
<1>1. C!TypeOK'
  BY ContainerStep, SameContainers, CP!TypeStep, ListCountAssumption DEF TypeOK
<1>2. CASE \E w \in Workers : WorkerStep(w) \/ PeriodElapses(w)
  <2>1. CASE \E w \in Workers : KeepList(w) \/ PeriodElapses(w)
    BY <1>1, <2>1 DEF KeepList, PeriodElapses, merger, console, counts, TypeOK
  <2>2. CASE \E w \in Workers : TakeEmptyList(w)
    BY <1>1, <2>2 DEF TakeEmptyList, merger, console, counts, TypeOK
  <2>3. CASE \E w \in Workers : SwapLists(w)
    BY <1>1, <2>3 DEF SwapLists, merger, console, counts, TypeOK
  <2> QED BY <1>2, <2>1, <2>2, <2>3 DEF WorkerStep
<1>3. CASE \E w \in Workers : Receive(w)
  <2>1. PICK w \in Workers : Receive(w)
    BY <1>3
  <2>2. PICK datagram \in SUBSET (Requests \ received) :
          /\ received' = received \union datagram
          /\ counted' = IF held[w] = NoList THEN counted
                        ELSE [counted EXCEPT ![w][held[w]] = CountIn(w, datagram)]
    BY <2>1 DEF Receive
  <2>3. received' \in SUBSET Requests
    BY <2>2 DEF TypeOK
  <2>4. held[w] # NoList => CountIn(w, datagram) \in [ReportTypes -> [Requests -> Nat]]
    <3>1. ASSUME held[w] # NoList, NEW t \in ReportTypes, NEW r \in Requests
          PROVE  counted[w][held[w]][t][r] \in Nat
      BY <3>1 DEF TypeOK
    <3> QED BY <3>1 DEF CountIn
  <2>5. counted' \in [Workers -> [Chunks -> [ReportTypes -> [Requests -> Nat]]]]
    BY <2>2, <2>4 DEF TypeOK
  <2>6. worker_pc' \in [Workers -> {"top", "swap", "recv"}]
    BY <2>1 DEF Receive, TypeOK
  <2> QED BY <1>1, <2>1, <2>3, <2>5, <2>6 DEF Receive, merger, console, TypeOK
<1>4. CASE GetFullList
  <2>1. PICK l \in Chunks : /\ merging' = l
                            /\ todo' = reports[merger_i][l]
    BY <1>4 DEF GetFullList
  <2>2. merger_i \in Workers
    BY <1>0, <1>4 DEF GetFullList, TypeOK
  <2>3. todo' \in SUBSET ReportTypes
    BY <1>0, <2>1, <2>2 DEF TypeOK, C!TypeOK
  <2> QED BY <1>1, <1>4, <2>1, <2>3
          DEF GetFullList, worker, console, counts, TypeOK
<1>5. CASE SkipContainer \/ EndScan \/ Wake
  BY <1>0, <1>1, <1>5 DEF SkipContainer, EndScan, Wake, worker, console, counts,
     TypeOK
<1>6. CASE \E t \in todo : FindReport(t) \/ MissReport(t)
  BY <1>1, <1>6 DEF FindReport, MissReport, worker, console, counts, TypeOK
<1>7. CASE \E i \in todo_idx : MergeData(i)
  <2>1. PICK i \in todo_idx : MergeData(i)
    BY <1>7
  <2>2. merger_i \in Workers /\ merging \in Chunks /\ cur \in ReportTypes
    BY <2>1 DEF MergeData, Locals, MergerLocals, TypeOK
  <2>3. ASSUME NEW r \in Requests
        PROVE  total[cur][r]
                 + (IF Index[r] = i THEN counted[merger_i][merging][cur][r] ELSE 0)
                 \in Nat
    <3>1. total[cur][r] \in Nat /\ counted[merger_i][merging][cur][r] \in Nat
      BY <2>2 DEF TypeOK
    <3> QED BY <3>1
  <2>4. total' \in [ReportTypes -> [Requests -> Nat]]
    BY <2>1, <2>2, <2>3 DEF MergeData, TypeOK
  <2> QED BY <1>1, <2>1, <2>4 DEF MergeData, worker, console, counts, TypeOK
<1>8. CASE ClearReport
  <2>1. merger_i \in Workers /\ merging \in Chunks /\ cur \in ReportTypes
    BY <1>8 DEF ClearReport, Locals, MergerLocals, TypeOK
  <2>2. counted' \in [Workers -> [Chunks -> [ReportTypes -> [Requests -> Nat]]]]
    BY <1>8, <2>1 DEF ClearReport, Zero, TypeOK
  <2> QED BY <1>1, <1>8, <2>2 DEF ClearReport, worker, console, TypeOK
<1>9. CASE RunCommand
  <2>1. merger_i \in Workers /\ merging \in Chunks
    BY <1>9 DEF RunCommand, Locals, MergerLocals, TypeOK
  <2>2. counted[merger_i][merging] \in [ReportTypes -> [Requests -> Nat]]
    BY <2>1 DEF TypeOK
  <2>3. Zero \in [Requests -> Nat]
    BY DEF Zero
  <2>4. [t \in ReportTypes |->
           IF t \in reports[merger_i][merging]
             THEN counted[merger_i][merging][t] ELSE Zero]
          \in [ReportTypes -> [Requests -> Nat]]
    BY <2>2, <2>3
  <2>5. counted' \in [Workers -> [Chunks -> [ReportTypes -> [Requests -> Nat]]]]
    BY <1>9, <2>4 DEF RunCommand, TypeOK
  <2> QED BY <1>1, <1>9, <2>5 DEF RunCommand, worker, merger, console, TypeOK
<1>10. CASE BeginReturn \/ EndCommands \/ EndReturn
  <2>1. merger_i \in Workers
    BY <1>10 DEF BeginReturn, EndCommands, EndReturn, Locals, MergerLocals
  <2>2. merger_i' \in 0 .. WorkerCount
    BY <1>0, <1>10, <2>1 DEF BeginReturn, EndCommands, EndReturn, TypeOK
  <2> QED BY <1>1, <1>10, <2>2 DEF BeginReturn, EndCommands, EndReturn, worker,
          console, counts, TypeOK
<1>11. CASE ReturnReport \/ (\E t \in ReportTypes : ShowReport(t) \/ NewReport(t))
  BY <1>0, <1>1, <1>11 DEF ReturnReport, ShowReport, NewReport, worker, merger,
     counts, TypeOK
<1>12. CASE TellContainer \/ BeginInsert
  BY <1>0, <1>1, <1>12 DEF TellContainer, BeginInsert, worker, merger, counts,
     TypeOK
<1>13. CASE EndInsert
  <2>1. name \in ReportTypes
    BY <1>13 DEF EndInsert, Locals, ConsoleLocals
  <2>2. total' \in [ReportTypes -> [Requests -> Nat]]
    BY <1>13, <2>1 DEF EndInsert, Zero, TypeOK
  <2>3. main_reports' \in SUBSET ReportTypes
    BY <1>13, <2>1 DEF EndInsert, TypeOK
  <2> QED BY <1>0, <1>1, <1>13, <2>2, <2>3 DEF EndInsert, worker, merger, TypeOK
<1>14. CASE UNCHANGED vars
  BY <1>1, <1>14 DEF vars, worker, merger, console, counts, TypeOK
<1> QED BY <1>2, <1>3, <1>4, <1>5, <1>6, <1>7, <1>8, <1>9, <1>10, <1>11, <1>12,
           <1>13, <1>14
        DEF Next, MergerStep, ConsoleStep, Environment

LEMMA InvStep == Inv /\ [Next]_vars => Inv'
<1> SUFFICES ASSUME Inv, [Next]_vars PROVE Inv'
  OBVIOUS
<1>1. TypeOK' /\ Locals'
  BY TypeStep, LocalsStep DEF Inv
<1>2. CP!TypeOK /\ CP!OneOwner /\ [CP!Next]_(CP!vars)
  BY ContainerStep, SameContainers DEF Inv, TypeOK
<1>3. CP!MergerLists' /\ CP!OneOwner'
  BY <1>2, CP!MergerListsStep, CP!PartitionStep, ListCountAssumption DEF Inv
<1> QED BY <1>1, <1>3, SameContainers DEF Inv
-----------------------------------------------------------------------------
(***************************************************************************)
(* The names.  A list has, and is told to create, only reports it was      *)
(* asked for; each of them once, and none it has.  It is the console's     *)
(* lookup under the lock that keeps this so: the name it is creating is in *)
(* the main list only when the creation is over.                           *)
(***************************************************************************)
Orderly(names, cmds, asked) ==
  /\ names \subseteq asked
  /\ \A i \in DOMAIN cmds : /\ cmds[i].producer
                            /\ cmds[i].type \in asked \ names
  /\ \A i, j \in DOMAIN cmds : cmds[i].type = cmds[j].type => i = j

Registry ==
  /\ console_pc \in {"create", "insert"} => name \notin main_reports
  /\ \A w \in Workers, l \in Chunks :
       Orderly(reports[w][l], cmd_map[w][l], Commanded[w])

LEMMA OrderlyAppend ==
  ASSUME NEW names, NEW cmds \in Seq(C!Commands), NEW asked,
         Orderly(names, cmds, asked),
         NEW t, t \notin asked,
         NEW cmd, cmd = [producer |-> TRUE, type |-> t]
  PROVE  Orderly(names, Append(cmds, cmd), asked \union {t})
<1> DEFINE a == Append(cmds, cmd)
           n == Len(cmds) + 1
<1>1. /\ DOMAIN a = DOMAIN cmds \union {n} /\ n \notin DOMAIN cmds
      /\ a[n] = cmd
      /\ \A i \in DOMAIN cmds : a[i] = cmds[i]
  OBVIOUS
<1>2. cmd.producer /\ cmd.type = t
  OBVIOUS
<1>3. \A i \in DOMAIN cmds : cmds[i].type # t
  BY DEF Orderly
<1>4. \A i \in DOMAIN a : a[i].producer /\ a[i].type \in (asked \union {t}) \ names
  BY <1>1, <1>2 DEF Orderly
<1>5. \A i, j \in DOMAIN a : a[i].type = a[j].type => i = j
  BY <1>1, <1>2, <1>3 DEF Orderly
<1> HIDE DEF a
<1> QED BY <1>4, <1>5 DEF Orderly, a

LEMMA OrderlyTail ==
  ASSUME NEW names, NEW cmds \in Seq(C!Commands), cmds # <<>>, NEW asked,
         Orderly(names, cmds, asked)
  PROVE  /\ Orderly(C!Execute(names, Head(cmds)), Tail(cmds), asked)
         /\ names \subseteq C!Execute(names, Head(cmds))
<1> DEFINE tl == Tail(cmds)
<1>1. /\ 1 \in DOMAIN cmds /\ Head(cmds) = cmds[1]
      /\ \A i \in DOMAIN tl : i + 1 \in DOMAIN cmds /\ tl[i] = cmds[i + 1]
      /\ \A i \in DOMAIN tl : i \in Nat /\ i + 1 # 1
  OBVIOUS
<1>2. C!Execute(names, Head(cmds)) = names \union {cmds[1].type}
  BY <1>1 DEF Orderly, C!Execute
<1>3. \A i \in DOMAIN tl : tl[i].type # cmds[1].type
  BY <1>1 DEF Orderly
<1>4. \A i \in DOMAIN tl :
        tl[i].producer /\ tl[i].type \in asked \ (names \union {cmds[1].type})
  BY <1>1, <1>3 DEF Orderly
<1>5. \A i, j \in DOMAIN tl : tl[i].type = tl[j].type => i = j
  BY <1>1 DEF Orderly
<1>6. names \union {cmds[1].type} \subseteq asked
  BY <1>1 DEF Orderly
<1> HIDE DEF tl
<1> QED BY <1>2, <1>4, <1>5, <1>6 DEF Orderly, tl

(* Only TellContainer asks for a report, and only it and the merger's      *)
(* RunCommand touch the commands and the reports of a list.                *)
LEMMA NamesFrame ==
  ASSUME [Next]_vars, ~TellContainer, ~RunCommand
  PROVE  UNCHANGED <<cmd_map, reports>>
<1>1. CASE \E w \in Workers : WorkerStep(w) \/ Receive(w) \/ PeriodElapses(w)
  BY <1>1 DEF WorkerStep, KeepList, TakeEmptyList, SwapLists, Receive,
     PeriodElapses, container, C!get_emty_list, C!return_full_list
<1>2. CASE MergerStep
  BY <1>2 DEF MergerStep, GetFullList, SkipContainer, EndScan, Wake, FindReport,
     MissReport, MergeData, ClearReport, BeginReturn, EndCommands, EndReturn,
     container, C!get_full_list, C!LockCommands, C!UnlockCommands, C!PushEmpty
<1>3. CASE ConsoleStep \/ (\E t \in ReportTypes : ShowReport(t) \/ NewReport(t))
  BY <1>3 DEF ConsoleStep, ShowReport, NewReport, ReturnReport, BeginInsert,
     EndInsert, container
<1>4. CASE UNCHANGED vars
  BY <1>4 DEF vars, container
<1> QED BY <1>1, <1>2, <1>3, <1>4 DEF Next, Environment

LEMMA AskedFrame ==
  ASSUME [Next]_vars, ~TellContainer
  PROVE  Commanded' = Commanded
<1>0. \A w \in Workers : ~(w < 0) /\ w < WorkerCount
  BY WorkerCountAssumption DEF Workers
<1>1. ASSUME UNCHANGED console, main_reports' = main_reports
      PROVE  Commanded' = Commanded
  BY <1>1 DEF Commanded, console
<1>2. CASE \E w \in Workers : WorkerStep(w) \/ Receive(w) \/ PeriodElapses(w)
  BY <1>1, <1>2 DEF WorkerStep, KeepList, TakeEmptyList, SwapLists, Receive,
     PeriodElapses, counts
<1>3. CASE MergerStep
  BY <1>1, <1>3 DEF MergerStep, GetFullList, SkipContainer, EndScan, Wake,
     FindReport, MissReport, MergeData, ClearReport, BeginReturn, RunCommand,
     EndCommands, EndReturn, counts
<1>4. CASE ReturnReport \/ (\E t \in ReportTypes : ShowReport(t))
  BY <1>4 DEF ReturnReport, ShowReport, Commanded, counts
<1>5. CASE \E t \in ReportTypes : NewReport(t)
  <2>1. /\ console_pc = "prompt" /\ console_pc' = "create" /\ console_i' = 0
        /\ main_reports' = main_reports
    BY <1>5 DEF NewReport, counts
  <2> QED BY <1>0, <2>1 DEF Commanded
<1>6. CASE BeginInsert
  <2>1. /\ console_pc = "create" /\ console_pc' = "insert"
        /\ console_i = WorkerCount /\ name' = name
        /\ main_reports' = main_reports
    BY <1>6 DEF BeginInsert, counts
  <2> QED BY <1>0, <2>1 DEF Commanded
<1>7. CASE EndInsert
  BY <1>7 DEF EndInsert, Commanded
<1>8. CASE UNCHANGED vars
  BY <1>1, <1>8 DEF vars, counts
<1> QED BY <1>2, <1>3, <1>4, <1>5, <1>6, <1>7, <1>8
        DEF Next, ConsoleStep, Environment

LEMMA RegistryInit == Init => Registry
BY DEF Init, Registry, Orderly, Commanded

LEMMA RegistryStep == TypeOK /\ Locals /\ Registry /\ [Next]_vars => Registry'
<1> SUFFICES ASSUME TypeOK, Locals, Registry, [Next]_vars
             PROVE  Registry'
  OBVIOUS
<1>0. Chunks = C!Chunks
  BY DEF C!Chunks, Chunks
<1>1. ASSUME NEW w \in Workers, NEW l \in Chunks
      PROVE  /\ cmd_map[w][l] \in Seq(C!Commands)
             /\ Orderly(reports[w][l], cmd_map[w][l], Commanded[w])
  BY <1>0 DEF TypeOK, C!TypeOK, Registry
<1>2. console_pc' \in {"create", "insert"} => name' \notin main_reports'
  <2>1. CASE ConsoleStep \/ (\E t \in ReportTypes : ShowReport(t) \/ NewReport(t))
    BY <2>1 DEF ConsoleStep, ShowReport, NewReport, ReturnReport, TellContainer,
       BeginInsert, EndInsert, counts, Registry
  <2>2. CASE \/ \E w \in Workers : WorkerStep(w) \/ Receive(w) \/ PeriodElapses(w)
             \/ MergerStep \/ UNCHANGED vars
    <3>1. UNCHANGED console /\ main_reports' = main_reports
      <4>1. CASE \E w \in Workers : WorkerStep(w) \/ Receive(w) \/ PeriodElapses(w)
        BY <4>1 DEF WorkerStep, KeepList, TakeEmptyList, SwapLists, Receive,
           PeriodElapses, counts
      <4>2. CASE MergerStep
        BY <4>2 DEF MergerStep, GetFullList, SkipContainer, EndScan, Wake,
           FindReport, MissReport, MergeData, ClearReport, BeginReturn,
           RunCommand, EndCommands, EndReturn, counts
      <4>3. CASE UNCHANGED vars
        BY <4>3 DEF vars, counts
      <4> QED BY <2>2, <4>1, <4>2, <4>3
    <3> QED BY <3>1 DEF console, Registry
  <2> QED BY <2>1, <2>2 DEF Next, Environment
<1>3. CASE TellContainer
  <2>1. /\ console_pc = "create" /\ console_pc' = "create"
        /\ console_i < WorkerCount /\ console_i' = console_i + 1
        /\ name' = name /\ main_reports' = main_reports
        /\ C!add_report(console_i, name)
    BY <1>3 DEF TellContainer, counts
  <2>2. /\ console_i \in Workers
        /\ \A w \in Workers : w < console_i + 1 <=> w < console_i \/ w = console_i
        /\ ~(console_i < console_i)
    BY <2>1, WorkerCountAssumption DEF TypeOK, Workers
  <2>3. name \notin main_reports
    BY <2>1 DEF Registry
  <2>4. ASSUME NEW w \in Workers, NEW l \in Chunks
        PROVE  Orderly(reports'[w][l], cmd_map'[w][l], Commanded'[w])
    <3>1. reports' = reports
      BY <2>1 DEF C!add_report, C!Enqueue
    <3>2. CASE w = console_i
      <4>1. Commanded[w] = main_reports /\ Commanded'[w] = Commanded[w] \union {name}
        BY <2>1, <2>2, <3>2 DEF Commanded
      <4> DEFINE cmd == [producer |-> TRUE, type |-> name]
      <4>2. cmd_map'[w][l] = Append(cmd_map[w][l], cmd)
        BY <1>0, <2>1, <3>2 DEF C!add_report, C!Enqueue, TypeOK, C!TypeOK
      <4>3. Orderly(reports[w][l], Append(cmd_map[w][l], cmd), Commanded[w] \union {name})
        BY <1>1, <2>3, <4>1, OrderlyAppend
      <4> QED BY <3>1, <4>1, <4>2, <4>3
    <3>3. CASE w # console_i
      <4>1. Commanded'[w] = Commanded[w]
        BY <2>1, <2>2, <3>3 DEF Commanded
      <4>2. cmd_map'[w] = cmd_map[w]
        BY <2>1, <3>3 DEF C!add_report, C!Enqueue, TypeOK, C!TypeOK
      <4> QED BY <1>1, <3>1, <4>1, <4>2
    <3> QED BY <3>2, <3>3
  <2> QED BY <1>2, <2>4 DEF Registry, Orderly
<1>4. CASE RunCommand /\ ~TellContainer
  <2>1. Commanded' = Commanded
    BY <1>4, AskedFrame
  <2>2. C!RunCommand(merger_i, merging)
    BY <1>4 DEF RunCommand
  <2>3. merger_i \in Workers /\ merging \in Chunks
    BY <1>4 DEF RunCommand, Locals, MergerLocals, TypeOK
  <2>4. ASSUME NEW w \in Workers, NEW l \in Chunks
        PROVE  Orderly(reports'[w][l], cmd_map'[w][l], Commanded'[w])
    <3>1. CASE w = merger_i /\ l = merging
      <4>1. /\ cmd_map[w][l] # <<>>
            /\ reports'[w][l] = C!Execute(reports[w][l], Head(cmd_map[w][l]))
            /\ cmd_map'[w][l] = Tail(cmd_map[w][l])
        BY <1>0, <2>2, <2>3, <3>1 DEF C!RunCommand, TypeOK, C!TypeOK
      <4>2. Orderly(C!Execute(reports[w][l], Head(cmd_map[w][l])),
                    Tail(cmd_map[w][l]), Commanded[w])
        BY <1>1, <4>1, OrderlyTail
      <4> QED BY <2>1, <4>1, <4>2
    <3>2. CASE ~(w = merger_i /\ l = merging)
      <4>1. reports'[w][l] = reports[w][l] /\ cmd_map'[w][l] = cmd_map[w][l]
        BY <1>0, <2>2, <2>3, <3>2 DEF C!RunCommand, TypeOK, C!TypeOK
      <4> QED BY <1>1, <2>1, <4>1
    <3> QED BY <3>1, <3>2
  <2> QED BY <1>2, <2>4 DEF Registry, Orderly
<1>5. CASE ~RunCommand /\ ~TellContainer
  <2>1. Commanded' = Commanded /\ UNCHANGED <<cmd_map, reports>>
    BY <1>5, AskedFrame, NamesFrame
  <2> QED BY <1>2, <2>1 DEF Registry, Orderly
<1> QED BY <1>3, <1>4, <1>5
-----------------------------------------------------------------------------
(***************************************************************************)
(* The counts.  For one report and one request: what is in the main list,  *)
(* what the lists hold, and that they hold it only for what was received,  *)
(* in reports they have.  A step leaves all that alone, or it counts a     *)
(* request nobody has counted (Receive), or it moves the one count that is *)
(* owed into the main list (MergeData).                                    *)
(***************************************************************************)
Owed(w, l, t, r) == counted[w][l][t][r] > 0 /\ ~Added(w, l, t, r)

OnlyOneOwes(t, r) ==
  \A w, v \in Workers, l, m \in Chunks :
    Owed(w, l, t, r) /\ Owed(v, m, t, r) => w = v /\ l = m

Once(t, r) ==
  /\ total[t][r] \in {0, 1}
  /\ total[t][r] = 1 => /\ r \in received
                        /\ t \in main_reports
                        /\ \A w \in Workers, l \in Chunks : ~Owed(w, l, t, r)
  /\ \A w \in Workers, l \in Chunks :
       /\ counted[w][l][t][r] \in {0, 1}
       /\ counted[w][l][t][r] = 1 => r \in received /\ t \in reports[w][l]
  /\ OnlyOneOwes(t, r)

Counts ==
  /\ merger_pc = "data" => cur \in main_reports
  /\ \A t \in ReportTypes, r \in Requests : Once(t, r)

LEMMA CountsInit == Init => Counts
<1> SUFFICES ASSUME Init PROVE Counts
  OBVIOUS
<1>1. ASSUME NEW t \in ReportTypes, NEW r \in Requests
      PROVE  /\ total[t][r] = 0
             /\ \A w \in Workers, l \in Chunks : counted[w][l][t][r] = 0
  BY DEF Init, Zero
<1>2. ASSUME NEW t \in ReportTypes, NEW r \in Requests PROVE Once(t, r)
  <2>1. \A w \in Workers, l \in Chunks : ~Owed(w, l, t, r)
    BY <1>1 DEF Owed
  <2> QED BY <1>1, <2>1 DEF Once, OnlyOneOwes
<1> QED BY <1>2 DEF Init, Counts

(* Reports are neither lost from a list nor from the main list.             *)
LEMMA NamesStay ==
  ASSUME TypeOK, Locals, Registry, [Next]_vars
  PROVE  /\ main_reports \subseteq main_reports'
         /\ \A w \in Workers, l \in Chunks : reports[w][l] \subseteq reports'[w][l]
<1>0. Chunks = C!Chunks
  BY DEF C!Chunks, Chunks
<1>1. main_reports \subseteq main_reports'
  <2>1. CASE \E w \in Workers : WorkerStep(w) \/ Receive(w) \/ PeriodElapses(w)
    BY <2>1 DEF WorkerStep, KeepList, TakeEmptyList, SwapLists, Receive,
       PeriodElapses, counts
  <2>2. CASE MergerStep
    BY <2>2 DEF MergerStep, GetFullList, SkipContainer, EndScan, Wake,
       FindReport, MissReport, MergeData, ClearReport, BeginReturn, RunCommand,
       EndCommands, EndReturn, counts
  <2>3. CASE ConsoleStep \/ (\E t \in ReportTypes : ShowReport(t) \/ NewReport(t))
    BY <2>3 DEF ConsoleStep, ShowReport, NewReport, ReturnReport, TellContainer,
       BeginInsert, EndInsert, counts
  <2>4. CASE UNCHANGED vars
    BY <2>4 DEF vars, counts
  <2> QED BY <2>1, <2>2, <2>3, <2>4 DEF Next, Environment
<1>2. CASE RunCommand
  <2>1. C!RunCommand(merger_i, merging) /\ merger_i \in Workers /\ merging \in Chunks
    BY <1>2 DEF RunCommand, Locals, MergerLocals, TypeOK
  <2>2. reports[merger_i][merging]
          \subseteq C!Execute(reports[merger_i][merging], Head(cmd_map[merger_i][merging]))
    <3>1. /\ cmd_map[merger_i][merging] \in Seq(C!Commands)
          /\ cmd_map[merger_i][merging] # <<>>
          /\ Orderly(reports[merger_i][merging], cmd_map[merger_i][merging],
                     Commanded[merger_i])
      BY <1>0, <2>1 DEF C!RunCommand, TypeOK, C!TypeOK, Registry
    <3> QED BY <3>1, OrderlyTail
  <2>3. ASSUME NEW w \in Workers, NEW l \in Chunks
        PROVE  reports[w][l] \subseteq reports'[w][l]
    <3>1. CASE w = merger_i /\ l = merging
      BY <1>0, <2>1, <2>2, <3>1 DEF C!RunCommand, TypeOK, C!TypeOK
    <3>2. CASE ~(w = merger_i /\ l = merging)
      BY <1>0, <2>1, <3>2 DEF C!RunCommand, TypeOK, C!TypeOK
    <3> QED BY <3>1, <3>2
  <2> QED BY <1>1, <2>3
<1>3. CASE TellContainer
  BY <1>1, <1>3 DEF TellContainer, C!add_report, C!Enqueue
<1>4. CASE ~RunCommand /\ ~TellContainer
  BY <1>1, <1>4, NamesFrame
<1> QED BY <1>2, <1>3, <1>4

(* All that Once says of a report and a request, but for their names.       *)
Alike(t, r) ==
  /\ total'[t][r] = total[t][r]
  /\ \A w \in Workers, l \in Chunks :
       /\ Owed(w, l, t, r)' <=> Owed(w, l, t, r)
       /\ counted'[w][l][t][r] \in {0, counted[w][l][t][r]}

LEMMA OnceAlike ==
  ASSUME TypeOK, Locals, Registry, [Next]_vars,
         NEW t \in ReportTypes, NEW r \in Requests, Once(t, r), Alike(t, r),
         received \subseteq received'
  PROVE  Once(t, r)'
<1>1. /\ main_reports \subseteq main_reports'
      /\ \A w \in Workers, l \in Chunks : reports[w][l] \subseteq reports'[w][l]
  BY NamesStay
<1>2. OnlyOneOwes(t, r)'
  BY DEF Once, OnlyOneOwes, Alike
<1>3. ASSUME total'[t][r] = 1
      PROVE  /\ r \in received'
             /\ t \in main_reports'
             /\ \A w \in Workers, l \in Chunks : ~Owed(w, l, t, r)'
  BY <1>1, <1>3 DEF Once, Alike
<1>4. ASSUME NEW w \in Workers, NEW l \in Chunks
      PROVE  /\ counted'[w][l][t][r] \in {0, 1}
             /\ counted'[w][l][t][r] = 1 => r \in received' /\ t \in reports'[w][l]
  BY <1>1 DEF Once, Alike
<1>5. total'[t][r] \in {0, 1}
  BY DEF Once, Alike
<1> QED BY <1>2, <1>3, <1>4, <1>5 DEF Once

(* The two steps that do change a count, for one report and one request.    *)
Counting(t, r) ==
  /\ total[t][r] = 0 /\ total'[t][r] = 0
  /\ \A w \in Workers, l \in Chunks : ~Owed(w, l, t, r)
  /\ Once(t, r)'

Merging(t, r) ==
  /\ total[t][r] = 0 /\ total'[t][r] = 1
  /\ \E w \in Workers, l \in Chunks : Owed(w, l, t, r)
  /\ Once(t, r)'

LEMMA AddedFrame ==
  ASSUME UNCHANGED merger, NEW w, NEW l, NEW t, NEW r
  PROVE  Added(w, l, t, r)' <=> Added(w, l, t, r)
BY DEF merger, Added

LEMMA ReceiveCounts ==
  ASSUME TypeOK, Locals, Counts, NEW w \in Workers, Receive(w),
         NEW t \in ReportTypes, NEW r \in Requests
  PROVE  Alike(t, r) \/ Counting(t, r)
<1>1. PICK datagram \in SUBSET (Requests \ received) :
        /\ received' = received \union datagram
        /\ counted' = IF held[w] = NoList THEN counted
                      ELSE [counted EXCEPT ![w][held[w]] = CountIn(w, datagram)]
  BY DEF Receive
<1>2. /\ held[w] \in Chunks /\ held[w] # NoList
      /\ total' = total /\ reports' = reports /\ main_reports' = main_reports
      /\ UNCHANGED merger
  BY DEF Receive, container, Locals, WorkerLocals, TypeOK
<1>3. \A v \in Workers, l \in Chunks : Added(v, l, t, r)' <=> Added(v, l, t, r)
  BY <1>2, AddedFrame
<1>4. CountIn(w, datagram)[t][r] =
        counted[w][held[w]][t][r]
          + (IF t \in reports[w][held[w]] /\ r \in datagram THEN 1 ELSE 0)
  BY DEF CountIn
<1>5. ASSUME NEW v \in Workers, NEW l \in Chunks
      PROVE  /\ counted[v][l][t][r] \in Nat
             /\ counted'[v][l][t][r] =
                  IF v = w /\ l = held[w] THEN CountIn(w, datagram)[t][r]
                                          ELSE counted[v][l][t][r]
  BY <1>1, <1>2 DEF TypeOK
<1>6. Once(t, r)
  BY DEF Counts
<1>7. CASE r \notin datagram
  <2>1. \A v \in Workers, l \in Chunks : counted'[v][l][t][r] = counted[v][l][t][r]
    BY <1>2, <1>4, <1>5, <1>7
  <2> QED BY <1>2, <1>3, <2>1 DEF Alike, Owed
<1>8. CASE r \in datagram
  <2>1. r \notin received /\ r \in received'
    BY <1>1, <1>8
  <2>2. \A v \in Workers, l \in Chunks : counted[v][l][t][r] = 0
    BY <1>6, <2>1 DEF Once
  <2>3. total[t][r] = 0 /\ total'[t][r] = 0
    BY <1>2, <1>6, <2>1 DEF Once
  <2>4. ASSUME NEW v \in Workers, NEW l \in Chunks
        PROVE  /\ counted'[v][l][t][r] \in {0, 1}
               /\ counted'[v][l][t][r] = 1 => /\ v = w /\ l = held[w]
                                              /\ t \in reports'[v][l]
    BY <1>2, <1>4, <1>5, <2>2
  <2>5. \A v \in Workers, l \in Chunks :
          Owed(v, l, t, r)' => v = w /\ l = held[w]
    BY <2>4 DEF Owed
  <2>6. OnlyOneOwes(t, r)'
    BY <1>2, <2>5 DEF OnlyOneOwes
  <2>7. Once(t, r)'
    BY <2>1, <2>3, <2>4, <2>6 DEF Once
  <2>8. \A v \in Workers, l \in Chunks : ~Owed(v, l, t, r)
    BY <2>2 DEF Owed
  <2> QED BY <2>3, <2>7, <2>8 DEF Counting
<1> QED BY <1>7, <1>8

LEMMA MergeCounts ==
  ASSUME TypeOK, Locals, Counts, NEW i \in todo_idx, MergeData(i),
         NEW t \in ReportTypes, NEW r \in Requests
  PROVE  Alike(t, r) \/ Merging(t, r)
<1>1. /\ merger_i \in Workers /\ merging \in Chunks /\ cur \in ReportTypes
      /\ merger_pc = "data" /\ cur \in main_reports
      /\ todo_idx' = todo_idx \ {i}
      /\ UNCHANGED <<merger_pc, merger_i, merging, cur, counted, received>>
      /\ main_reports' = main_reports /\ reports' = reports
  BY DEF MergeData, Locals, MergerLocals, TypeOK, Counts, container
<1>2. total'[t][r] = IF t = cur /\ Index[r] = i
                     THEN total[t][r] + counted[merger_i][merging][t][r]
                     ELSE total[t][r]
  <2>1. total[t][r] \in Nat
    BY DEF TypeOK
  <2> QED BY <1>1, <2>1 DEF MergeData, TypeOK
<1>3. ASSUME NEW v \in Workers, NEW l \in Chunks,
             ~(v = merger_i /\ l = merging /\ t = cur /\ Index[r] = i)
      PROVE  Owed(v, l, t, r)' <=> Owed(v, l, t, r)
  BY <1>1, <1>3 DEF Owed, Added
<1>4. Once(t, r)
  BY DEF Counts
<1>5. CASE ~(t = cur /\ Index[r] = i)
  BY <1>1, <1>2, <1>3, <1>5 DEF Alike
<1>6. CASE t = cur /\ Index[r] = i /\ counted[merger_i][merging][t][r] = 0
  <2>1. ~Owed(merger_i, merging, t, r) /\ ~Owed(merger_i, merging, t, r)'
    BY <1>1, <1>6 DEF Owed
  <2>2. ASSUME NEW v \in Workers, NEW l \in Chunks
        PROVE  Owed(v, l, t, r)' <=> Owed(v, l, t, r)
    <3>1. CASE v = merger_i /\ l = merging
      <4>1. Owed(v, l, t, r)' = Owed(merger_i, merging, t, r)'
        BY <1>1, <3>1 DEF Owed, Added
      <4> QED BY <2>1, <3>1, <4>1
    <3>2. CASE ~(v = merger_i /\ l = merging)
      BY <1>3, <3>2
    <3> QED BY <3>1, <3>2
  <2>3. total[t][r] \in Nat
    BY DEF TypeOK
  <2> QED BY <1>1, <1>2, <1>6, <2>2, <2>3 DEF Alike
<1>7. CASE t = cur /\ Index[r] = i /\ counted[merger_i][merging][t][r] = 1
  <2>1. Owed(merger_i, merging, t, r) /\ ~Owed(merger_i, merging, t, r)'
    BY <1>1, <1>7 DEF Owed, Added
  <2>2. total[t][r] = 0 /\ total'[t][r] = 1
    BY <1>1, <1>2, <1>4, <1>7, <2>1 DEF Once
  <2>3. \A v \in Workers, l \in Chunks : ~Owed(v, l, t, r)'
    BY <1>1, <1>3, <1>4, <2>1 DEF Once, OnlyOneOwes
  <2>4. Once(t, r)'
    BY <1>1, <1>4, <1>7, <2>2, <2>3 DEF Once, OnlyOneOwes
  <2> QED BY <1>1, <2>1, <2>2, <2>4 DEF Merging
<1>8. counted[merger_i][merging][t][r] \in {0, 1}
  BY <1>1, <1>4 DEF Once
<1> QED BY <1>5, <1>6, <1>7, <1>8

(* Any other step leaves what is counted, and what is owed, alone.          *)
LEMMA OthersCount ==
  ASSUME TypeOK, Locals, Registry, Counts, [Next]_vars,
         ~(\E w \in Workers : Receive(w)), ~(\E i \in todo_idx : MergeData(i))
  PROVE  /\ received' = received
         /\ \A t \in ReportTypes, r \in Requests : Alike(t, r)
<1>1. ASSUME NEW t \in ReportTypes, NEW r \in Requests,
             NEW w \in Workers, NEW l \in Chunks
      PROVE  /\ counted[w][l][t][r] \in Nat
             /\ counted[w][l][t][r] > 0 => t \in reports[w][l]
             /\ total[t][r] \in {0, 1}
             /\ total[t][r] # 0 => t \in main_reports
  BY DEF TypeOK, Counts, Once
<1>2. ASSUME UNCHANGED merger, UNCHANGED <<counted, total>>
      PROVE  \A t \in ReportTypes, r \in Requests : Alike(t, r)
  BY <1>2, AddedFrame DEF Alike, Owed
<1>3. ASSUME UNCHANGED <<counted, total>>,
             \A w \in Workers, l \in Chunks, t \in ReportTypes, r \in Requests :
               ~Added(w, l, t, r) /\ ~Added(w, l, t, r)'
      PROVE  \A t \in ReportTypes, r \in Requests : Alike(t, r)
  BY <1>3 DEF Alike, Owed
<1>4. CASE \E w \in Workers : WorkerStep(w) \/ PeriodElapses(w)
  BY <1>2, <1>4 DEF WorkerStep, KeepList, TakeEmptyList, SwapLists, PeriodElapses,
     counts
<1>5. CASE \/ GetFullList \/ SkipContainer \/ EndScan \/ Wake
           \/ \E t \in todo : FindReport(t) \/ MissReport(t)
           \/ BeginReturn \/ EndCommands \/ EndReturn
  <2>1. /\ UNCHANGED <<counted, total>> /\ received' = received
        /\ merger_pc # "data"
        /\ merger_pc' = "data" => todo_idx' = Indexes
    BY <1>5 DEF GetFullList, SkipContainer, EndScan, Wake, FindReport, MissReport,
       BeginReturn, EndCommands, EndReturn, counts
  <2>2. \A r \in Requests : Index[r] \in Indexes
    BY IndexAssumption
  <2>3. ASSUME NEW w \in Workers, NEW l \in Chunks, NEW t \in ReportTypes,
               NEW r \in Requests
        PROVE  ~Added(w, l, t, r) /\ ~Added(w, l, t, r)'
    BY <2>1, <2>2 DEF Added
  <2> QED BY <1>3, <2>1, <2>3
<1>6. CASE ClearReport
  <2>1. /\ merger_i \in Workers /\ merging \in Chunks /\ cur \in ReportTypes
        /\ merger_pc = "data" /\ merger_pc' = "merge" /\ todo_idx = {}
        /\ total' = total /\ received' = received
    BY <1>6 DEF ClearReport, Locals, MergerLocals, TypeOK
  <2>2. ASSUME NEW t \in ReportTypes, NEW r \in Requests PROVE Alike(t, r)
    <3>1. ASSUME NEW w \in Workers, NEW l \in Chunks
          PROVE  /\ counted'[w][l][t][r] =
                      IF w = merger_i /\ l = merging /\ t = cur
                      THEN 0 ELSE counted[w][l][t][r]
                 /\ Added(w, l, t, r) <=> w = merger_i /\ l = merging /\ t = cur
                 /\ ~Added(w, l, t, r)'
      <4>1. counted'[w][l][t][r] = IF w = merger_i /\ l = merging /\ t = cur
                                   THEN 0 ELSE counted[w][l][t][r]
        BY <1>6, <2>1 DEF ClearReport, TypeOK, Zero
      <4> QED BY <2>1, <4>1 DEF Added
    <3>2. ASSUME NEW w \in Workers, NEW l \in Chunks
          PROVE  /\ Owed(w, l, t, r)' <=> Owed(w, l, t, r)
                 /\ counted'[w][l][t][r] \in {0, counted[w][l][t][r]}
      BY <3>1 DEF Owed
    <3> QED BY <2>1, <3>2 DEF Alike
  <2> QED BY <2>1, <2>2
<1>7. CASE RunCommand
  <2>1. /\ merger_i \in Workers /\ merging \in Chunks
        /\ UNCHANGED merger /\ total' = total /\ received' = received
        /\ counted' = [counted EXCEPT ![merger_i][merging] =
             [t \in ReportTypes |->
                IF t \in reports[merger_i][merging] THEN @[t] ELSE Zero]]
    BY <1>7 DEF RunCommand, Locals, MergerLocals, TypeOK
  <2>2. ASSUME NEW t \in ReportTypes, NEW r \in Requests,
               NEW w \in Workers, NEW l \in Chunks
        PROVE  counted'[w][l][t][r] = counted[w][l][t][r]
    <3>1. CASE w = merger_i /\ l = merging
      <4>1. counted'[w][l][t] = IF t \in reports[w][l] THEN counted[w][l][t] ELSE Zero
        BY <2>1, <3>1 DEF TypeOK
      <4>2. t \notin reports[w][l] => counted[w][l][t][r] = 0
        BY <1>1
      <4> QED BY <4>1, <4>2 DEF Zero
    <3>2. CASE ~(w = merger_i /\ l = merging)
      BY <2>1, <3>2 DEF TypeOK
    <3> QED BY <3>1, <3>2
  <2>3. ASSUME NEW t \in ReportTypes, NEW r \in Requests PROVE Alike(t, r)
    BY <2>1, <2>2, AddedFrame DEF Alike, Owed
  <2> QED BY <2>1, <2>3
<1>8. CASE ReturnReport \/ TellContainer \/ BeginInsert
           \/ (\E t \in ReportTypes : ShowReport(t) \/ NewReport(t))
  BY <1>2, <1>8 DEF ReturnReport, TellContainer, BeginInsert, ShowReport, NewReport,
     counts
<1>9. CASE EndInsert
  <2>1. /\ UNCHANGED merger /\ counted' = counted /\ received' = received
        /\ name \in ReportTypes /\ name \notin main_reports
        /\ total' = [total EXCEPT ![name] = Zero]
    BY <1>9 DEF EndInsert, Locals, ConsoleLocals, Registry
  <2>2. ASSUME NEW t \in ReportTypes, NEW r \in Requests
        PROVE  total'[t][r] = total[t][r]
    <3>1. total[name][r] = 0
      BY <2>1 DEF Counts, Once
    <3> QED BY <2>1, <3>1 DEF TypeOK, Zero
  <2> QED BY <2>1, <2>2, AddedFrame DEF Alike, Owed
<1>10. CASE UNCHANGED vars
  BY <1>2, <1>10 DEF vars, counts
<1> QED BY <1>4, <1>5, <1>6, <1>7, <1>8, <1>9, <1>10
        DEF Next, MergerStep, ConsoleStep, Environment

LEMMA CountsStep ==
  TypeOK /\ Locals /\ Registry /\ Counts /\ [Next]_vars => Counts'
<1> SUFFICES ASSUME TypeOK, Locals, Registry, Counts, [Next]_vars
             PROVE  Counts'
  OBVIOUS
<1>1. merger_pc' = "data" => cur' \in main_reports'
  <2>1. main_reports \subseteq main_reports'
    BY NamesStay
  <2>2. CASE MergerStep
    BY <2>1, <2>2 DEF MergerStep, GetFullList, SkipContainer, EndScan, Wake,
       FindReport, MissReport, MergeData, ClearReport, BeginReturn, RunCommand,
       EndCommands, EndReturn, merger, Counts
  <2>3. CASE ~MergerStep
    <3>1. UNCHANGED merger
      BY <2>3 DEF Next, WorkerStep, ConsoleStep, Environment, KeepList,
         TakeEmptyList, SwapLists, Receive, PeriodElapses, ShowReport, NewReport,
         ReturnReport, TellContainer, BeginInsert, EndInsert, vars
    <3> QED BY <2>1, <3>1 DEF merger, Counts
  <2> QED BY <2>2, <2>3
<1>2. ASSUME NEW t \in ReportTypes, NEW r \in Requests PROVE Once(t, r)'
  <2>1. Once(t, r)
    BY DEF Counts
  <2>2. CASE \E w \in Workers : Receive(w)
    <3>1. received \subseteq received'
      BY <2>2 DEF Receive
    <3> QED BY <2>1, <2>2, <3>1, ReceiveCounts, OnceAlike DEF Counting
  <2>3. CASE \E i \in todo_idx : MergeData(i)
    <3>1. received \subseteq received'
      BY <2>3 DEF MergeData
    <3> QED BY <2>1, <2>3, <3>1, MergeCounts, OnceAlike DEF Merging
  <2>4. CASE /\ ~(\E w \in Workers : Receive(w))
             /\ ~(\E i \in todo_idx : MergeData(i))
    BY <2>1, <2>4, OthersCount, OnceAlike
  <2> QED BY <2>2, <2>3, <2>4
<1> QED BY <1>1, <1>2 DEF Counts

(* What Once says, in the terms of CountedOnce and of StatusOf.             *)
LEMMA OwedIsOwes ==
  ASSUME NEW t, NEW r
  PROVE  Owes(t, r) = {wl \in Workers \X Chunks : Owed(wl[1], wl[2], t, r)}
BY DEF Owes, Owed

LEMMA CountsMeans == Counts => CountedOnce
<1> SUFFICES ASSUME Counts, NEW t \in ReportTypes, NEW r \in Requests
             PROVE  /\ total[t][r] \in {0, 1}
                    /\ \A w \in Workers, l \in Chunks : counted[w][l][t][r] \in {0, 1}
                    /\ total[t][r] = 1 => Owes(t, r) = {}
                    /\ \A x, y \in Owes(t, r) : x = y
  BY DEF CountedOnce
<1>1. Once(t, r)
  BY DEF Counts
<1>2. total[t][r] = 1 => Owes(t, r) = {}
  BY <1>1, OwedIsOwes DEF Once
<1>3. ASSUME NEW x \in Owes(t, r), NEW y \in Owes(t, r) PROVE x = y
  <2>1. /\ x \in Workers \X Chunks /\ Owed(x[1], x[2], t, r)
        /\ y \in Workers \X Chunks /\ Owed(y[1], y[2], t, r)
    BY OwedIsOwes
  <2>2. x[1] = y[1] /\ x[2] = y[2]
    BY <1>1, <2>1 DEF Once, OnlyOneOwes
  <2> QED BY <2>1, <2>2
<1> QED BY <1>1, <1>2, <1>3 DEF Once

LEMMA StatusIs ==
  ASSUME NEW t, NEW r
  PROVE  StatusOf(t, r) \in A!Statuses
BY DEF StatusOf, A!Statuses

LEMMA StatusAlike ==
  ASSUME NEW t \in ReportTypes, NEW r \in Requests, Alike(t, r)
  PROVE  StatusOf(t, r)' = StatusOf(t, r)
<1>1. Owes(t, r)' = Owes(t, r)
  <2>1. Owes(t, r) = {wl \in Workers \X Chunks : Owed(wl[1], wl[2], t, r)}
    BY OwedIsOwes
  <2>2. Owes(t, r)' = {wl \in Workers \X Chunks : Owed(wl[1], wl[2], t, r)'}
    BY DEF Owes, Owed
  <2>3. \A wl \in Workers \X Chunks :
          Owed(wl[1], wl[2], t, r)' <=> Owed(wl[1], wl[2], t, r)
    BY DEF Alike
  <2> QED BY <2>1, <2>2, <2>3
<1>2. total'[t][r] = total[t][r]
  BY DEF Alike
<1> QED BY <1>1, <1>2 DEF StatusOf

LEMMA StatusCounting ==
  ASSUME NEW t \in ReportTypes, NEW r \in Requests, Counting(t, r)
  PROVE  /\ StatusOf(t, r) = "uncounted"
         /\ StatusOf(t, r)' \in {"uncounted", "pending"}
<1>1. Owes(t, r) = {}
  BY OwedIsOwes DEF Counting
<1>2. ~(total[t][r] > 0) /\ ~(total'[t][r] > 0)
  BY DEF Counting
<1> QED BY <1>1, <1>2 DEF StatusOf

LEMMA StatusMerging ==
  ASSUME NEW t \in ReportTypes, NEW r \in Requests, Merging(t, r)
  PROVE  StatusOf(t, r) = "pending" /\ StatusOf(t, r)' = "total"
<1>1. Owes(t, r) # {}
  <2>1. PICK w \in Workers, l \in Chunks : Owed(w, l, t, r)
    BY DEF Merging
  <2>2. <<w, l>> \in Owes(t, r)
    BY <2>1, OwedIsOwes
  <2> QED BY <2>2
<1>2. ~(total[t][r] > 0) /\ total'[t][r] > 0
  BY DEF Merging
<1>3. Owes(t, r)' = {}
  <2>1. \A w \in Workers, l \in Chunks : ~Owed(w, l, t, r)'
    BY DEF Merging, Once
  <2>2. Owes(t, r)' = {wl \in Workers \X Chunks : Owed(wl[1], wl[2], t, r)'}
    BY DEF Owes, Owed
  <2> QED BY <2>1, <2>2
<1> QED BY <1>1, <1>2, <1>3 DEF StatusOf

LEMMA AccountingInit == Init => A!Init
<1> SUFFICES ASSUME Init PROVE A!Init
  OBVIOUS
<1>1. ASSUME NEW t \in ReportTypes, NEW r \in Requests
      PROVE  StatusOf(t, r) = "uncounted"
  <2>1. /\ total[t][r] = 0
        /\ \A w \in Workers, l \in Chunks : counted[w][l][t][r] = 0
    BY <1>1 DEF Init, Zero
  <2>2. Owes(t, r) = {}
    BY <2>1 DEF Owes
  <2> QED BY <2>1, <2>2 DEF StatusOf
<1> QED BY <1>1 DEF A!Init

LEMMA AccountingStep ==
  ASSUME TypeOK, Locals, Registry, Counts, [Next]_vars
  PROVE  [A!Next]_([t \in ReportTypes |-> [r \in Requests |-> StatusOf(t, r)]])
<1> DEFINE status == [t \in ReportTypes |-> [r \in Requests |-> StatusOf(t, r)]]
<1>1. \A t \in ReportTypes, r \in Requests : StatusOf(t, r)' \in A!Statuses
  BY DEF StatusOf, A!Statuses
<1>2. status' \in [ReportTypes -> [Requests -> A!Statuses]]
  BY <1>1
<1>3. CASE \E w \in Workers : Receive(w)
  <2>1. ASSUME NEW t \in ReportTypes, NEW r \in Requests
        PROVE  \/ StatusOf(t, r)' = StatusOf(t, r)
               \/ StatusOf(t, r) = "uncounted" /\ StatusOf(t, r)' = "pending"
    <3>1. Alike(t, r) \/ Counting(t, r)
      BY <1>3, ReceiveCounts
    <3> QED BY <3>1, StatusAlike, StatusCounting
  <2>2. A!Count
    BY <1>2, <2>1 DEF A!Count, A!Move, A!Statuses
  <2> QED BY <2>2 DEF A!Next
<1>4. CASE \E i \in todo_idx : MergeData(i)
  <2>1. ASSUME NEW t \in ReportTypes, NEW r \in Requests
        PROVE  \/ StatusOf(t, r)' = StatusOf(t, r)
               \/ StatusOf(t, r) = "pending" /\ StatusOf(t, r)' = "total"
    <3>1. Alike(t, r) \/ Merging(t, r)
      BY <1>4, MergeCounts
    <3> QED BY <3>1, StatusAlike, StatusMerging
  <2>2. A!Merge
    BY <1>2, <2>1 DEF A!Merge, A!Move, A!Statuses
  <2> QED BY <2>2 DEF A!Next
<1>5. CASE /\ ~(\E w \in Workers : Receive(w))
           /\ ~(\E i \in todo_idx : MergeData(i))
  <2>1. \A t \in ReportTypes, r \in Requests : StatusOf(t, r)' = StatusOf(t, r)
    BY <1>5, OthersCount, StatusAlike
  <2>2. status' = status
    BY <2>1
  <2> QED BY <2>2
<1> QED BY <1>3, <1>4, <1>5

(* The whole invariant: the threads' locals and containers, the names, and *)
(* on top of these the counts.                                             *)
FullInv == Inv /\ Registry /\ Counts

LEMMA FullInvInit == Init => FullInv
BY InvInit, RegistryInit, CountsInit DEF FullInv

LEMMA FullInvStep == FullInv /\ [Next]_vars => FullInv'
BY InvStep, RegistryStep, CountsStep DEF FullInv, Inv
-----------------------------------------------------------------------------

(* Every variable keeps its type. *)
THEOREM TypeCorrect == Spec => []TypeOK
<1>1. Inv => TypeOK
  BY DEF Inv
<1> QED BY <1>1, InvInit, InvStep, PTL DEF Spec

(* The threads use the containers as ReportContainer says they may. *)
THEOREM UsesContainers == Spec => ContainerSpec
<1>1. Inv /\ [Next]_vars => [C!Next]_(C!vars)
  BY ContainerStep DEF Inv
<1> QED BY <1>1, ContainerInit, InvInit, InvStep, PTL DEF Spec, ContainerSpec, C!Spec

(* A worker that receives has a list to count in. *)
THEOREM NothingDropped == Spec => []NoRequestDropped
<1>1. Inv => NoRequestDropped
  BY DEF Inv, Locals, WorkerLocals, NoRequestDropped
<1> QED BY <1>1, InvInit, InvStep, PTL DEF Spec

(* A list has a report the main list lacks only while the console is still *)
(* creating that report: it was asked for, and the main list has all that  *)
(* was asked for but the name being created.                               *)
THEOREM MissingNames == Spec => []MissingOnlyWhileCreated
<1>1. FullInv => MissingOnlyWhileCreated
  BY DEF FullInv, Registry, Orderly, Commanded, MissingOnlyWhileCreated
<1> QED BY <1>1, FullInvInit, FullInvStep, PTL DEF Spec

(* The console never has a list create a report twice, although it checks  *)
(* the name under a lock that it has given back when it creates it.        *)
THEOREM NamesOnce == Spec => []NoReportTwice
<1>1. FullInv => NoReportTwice
  BY DEF FullInv, Registry, Orderly, NoReportTwice
<1> QED BY <1>1, FullInvInit, FullInvStep, PTL DEF Spec

(* No request is counted twice in a report, by whatever threads and lists. *)
THEOREM NeverTwice == Spec => []CountedOnce
<1>1. FullInv => CountedOnce
  BY CountsMeans DEF FullInv
<1> QED BY <1>1, FullInvInit, FullInvStep, PTL DEF Spec

(* What is counted stays counted: it is on its way to the main list until  *)
(* it gets there, and then stays there.                                    *)
THEOREM StaysCounted == Spec => AccountingSpec
<1>1. FullInv /\ [Next]_vars
        => [A!Next]_([t \in ReportTypes |-> [r \in Requests |-> StatusOf(t, r)]])
  BY AccountingStep DEF FullInv, Inv
<1> QED BY <1>1, AccountingInit, FullInvInit, FullInvStep, PTL
       DEF Spec, AccountingSpec, A!Spec
=============================================================================
