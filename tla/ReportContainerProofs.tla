------------------------ MODULE ReportContainerProofs ------------------------
(***************************************************************************)
(* Proofs about ReportContainer, for any workers, any number of lists and  *)
(* any report names.                                                       *)
(*                                                                         *)
(* The inductive invariant is TypeOK, OneOwner and the relation between    *)
(* the list whose commands are being executed and the merger's lists.      *)
(***************************************************************************)
EXTENDS ReportContainer, TLAPS
-----------------------------------------------------------------------------
(* Facts about the deques: what push_back and erase(begin) do to the set   *)
(* of the lists in a deque and to their being distinct.                    *)

(* push_back adds one element, and keeps the elements distinct if it is new. *)
LEMMA AppendFacts ==
  ASSUME NEW S, NEW s \in Seq(S), NEW x \in S
  PROVE  /\ Append(s, x) \in Seq(S)
         /\ Range(Append(s, x)) = Range(s) \union {x}
         /\ IsInjective(s) /\ x \notin Range(s) => IsInjective(Append(s, x))
<1> DEFINE a == Append(s, x)
<1>1. /\ a \in Seq(S)
      /\ DOMAIN a = 1 .. Len(s) + 1
      /\ DOMAIN s = 1 .. Len(s)
      /\ Len(s) \in Nat
      /\ \A i \in 1 .. Len(s) : a[i] = s[i]
      /\ a[Len(s) + 1] = x
  OBVIOUS
<1> HIDE DEF a
<1>2. \A i \in DOMAIN a : i \in DOMAIN s \/ i = Len(s) + 1
  BY <1>1
<1>3. DOMAIN s \subseteq DOMAIN a /\ Len(s) + 1 \in DOMAIN a
  BY <1>1
<1>4. Range(a) = Range(s) \union {x}
  BY <1>1, <1>2, <1>3 DEF Range
<1>5. IsInjective(s) /\ x \notin Range(s) => IsInjective(a)
  BY <1>1, <1>2, <1>3 DEF Range, IsInjective
<1> QED BY <1>1, <1>4, <1>5 DEF a

(* erase(begin) takes the first element away, and no other if all differ. *)
LEMMA TailFacts ==
  ASSUME NEW S, NEW s \in Seq(S), s # <<>>
  PROVE  /\ Tail(s) \in Seq(S)
         /\ Head(s) \in S
         /\ Head(s) \in Range(s)
         /\ IsInjective(s) => /\ IsInjective(Tail(s))
                              /\ Range(Tail(s)) = Range(s) \ {Head(s)}
<1> DEFINE t == Tail(s)
           h == Head(s)
<1>1. /\ t \in Seq(S)
      /\ h \in S
      /\ Len(s) \in Nat
      /\ Len(s) >= 1
      /\ DOMAIN t = 1 .. Len(s) - 1
      /\ DOMAIN s = 1 .. Len(s)
      /\ \A i \in 1 .. Len(s) - 1 : t[i] = s[i + 1]
      /\ h = s[1]
  OBVIOUS
<1> HIDE DEF t, h
<1>2. 1 \in DOMAIN s /\ \A i \in DOMAIN t : i + 1 \in DOMAIN s /\ t[i] = s[i + 1]
  BY <1>1
<1>3. \A i \in DOMAIN s : i = 1 \/ (i - 1 \in DOMAIN t /\ t[i - 1] = s[i])
  BY <1>1
<1>4. h \in Range(s)
  BY <1>1, <1>2 DEF Range
<1>5. ASSUME IsInjective(s) PROVE IsInjective(t)
  <2>1. SUFFICES ASSUME NEW i \in DOMAIN t, NEW j \in DOMAIN t, t[i] = t[j]
                 PROVE  i = j
    BY DEF IsInjective
  <2>2. i + 1 = j + 1
    BY <1>2, <1>5, <2>1 DEF IsInjective
  <2> QED BY <1>1, <2>2
<1>6. ASSUME IsInjective(s) PROVE Range(t) = Range(s) \ {h}
  <2>1. ASSUME NEW i \in DOMAIN t PROVE t[i] \in Range(s) /\ t[i] # h
    <3>1. i + 1 \in DOMAIN s /\ i + 1 # 1 /\ t[i] = s[i + 1]
      BY <1>1, <1>2
    <3> QED BY <1>1, <1>2, <1>6, <3>1 DEF Range, IsInjective
  <2>2. ASSUME NEW i \in DOMAIN s, s[i] # h PROVE s[i] \in Range(t)
    BY <1>1, <1>3, <2>2 DEF Range
  <2> QED BY <2>1, <2>2 DEF Range
<1> QED BY <1>1, <1>4, <1>5, <1>6 DEF t, h
-----------------------------------------------------------------------------
(* The commands that are left to execute for a list say the same of the    *)
(* reports it will have after one more was queued behind them ...          *)
LEMMA OutcomeAppend ==
  ASSUME NEW names \in SUBSET ReportTypes,
         NEW cmds \in Seq(Commands), NEW cmd \in Commands
  PROVE  Outcome(names, Append(cmds, cmd)) = Execute(Outcome(names, cmds), cmd)
<1> DEFINE a == Append(cmds, cmd)
           n == Len(cmds) + 1
<1>1. /\ DOMAIN cmds = 1 .. n - 1
      /\ DOMAIN a = 1 .. n
      /\ n \in Nat \ {0}
      /\ \A i \in 1 .. n - 1 : a[i] = cmds[i]
      /\ a[n] = cmd
  OBVIOUS
<1>2. cmd.type \in ReportTypes /\ cmd.producer \in BOOLEAN
  BY DEF Commands
<1> HIDE DEF a, n
<1>3. ASSUME NEW t \in ReportTypes, t = cmd.type
      PROVE  t \in Outcome(names, a) <=> cmd.producer
  <2>1. n \in DOMAIN a /\ a[n].type = t /\ \A j \in DOMAIN a : j <= n
    BY <1>1, <1>3
  <2>2. \A i \in DOMAIN a :
          (\A j \in DOMAIN a : a[j].type = t => j <= i) => i = n
    BY <1>1, <2>1
  <2> QED BY <1>1, <2>1, <2>2 DEF Outcome
<1>4. ASSUME NEW t \in ReportTypes, t # cmd.type
      PROVE  t \in Outcome(names, a) <=> t \in Outcome(names, cmds)
  <2>1. \A i \in DOMAIN a : a[i].type = t => i \in DOMAIN cmds
    BY <1>1, <1>4
  <2>2. \A i \in DOMAIN cmds : i \in DOMAIN a /\ a[i] = cmds[i]
    BY <1>1
  <2> QED BY <2>1, <2>2 DEF Outcome
<1>5. Outcome(names, a) \subseteq ReportTypes
      /\ Outcome(names, cmds) \subseteq ReportTypes
  BY DEF Outcome
<1> QED BY <1>2, <1>3, <1>4, <1>5 DEF Execute, a

(* ... and after the first of them was executed. *)
LEMMA OutcomeTail ==
  ASSUME NEW names \in SUBSET ReportTypes,
         NEW cmds \in Seq(Commands), cmds # <<>>
  PROVE  Outcome(Execute(names, Head(cmds)), Tail(cmds)) = Outcome(names, cmds)
<1> DEFINE tl == Tail(cmds)
           hd == Head(cmds)
           n  == Len(cmds)
<1>1. /\ DOMAIN cmds = 1 .. n
      /\ DOMAIN tl = 1 .. n - 1
      /\ n \in Nat \ {0}
      /\ \A i \in 1 .. n - 1 : tl[i] = cmds[i + 1]
      /\ cmds[1] = hd
      /\ hd \in Commands
  OBVIOUS
<1>2. hd.type \in ReportTypes /\ hd.producer \in BOOLEAN
  BY <1>1 DEF Commands
<1> HIDE DEF tl, hd, n
<1>3. \A i \in DOMAIN tl : i \in Nat /\ i + 1 \in DOMAIN cmds /\ tl[i] = cmds[i + 1]
  BY <1>1
<1>4. \A i \in DOMAIN cmds : /\ i \in Nat
                             /\ i = 1 \/ (i - 1 \in DOMAIN tl /\ tl[i - 1] = cmds[i])
  BY <1>1
<1>5. 1 \in DOMAIN cmds
  BY <1>1
<1> DEFINE Last(c, i, t) == c[i].type = t /\ \A j \in DOMAIN c : c[j].type = t => j <= i
<1>6. ASSUME NEW t \in ReportTypes,
             NEW k \in DOMAIN tl, tl[k].type = t
      PROVE  t \in Outcome(Execute(names, hd), tl) <=> t \in Outcome(names, cmds)
  <2>1. k + 1 \in DOMAIN cmds /\ cmds[k + 1].type = t /\ k + 1 > 1
    BY <1>1, <1>3, <1>6
  <2>2. ASSUME NEW i \in DOMAIN tl, Last(tl, i, t)
        PROVE  i + 1 \in DOMAIN cmds /\ Last(cmds, i + 1, t)
    <3>1. i + 1 \in DOMAIN cmds /\ cmds[i + 1].type = t
      BY <1>3, <2>2
    <3>2. ASSUME NEW j \in DOMAIN cmds, cmds[j].type = t PROVE j <= i + 1
      <4>1. CASE j = 1 BY <1>1, <4>1
      <4>2. CASE j - 1 \in DOMAIN tl /\ tl[j - 1] = cmds[j]
        <5>1. j - 1 <= i BY <2>2, <3>2, <4>2
        <5> QED BY <1>3, <1>4, <5>1
      <4> QED BY <1>4, <4>1, <4>2
    <3> QED BY <3>1, <3>2
  <2>3. ASSUME NEW i \in DOMAIN cmds, Last(cmds, i, t)
        PROVE  i - 1 \in DOMAIN tl /\ Last(tl, i - 1, t)
    <3>1. i >= k + 1
      BY <2>1, <2>3
    <3>2. i # 1
      BY <1>3, <1>4, <2>1, <3>1
    <3>3. i - 1 \in DOMAIN tl /\ tl[i - 1] = cmds[i]
      BY <1>4, <3>2
    <3>4. ASSUME NEW j \in DOMAIN tl, tl[j].type = t PROVE j <= i - 1
      <4>1. j + 1 <= i BY <1>3, <2>3, <3>4
      <4> QED BY <1>3, <1>4, <4>1
    <3> QED BY <2>3, <3>3, <3>4
  <2>4. (\E i \in DOMAIN tl : Last(tl, i, t) /\ tl[i].producer)
          <=> (\E i \in DOMAIN cmds : Last(cmds, i, t) /\ cmds[i].producer)
    <3>1. ASSUME NEW i \in DOMAIN tl, Last(tl, i, t), tl[i].producer
          PROVE  \E m \in DOMAIN cmds : Last(cmds, m, t) /\ cmds[m].producer
      BY <1>3, <2>2, <3>1
    <3>2. ASSUME NEW i \in DOMAIN cmds, Last(cmds, i, t), cmds[i].producer
          PROVE  \E m \in DOMAIN tl : Last(tl, m, t) /\ tl[m].producer
      <4>1. i - 1 \in DOMAIN tl /\ Last(tl, i - 1, t)
        BY <2>3, <3>2
      <4>2. i # 1
        BY <1>1, <4>1
      <4>3. tl[i - 1] = cmds[i]
        BY <1>4, <4>2
      <4> QED BY <3>2, <4>1, <4>3
    <3> QED BY <3>1, <3>2
  <2> QED BY <1>6, <2>1, <2>4 DEF Outcome
<1>7. ASSUME NEW t \in ReportTypes,
             \A k \in DOMAIN tl : tl[k].type # t
      PROVE  t \in Outcome(Execute(names, hd), tl) <=> t \in Outcome(names, cmds)
  <2>1. \A i \in DOMAIN cmds : cmds[i].type = t => i = 1
    BY <1>4, <1>7
  <2>2. t \in Outcome(Execute(names, hd), tl) <=> t \in Execute(names, hd)
    BY <1>7 DEF Outcome
  <2>3. CASE hd.type = t
    <3>1. t \in Outcome(names, cmds) <=> hd.producer
      BY <1>1, <1>5, <2>1, <2>3 DEF Outcome
    <3> QED BY <1>2, <2>2, <2>3, <3>1 DEF Execute
  <2>4. CASE hd.type # t
    <3>1. \A i \in DOMAIN cmds : cmds[i].type # t
      BY <1>1, <2>1, <2>4
    <3>2. t \in Outcome(names, cmds) <=> t \in names
      BY <3>1 DEF Outcome
    <3> QED BY <2>2, <2>4, <3>2 DEF Execute
  <2> QED BY <2>3, <2>4
<1>8. Outcome(Execute(names, hd), tl) \subseteq ReportTypes
      /\ Outcome(names, cmds) \subseteq ReportTypes
  BY DEF Outcome
<1>9. Outcome(Execute(names, hd), tl) = Outcome(names, cmds)
  BY <1>6, <1>7, <1>8
<1> QED BY <1>9 DEF tl, hd
-----------------------------------------------------------------------------
(* A command is given: what AnyoneCommands does with cmd. *)
Queues(w, cmd) ==
  /\ Enqueue(w, cmd)
  /\ commanded' = [commanded EXCEPT ![w] = Execute(@, cmd)]
  /\ UNCHANGED <<worker_has, merger_has, flushed>>

(* Type correctness. *)
LEMMA TypeInit == Init => TypeOK
<1> SUFFICES ASSUME Init PROVE TypeOK
  OBVIOUS
<1>1. [i \in 1 .. ChunkCount |-> i] \in Seq(Chunks)
  BY ChunkCountAssumption DEF Chunks
<1>2. empty_chunks \in [Workers -> Seq(Chunks)]
  BY <1>1 DEF Init
<1>3. cmd_map \in [Workers -> [Chunks -> Seq(Commands)]]
  BY DEF Init
<1> QED BY <1>2, <1>3 DEF Init, TypeOK

LEMMA TypeStep == TypeOK /\ [Next]_vars => TypeOK'
<1> SUFFICES ASSUME TypeOK, [Next]_vars PROVE TypeOK'
  OBVIOUS
<1>1. ASSUME NEW w \in Workers, NEW l \in Chunks, WorkerGets(w, l)
      PROVE  TypeOK'
  <2>1. empty_chunks[w] \in Seq(Chunks) /\ Tail(empty_chunks[w]) \in Seq(Chunks)
    BY <1>1, TailFacts DEF TypeOK, WorkerGets, get_emty_list
  <2> QED BY <1>1, <2>1 DEF TypeOK, WorkerGets, get_emty_list
<1>2. ASSUME NEW w \in Workers, NEW l \in Chunks, WorkerReturns(w, l)
      PROVE  TypeOK'
  <2>1. Append(full_chunks[w], l) \in Seq(Chunks)
    BY AppendFacts DEF TypeOK
  <2> QED BY <1>2, <2>1 DEF TypeOK, WorkerReturns, return_full_list
<1>3. ASSUME NEW w \in Workers, NEW l \in Chunks, MergerGets(w, l)
      PROVE  TypeOK'
  <2>1. full_chunks[w] \in Seq(Chunks) /\ Tail(full_chunks[w]) \in Seq(Chunks)
    BY <1>3, TailFacts DEF TypeOK, MergerGets, get_full_list
  <2> QED BY <1>3, <2>1 DEF TypeOK, MergerGets, get_full_list
<1>4. ASSUME NEW w \in Workers, NEW l \in Chunks, MergerLocks(w, l)
      PROVE  TypeOK'
  BY <1>4 DEF TypeOK, MergerLocks, LockCommands, users
<1>5. ASSUME NEW w \in Workers, NEW l \in Chunks, MergerRuns(w, l)
      PROVE  TypeOK'
  <2>1. cmd_map[w][l] \in Seq(Commands) /\ cmd_map[w][l] # <<>>
    BY <1>5 DEF TypeOK, MergerRuns, RunCommand, users
  <2>2. Tail(cmd_map[w][l]) \in Seq(Commands) /\ Head(cmd_map[w][l]) \in Commands
    BY <2>1, TailFacts
  <2>3. Execute(reports[w][l], Head(cmd_map[w][l])) \in SUBSET ReportTypes
    BY <2>2 DEF TypeOK, Execute, Commands
  <2>4. reports' \in [Workers -> [Chunks -> SUBSET ReportTypes]]
    BY <1>5, <2>3 DEF TypeOK, MergerRuns, RunCommand, users
  <2>5. cmd_map' \in [Workers -> [Chunks -> Seq(Commands)]]
    BY <1>5, <2>2 DEF TypeOK, MergerRuns, RunCommand, users
  <2> QED BY <1>5, <2>4, <2>5 DEF TypeOK, MergerRuns, RunCommand, users
<1>6. ASSUME NEW w \in Workers, NEW l \in Chunks, MergerUnlocks(w, l)
      PROVE  TypeOK'
  BY <1>6 DEF TypeOK, MergerUnlocks, UnlockCommands
<1>7. ASSUME NEW w \in Workers, NEW l \in Chunks, MergerPushes(w, l)
      PROVE  TypeOK'
  <2>1. Append(empty_chunks[w], l) \in Seq(Chunks)
    BY AppendFacts DEF TypeOK
  <2> QED BY <1>7, <2>1 DEF TypeOK, MergerPushes, PushEmpty
<1>8. ASSUME NEW w \in Workers, NEW cmd \in Commands, Queues(w, cmd)
      PROVE  TypeOK'
  <2>1. \A l \in Chunks : Append(cmd_map[w][l], cmd) \in Seq(Commands)
    BY AppendFacts DEF TypeOK
  <2>2. cmd_map' \in [Workers -> [Chunks -> Seq(Commands)]]
    BY <1>8, <2>1 DEF TypeOK, Queues, Enqueue
  <2>3. Execute(commanded[w], cmd) \in SUBSET ReportTypes
    BY DEF TypeOK, Execute, Commands
  <2> QED BY <1>8, <2>2, <2>3 DEF TypeOK, Queues, Enqueue
<1>9. ASSUME NEW w \in Workers, NEW t \in ReportTypes,
             AnyoneCommands(w, t)
      PROVE  \E cmd \in Commands : Queues(w, cmd)
  BY <1>9 DEF AnyoneCommands, add_report, del_report, Commands, Queues,
              Execute
<1>10. CASE UNCHANGED vars
  BY <1>10 DEF TypeOK, vars, container, users
<1> QED BY <1>1, <1>2, <1>3, <1>4, <1>5, <1>6, <1>7, <1>8, <1>9, <1>10
   DEF Next

(* Every variable of the containers keeps its type. *)
THEOREM TypeCorrect == Spec => []TypeOK
<1> QED BY TypeInit, TypeStep, PTL DEF Spec
-----------------------------------------------------------------------------
(***************************************************************************)
(* Ownership.  OneOwner is not inductive: LockCommands, RunCommand and     *)
(* UnlockCommands act on the list in cmd_lock, PushEmpty on one of         *)
(* flushed, and these must be lists the merger has.                        *)
(***************************************************************************)
MergerLists ==
  \A w \in Workers :
    /\ flushed[w] \subseteq merger_has[w]
    /\ cmd_lock[w] # NoList => cmd_lock[w] \in merger_has[w] \ flushed[w]

LEMMA MergerListsInit == Init => MergerLists
BY DEF Init, MergerLists

LEMMA MergerListsStep == TypeOK /\ MergerLists /\ [Next]_vars => MergerLists'
<1> SUFFICES ASSUME TypeOK, MergerLists, [Next]_vars, NEW v \in Workers
             PROVE  /\ flushed'[v] \subseteq merger_has'[v]
                    /\ cmd_lock'[v] # NoList =>
                         cmd_lock'[v] \in merger_has'[v] \ flushed'[v]
  BY DEF MergerLists
<1> USE DEF TypeOK, MergerLists
<1>1. ASSUME NEW w \in Workers, NEW l \in Chunks,
             \/ WorkerGets(w, l)
             \/ WorkerReturns(w, l)
      PROVE  UNCHANGED <<flushed, merger_has, cmd_lock>>
  BY <1>1 DEF WorkerGets, get_emty_list, WorkerReturns, return_full_list
<1>2. ASSUME NEW w \in Workers, NEW t \in ReportTypes,
             AnyoneCommands(w, t)
      PROVE  UNCHANGED <<flushed, merger_has, cmd_lock>>
  BY <1>2 DEF AnyoneCommands, add_report, del_report, Enqueue
<1>3. ASSUME UNCHANGED <<flushed, merger_has, cmd_lock>>
      PROVE  /\ flushed'[v] \subseteq merger_has'[v]
             /\ cmd_lock'[v] # NoList =>
                  cmd_lock'[v] \in merger_has'[v] \ flushed'[v]
  BY <1>3
<1>4. CASE \E w \in Workers, l \in Chunks : MergerGets(w, l)
  <2> PICK w \in Workers, l \in Chunks : MergerGets(w, l)
    BY <1>4
  <2>1. /\ merger_has' = [merger_has EXCEPT ![w] = @ \union {l}]
        /\ UNCHANGED <<flushed, cmd_lock>>
    BY DEF MergerGets, get_full_list
  <2> QED BY <2>1
<1>5. CASE \E w \in Workers, l \in Chunks : MergerLocks(w, l)
  BY <1>5 DEF MergerLocks, LockCommands, users
<1>6. CASE \E w \in Workers, l \in Chunks : MergerRuns(w, l)
  BY <1>6 DEF MergerRuns, RunCommand, users
<1>7. CASE \E w \in Workers, l \in Chunks : MergerUnlocks(w, l)
  BY <1>7 DEF MergerUnlocks, UnlockCommands, NoList, Chunks
<1>8. CASE \E w \in Workers, l \in Chunks : MergerPushes(w, l)
  BY <1>8 DEF MergerPushes, PushEmpty
<1>9. CASE UNCHANGED vars
  BY <1>3, <1>9 DEF vars, container, users
<1> QED BY <1>1, <1>2, <1>3, <1>4, <1>5, <1>6, <1>7, <1>8, <1>9
   DEF Next

(* The partition of one container depends on its own four places only. *)
LEMMA PartitionFrame ==
  ASSUME NEW v \in Workers, Partition(v),
         empty_chunks'[v] = empty_chunks[v],
         full_chunks'[v] = full_chunks[v],
         worker_has'[v] = worker_has[v],
         merger_has'[v] = merger_has[v]
  PROVE  Partition(v)'
BY DEF Partition

LEMMA PartitionInit == Init => OneOwner
<1> SUFFICES ASSUME Init, NEW w \in Workers PROVE Partition(w)
  BY DEF OneOwner
<1>1. /\ empty_chunks[w] = [i \in 1 .. ChunkCount |-> i]
      /\ full_chunks[w] = <<>>
      /\ worker_has[w] = {}
      /\ merger_has[w] = {}
  BY DEF Init
<1>2. Range(empty_chunks[w]) = Chunks /\ IsInjective(empty_chunks[w])
  BY <1>1 DEF Range, IsInjective, Chunks
<1>3. Range(full_chunks[w]) = {} /\ IsInjective(full_chunks[w])
  <2>1. DOMAIN full_chunks[w] = {}
    BY <1>1
  <2> QED BY <2>1 DEF Range, IsInjective
<1> QED BY <1>1, <1>2, <1>3 DEF Partition

(* Each of the four moves between the places keeps the partition. *)
LEMMA PartitionStep ==
  TypeOK /\ MergerLists /\ OneOwner /\ [Next]_vars => OneOwner'
<1> SUFFICES ASSUME TypeOK, MergerLists, OneOwner, [Next]_vars, NEW v \in Workers
             PROVE  Partition(v)'
  BY DEF OneOwner
<1>0. /\ Partition(v)
      /\ empty_chunks[v] \in Seq(Chunks)
      /\ full_chunks[v] \in Seq(Chunks)
  BY DEF OneOwner, TypeOK
<1>1. ASSUME NEW l \in Chunks, WorkerGets(v, l) PROVE Partition(v)'
  <2>1. /\ empty_chunks[v] # <<>> /\ l = Head(empty_chunks[v])
        /\ empty_chunks'[v] = Tail(empty_chunks[v])
        /\ worker_has'[v] = worker_has[v] \union {l}
        /\ full_chunks'[v] = full_chunks[v]
        /\ merger_has'[v] = merger_has[v]
    BY <1>1 DEF WorkerGets, get_emty_list, TypeOK
  <2>2. /\ IsInjective(empty_chunks'[v])
        /\ Range(empty_chunks'[v]) = Range(empty_chunks[v]) \ {l}
        /\ l \in Range(empty_chunks[v])
    BY <1>0, <2>1, TailFacts DEF Partition
  <2> QED BY <1>0, <2>1, <2>2 DEF Partition
<1>2. ASSUME NEW l \in Chunks, WorkerReturns(v, l) PROVE Partition(v)'
  <2>1. /\ l \in worker_has[v]
        /\ full_chunks'[v] = Append(full_chunks[v], l)
        /\ worker_has'[v] = worker_has[v] \ {l}
        /\ empty_chunks'[v] = empty_chunks[v]
        /\ merger_has'[v] = merger_has[v]
    BY <1>2 DEF WorkerReturns, return_full_list, TypeOK
  <2>2. l \notin Range(full_chunks[v])
    BY <1>0, <2>1 DEF Partition
  <2>3. /\ IsInjective(full_chunks'[v])
        /\ Range(full_chunks'[v]) = Range(full_chunks[v]) \union {l}
    BY <1>0, <2>1, <2>2, AppendFacts DEF Partition
  <2> QED BY <1>0, <2>1, <2>3 DEF Partition
<1>3. ASSUME NEW l \in Chunks, MergerGets(v, l) PROVE Partition(v)'
  <2>1. /\ full_chunks[v] # <<>> /\ l = Head(full_chunks[v])
        /\ full_chunks'[v] = Tail(full_chunks[v])
        /\ merger_has'[v] = merger_has[v] \union {l}
        /\ empty_chunks'[v] = empty_chunks[v]
        /\ worker_has'[v] = worker_has[v]
    BY <1>3 DEF MergerGets, get_full_list, TypeOK
  <2>2. /\ IsInjective(full_chunks'[v])
        /\ Range(full_chunks'[v]) = Range(full_chunks[v]) \ {l}
        /\ l \in Range(full_chunks[v])
    BY <1>0, <2>1, TailFacts DEF Partition
  <2> QED BY <1>0, <2>1, <2>2 DEF Partition
<1>4. ASSUME NEW l \in Chunks, MergerPushes(v, l) PROVE Partition(v)'
  <2>1. /\ l \in merger_has[v]
        /\ empty_chunks'[v] = Append(empty_chunks[v], l)
        /\ merger_has'[v] = merger_has[v] \ {l}
        /\ full_chunks'[v] = full_chunks[v]
        /\ worker_has'[v] = worker_has[v]
    BY <1>4 DEF MergerPushes, PushEmpty, TypeOK, MergerLists
  <2>2. l \notin Range(empty_chunks[v])
    BY <1>0, <2>1 DEF Partition
  <2>3. /\ IsInjective(empty_chunks'[v])
        /\ Range(empty_chunks'[v]) = Range(empty_chunks[v]) \union {l}
    BY <1>0, <2>1, <2>2, AppendFacts DEF Partition
  <2> QED BY <1>0, <2>1, <2>3 DEF Partition
<1>5. ASSUME NEW w \in Workers, NEW l \in Chunks, w # v,
             \/ WorkerGets(w, l) \/ WorkerReturns(w, l)
             \/ MergerGets(w, l) \/ MergerPushes(w, l)
      PROVE  Partition(v)'
  <2>1. /\ empty_chunks'[v] = empty_chunks[v] /\ full_chunks'[v] = full_chunks[v]
        /\ worker_has'[v] = worker_has[v] /\ merger_has'[v] = merger_has[v]
    BY <1>5 DEF WorkerGets, get_emty_list, WorkerReturns, return_full_list,
                MergerGets, get_full_list, MergerPushes, PushEmpty, TypeOK
  <2> QED BY <1>0, <2>1, PartitionFrame
<1>6. ASSUME UNCHANGED <<empty_chunks, full_chunks, worker_has, merger_has>>
      PROVE  Partition(v)'
  BY <1>0, <1>6, PartitionFrame
<1>7. ASSUME NEW w \in Workers, NEW l \in Chunks,
             MergerLocks(w, l) \/ MergerRuns(w, l) \/ MergerUnlocks(w, l)
      PROVE  Partition(v)'
  BY <1>6, <1>7 DEF MergerLocks, LockCommands, MergerRuns, RunCommand,
                    MergerUnlocks, UnlockCommands, users
<1>8. ASSUME NEW w \in Workers, NEW t \in ReportTypes,
             AnyoneCommands(w, t)
      PROVE  Partition(v)'
  BY <1>6, <1>8 DEF AnyoneCommands, add_report, del_report, Enqueue
<1>9. CASE UNCHANGED vars
  BY <1>6, <1>9 DEF vars, container, users
<1> QED BY <1>1, <1>2, <1>3, <1>4, <1>5, <1>7, <1>8, <1>9
   DEF Next

(* No list is lost, queued twice, or in the hands of two threads at once. *)
THEOREM Ownership == Spec => []OneOwner
<1>1. Init => TypeOK /\ MergerLists /\ OneOwner
  BY TypeInit, MergerListsInit, PartitionInit
<1>2. TypeOK /\ MergerLists /\ OneOwner /\ [Next]_vars
        => (TypeOK /\ MergerLists /\ OneOwner)'
  BY TypeStep, MergerListsStep, PartitionStep
<1> QED BY <1>1, <1>2, PTL DEF Spec
-----------------------------------------------------------------------------
(* Convergence: by OutcomeAppend and OutcomeTail neither queueing a command *)
(* nor executing the oldest one changes where a list is going.             *)
LEMMA ConvergeInit == Init => ListsConverge
<1> SUFFICES ASSUME Init, NEW w \in Workers, NEW l \in Chunks
             PROVE  Outcome(reports[w][l], cmd_map[w][l]) = commanded[w]
  BY DEF ListsConverge
<1>1. reports[w][l] = {} /\ cmd_map[w][l] = <<>> /\ commanded[w] = {}
  BY DEF Init
<1>2. DOMAIN cmd_map[w][l] = {}
  BY <1>1
<1> QED BY <1>1, <1>2 DEF Outcome

LEMMA ConvergeStep == TypeOK /\ ListsConverge /\ [Next]_vars => ListsConverge'
<1> SUFFICES ASSUME TypeOK, ListsConverge, [Next]_vars,
                    NEW v \in Workers, NEW m \in Chunks
             PROVE  Outcome(reports'[v][m], cmd_map'[v][m]) = commanded'[v]
  BY DEF ListsConverge, Outcome
<1>0. /\ Outcome(reports[v][m], cmd_map[v][m]) = commanded[v]
      /\ reports[v][m] \in SUBSET ReportTypes
      /\ cmd_map[v][m] \in Seq(Commands)
  BY DEF ListsConverge, TypeOK
<1>1. ASSUME reports'[v][m] = reports[v][m], cmd_map'[v][m] = cmd_map[v][m],
             commanded'[v] = commanded[v]
      PROVE  Outcome(reports'[v][m], cmd_map'[v][m]) = commanded'[v]
  BY <1>0, <1>1
<1>2. ASSUME NEW w \in Workers, NEW l \in Chunks,
             \/ WorkerGets(w, l) \/ WorkerReturns(w, l)
             \/ MergerGets(w, l) \/ MergerLocks(w, l)
             \/ MergerUnlocks(w, l) \/ MergerPushes(w, l)
      PROVE  Outcome(reports'[v][m], cmd_map'[v][m]) = commanded'[v]
  <2>1. UNCHANGED <<reports, cmd_map, commanded>>
    BY <1>2 DEF WorkerGets, get_emty_list, WorkerReturns, return_full_list,
                MergerGets, get_full_list, MergerLocks, LockCommands,
                MergerUnlocks, UnlockCommands, MergerPushes, PushEmpty, users
  <2> QED BY <1>1, <2>1
<1>3. ASSUME NEW w \in Workers, NEW l \in Chunks, MergerRuns(w, l)
      PROVE  Outcome(reports'[v][m], cmd_map'[v][m]) = commanded'[v]
  <2>1. CASE v = w /\ m = l
    <3>1. /\ cmd_map[v][m] # <<>>
          /\ reports'[v][m] = Execute(reports[v][m], Head(cmd_map[v][m]))
          /\ cmd_map'[v][m] = Tail(cmd_map[v][m])
          /\ commanded'[v] = commanded[v]
      BY <1>3, <2>1 DEF MergerRuns, RunCommand, TypeOK, users
    <3> QED BY <1>0, <3>1, OutcomeTail
  <2>2. CASE ~(v = w /\ m = l)
    <3>1. /\ reports'[v][m] = reports[v][m]
          /\ cmd_map'[v][m] = cmd_map[v][m]
          /\ commanded'[v] = commanded[v]
      BY <1>3, <2>2 DEF MergerRuns, RunCommand, TypeOK, users
    <3> QED BY <1>1, <3>1
  <2> QED BY <2>1, <2>2
<1>4. ASSUME NEW w \in Workers, NEW cmd \in Commands, Queues(w, cmd)
      PROVE  Outcome(reports'[v][m], cmd_map'[v][m]) = commanded'[v]
  <2>1. CASE v = w
    <3>1. /\ reports'[v][m] = reports[v][m]
          /\ cmd_map'[v][m] = Append(cmd_map[v][m], cmd)
          /\ commanded'[v] = Execute(commanded[v], cmd)
      BY <1>4, <2>1 DEF Queues, Enqueue, TypeOK
    <3> QED BY <1>0, <3>1, OutcomeAppend
  <2>2. CASE v # w
    <3>1. /\ reports'[v][m] = reports[v][m]
          /\ cmd_map'[v][m] = cmd_map[v][m]
          /\ commanded'[v] = commanded[v]
      BY <1>4, <2>2 DEF Queues, Enqueue, TypeOK
    <3> QED BY <1>1, <3>1
  <2> QED BY <2>1, <2>2
<1>5. ASSUME NEW w \in Workers, NEW t \in ReportTypes,
             AnyoneCommands(w, t)
      PROVE  \E cmd \in Commands : Queues(w, cmd)
  BY <1>5 DEF AnyoneCommands, add_report, del_report, Commands, Queues,
              Execute
<1>6. CASE UNCHANGED vars
  BY <1>1, <1>6 DEF vars, container, users
<1> QED BY <1>2, <1>3, <1>4, <1>5, <1>6 DEF Next

(* All lists of a container are on their way to the same set of reports. *)
THEOREM Convergence == Spec => []ListsConverge
<1> QED BY TypeInit, TypeStep, ConvergeInit, ConvergeStep, PTL
   DEF Spec
-----------------------------------------------------------------------------
(* Only RunCommand changes the reports of a list, and the list it changes  *)
(* is in cmd_lock, hence the merger's and, by the partition, nobody else's. *)
THEOREM Stability == Spec => ReportsStable
<1> DEFINE A == \A w \in Workers, l \in Chunks :
                  reports'[w][l] # reports[w][l] =>
                    /\ l \in merger_has[w]
                    /\ l \notin worker_has[w]
                    /\ l \notin Range(empty_chunks[w])
<1>1. TypeOK /\ MergerLists /\ OneOwner /\ [Next]_vars => A
  <2> SUFFICES ASSUME TypeOK, MergerLists, OneOwner, [Next]_vars,
                      NEW v \in Workers, NEW m \in Chunks,
                      reports'[v][m] # reports[v][m]
               PROVE  /\ m \in merger_has[v]
                      /\ m \notin worker_has[v]
                      /\ m \notin Range(empty_chunks[v])
    OBVIOUS
  <2>1. \E w \in Workers, l \in Chunks : MergerRuns(w, l)
    BY DEF Next, vars, container, users, WorkerGets, get_emty_list,
           WorkerReturns, return_full_list, MergerGets, get_full_list,
           MergerLocks, LockCommands, MergerUnlocks, UnlockCommands,
           MergerPushes, PushEmpty, AnyoneCommands, add_report, del_report,
           Enqueue
  <2>2. MergerRuns(v, m)
    <3>1. PICK w \in Workers, l \in Chunks : MergerRuns(w, l)
      BY <2>1
    <3>2. \A x \in Workers, y \in Chunks :
            x # w \/ y # l => reports'[x][y] = reports[x][y]
      BY <3>1 DEF MergerRuns, RunCommand, TypeOK, users
    <3>3. v = w /\ m = l
      BY <3>2
    <3> QED BY <3>1, <3>3
  <2>3. m \in merger_has[v]
    BY <2>2 DEF MergerRuns, RunCommand, MergerLists, NoList, Chunks, users
  <2> QED BY <2>3 DEF OneOwner, Partition
<1>2. [Next]_vars /\ A => [A]_vars
  OBVIOUS
<1>3. Init => TypeOK /\ MergerLists /\ OneOwner
  BY TypeInit, MergerListsInit, PartitionInit
<1>4. TypeOK /\ MergerLists /\ OneOwner /\ [Next]_vars
        => (TypeOK /\ MergerLists /\ OneOwner)'
  BY TypeStep, MergerListsStep, PartitionStep
<1> HIDE DEF A
<1>5. Spec => [][A]_vars
  BY <1>1, <1>3, <1>4, PTL DEF Spec
<1> QED BY <1>5 DEF A, ReportsStable
-----------------------------------------------------------------------------
(* Refinement of ListCycle.  A step that moves list l of container w from  *)
(* one place to another, and nothing else, is a Pass.                      *)
LEMMA OwnerMove ==
  ASSUME NEW w \in Workers, NEW l \in Chunks, NEW from, NEW to,
         OwnerOf(w, l) = from,
         OwnerOf(w, l)' = to,
         \A v \in Workers, m \in Chunks :
           v # w \/ m # l => OwnerOf(v, m)' = OwnerOf(v, m)
  PROVE  Cycle!Pass(w, l, from, to)
BY DEF Cycle!Pass

LEMMA OwnerFrame ==
  ASSUME NEW v \in Workers, NEW m \in Chunks,
         m \in worker_has'[v] <=> m \in worker_has[v],
         m \in merger_has'[v] <=> m \in merger_has[v],
         m \in Range(full_chunks'[v]) <=> m \in Range(full_chunks[v])
  PROVE  OwnerOf(v, m)' = OwnerOf(v, m)
BY DEF OwnerOf

LEMMA CycleStep ==
  TypeOK /\ MergerLists /\ OneOwner /\ OneOwner' /\ [Next]_vars
    => [Cycle!Next]_([w \in Workers |-> [l \in Chunks |-> OwnerOf(w, l)]])
<1> DEFINE owner == [w \in Workers |-> [l \in Chunks |-> OwnerOf(w, l)]]
<1> SUFFICES ASSUME TypeOK, MergerLists, OneOwner, OneOwner', [Next]_vars
             PROVE  Cycle!Next \/ UNCHANGED owner
  OBVIOUS
<1>1. ASSUME NEW w \in Workers, NEW l \in Chunks, WorkerGets(w, l)
      PROVE  Cycle!Pass(w, l, "empty", "worker")
  <2>1. /\ l \in Range(empty_chunks[w])
        /\ worker_has' = [worker_has EXCEPT ![w] = @ \union {l}]
        /\ UNCHANGED <<full_chunks, merger_has>>
    BY <1>1, TailFacts DEF WorkerGets, get_emty_list, TypeOK
  <2>2. OwnerOf(w, l) = "empty"
    BY <2>1 DEF OneOwner, Partition, OwnerOf
  <2>3. OwnerOf(w, l)' = "worker"
    BY <2>1 DEF OwnerOf, TypeOK
  <2>4. \A v \in Workers, m \in Chunks :
          v # w \/ m # l => OwnerOf(v, m)' = OwnerOf(v, m)
    BY <2>1, OwnerFrame DEF TypeOK
  <2> QED BY <2>2, <2>3, <2>4, OwnerMove
<1>2. ASSUME NEW w \in Workers, NEW l \in Chunks, WorkerReturns(w, l)
      PROVE  Cycle!Pass(w, l, "worker", "full")
  <2>1. /\ l \in worker_has[w]
        /\ worker_has' = [worker_has EXCEPT ![w] = @ \ {l}]
        /\ full_chunks' = [full_chunks EXCEPT ![w] = Append(@, l)]
        /\ UNCHANGED merger_has
    BY <1>2 DEF WorkerReturns, return_full_list
  <2>2. Range(full_chunks'[w]) = Range(full_chunks[w]) \union {l}
    BY <2>1, AppendFacts DEF TypeOK
  <2>3. OwnerOf(w, l) = "worker"
    BY <2>1 DEF OwnerOf
  <2>4. OwnerOf(w, l)' = "full"
    <3>1. l \notin worker_has'[w] /\ l \notin merger_has'[w]
      BY <2>1 DEF OneOwner, Partition, TypeOK
    <3> QED BY <2>2, <3>1 DEF OwnerOf
  <2>5. \A v \in Workers, m \in Chunks :
          v # w \/ m # l => OwnerOf(v, m)' = OwnerOf(v, m)
    BY <2>1, <2>2, OwnerFrame DEF TypeOK
  <2> QED BY <2>3, <2>4, <2>5, OwnerMove
<1>3. ASSUME NEW w \in Workers, NEW l \in Chunks, MergerGets(w, l)
      PROVE  Cycle!Pass(w, l, "full", "merger")
  <2>1. /\ full_chunks[w] # <<>> /\ l = Head(full_chunks[w])
        /\ full_chunks' = [full_chunks EXCEPT ![w] = Tail(@)]
        /\ merger_has' = [merger_has EXCEPT ![w] = @ \union {l}]
        /\ UNCHANGED worker_has
    BY <1>3 DEF MergerGets, get_full_list
  <2>2. /\ Range(full_chunks'[w]) = Range(full_chunks[w]) \ {l}
        /\ l \in Range(full_chunks[w])
    BY <2>1, TailFacts DEF TypeOK, OneOwner, Partition
  <2>3. l \notin worker_has[w] /\ l \notin merger_has[w]
    BY <2>2 DEF OneOwner, Partition
  <2>4. OwnerOf(w, l) = "full"
    BY <2>2, <2>3 DEF OwnerOf
  <2>5. OwnerOf(w, l)' = "merger"
    BY <2>1, <2>3 DEF OwnerOf, TypeOK
  <2>6. \A v \in Workers, m \in Chunks :
          v # w \/ m # l => OwnerOf(v, m)' = OwnerOf(v, m)
    BY <2>1, <2>2, OwnerFrame DEF TypeOK
  <2> QED BY <2>4, <2>5, <2>6, OwnerMove
<1>4. ASSUME NEW w \in Workers, NEW l \in Chunks, MergerPushes(w, l)
      PROVE  Cycle!Pass(w, l, "merger", "empty")
  <2>1. /\ l \in merger_has[w]
        /\ merger_has' = [merger_has EXCEPT ![w] = @ \ {l}]
        /\ UNCHANGED <<full_chunks, worker_has>>
    BY <1>4 DEF MergerPushes, PushEmpty, MergerLists
  <2>2. l \notin worker_has[w] /\ l \notin Range(full_chunks[w])
    BY <2>1 DEF OneOwner, Partition
  <2>3. OwnerOf(w, l) = "merger"
    BY <2>1, <2>2 DEF OwnerOf
  <2>4. OwnerOf(w, l)' = "empty"
    BY <2>1, <2>2 DEF OwnerOf, TypeOK
  <2>5. \A v \in Workers, m \in Chunks :
          v # w \/ m # l => OwnerOf(v, m)' = OwnerOf(v, m)
    BY <2>1, OwnerFrame DEF TypeOK
  <2> QED BY <2>3, <2>4, <2>5, OwnerMove
<1>5. ASSUME UNCHANGED <<full_chunks, worker_has, merger_has>>
      PROVE  UNCHANGED owner
  BY <1>5, OwnerFrame
<1>6. ASSUME NEW w \in Workers, NEW l \in Chunks,
             MergerLocks(w, l) \/ MergerRuns(w, l) \/ MergerUnlocks(w, l)
      PROVE  UNCHANGED owner
  BY <1>5, <1>6 DEF MergerLocks, LockCommands, MergerRuns, RunCommand,
                    MergerUnlocks, UnlockCommands, users
<1>7. ASSUME NEW w \in Workers, NEW t \in ReportTypes,
             AnyoneCommands(w, t)
      PROVE  UNCHANGED owner
  BY <1>5, <1>7 DEF AnyoneCommands, add_report, del_report, Enqueue
<1>8. CASE UNCHANGED vars
  BY <1>5, <1>8 DEF vars, container, users
<1>9. \A w \in Workers, l \in Chunks :
        (\/ Cycle!Pass(w, l, "empty", "worker")
         \/ Cycle!Pass(w, l, "worker", "full")
         \/ Cycle!Pass(w, l, "full", "merger")
         \/ Cycle!Pass(w, l, "merger", "empty")) => Cycle!Next
  BY DEF Cycle!Next
<1> HIDE DEF owner
<1> QED BY <1>1, <1>2, <1>3, <1>4, <1>6, <1>7, <1>8, <1>9
   DEF Next

(* A list goes from owner to owner in the order of the cycle, always. *)
THEOREM Refinement == Spec => CycleSpec
<1>1. Init => Cycle!Init
  <2>1. ASSUME Init, NEW w \in Workers, NEW l \in Chunks
        PROVE  OwnerOf(w, l) = "empty"
    <3>1. worker_has[w] = {} /\ merger_has[w] = {} /\ full_chunks[w] = <<>>
      BY <2>1 DEF Init
    <3>2. Range(full_chunks[w]) = {}
      BY <3>1 DEF Range
    <3> QED BY <3>1, <3>2 DEF OwnerOf
  <2> QED BY <2>1 DEF Cycle!Init
<1>2. Init => TypeOK /\ MergerLists /\ OneOwner
  BY TypeInit, MergerListsInit, PartitionInit
<1>3. TypeOK /\ MergerLists /\ OneOwner /\ [Next]_vars
        => (TypeOK /\ MergerLists /\ OneOwner)'
  BY TypeStep, MergerListsStep, PartitionStep
<1> QED BY <1>1, <1>2, <1>3, CycleStep, PTL DEF Spec, CycleSpec, Cycle!Spec
=============================================================================
