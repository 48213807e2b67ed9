---------------------------- MODULE ReportProofs ----------------------------
(***************************************************************************)
(* Proofs about Report, for any indexes and any bound on the records.      *)
(*                                                                         *)
(* Conserved needs to know what the merger's loops have behind them: what  *)
(* was cleared is zero, and the entry being inserted is new.               *)
(***************************************************************************)
EXTENDS Report, TLAPS

Loops ==
  /\ merger_pc = "clear" => \A i \in DOMAIN report_data \ todo : report_data[i] = 0
  /\ merger_pc = "insert" => ~Has(main_data, cur)
  /\ merger_pc = "fill" => Has(main_data, cur)

LEMMA PutFacts ==
  ASSUME NEW data, IsReport(data), NEW i \in Indexes, NEW n \in Int
  PROVE  /\ IsReport(Put(data, i, n))
         /\ DOMAIN Put(data, i, n) = DOMAIN data \union {i}
         /\ \A j \in Indexes : At(Put(data, i, n), j)
                                  = IF j = i THEN n ELSE At(data, j)
BY DEF IsReport, Put, At, Has

LEMMA AtFacts ==
  ASSUME NEW data, IsReport(data), NEW i \in Indexes
  PROVE  /\ At(data, i) \in Int
         /\ Has(data, i) => At(data, i) = data[i]
         /\ ~Has(data, i) => At(data, i) = 0
BY DEF IsReport, At, Has
-----------------------------------------------------------------------------
LEMMA InvInit == Init => TypeOK /\ Loops /\ Conserved
<1> SUFFICES ASSUME Init PROVE TypeOK /\ Loops /\ Conserved
  OBVIOUS
<1>1. DOMAIN report_data = {} /\ DOMAIN main_data = {}
  BY DEF Init, EmptyReport
<1>2. TypeOK
  <2>1. IsReport(EmptyReport)
    BY DEF IsReport, EmptyReport
  <2>2. report_data = EmptyReport /\ main_data = EmptyReport
    BY DEF Init
  <2>3. IsReport(report_data) /\ IsReport(main_data)
    BY <2>1, <2>2
  <2>4. /\ net \in [Indexes -> Int]
        /\ merger_pc \in {"away", "merge", "insert", "fill", "clear"}
        /\ todo \in SUBSET DOMAIN report_data
        /\ ~(merger_pc \in {"insert", "fill"})
    BY DEF Init
  <2>5. /\ dumping \in BOOLEAN /\ raced \in BOOLEAN
        /\ at \in Indexes \union {0}
        /\ shown \in SUBSET Indexes /\ present \in SUBSET Indexes
    BY DEF Init
  <2> QED BY <2>3, <2>4, <2>5 DEF TypeOK
<1>3. Loops /\ Conserved
  BY <1>1 DEF Init, Loops, Conserved, Pending, At, Has
<1> QED BY <1>2, <1>3

LEMMA InvStep == TypeOK /\ Loops /\ Conserved /\ [Next]_vars
                   => TypeOK' /\ Loops' /\ Conserved'
<1> SUFFICES ASSUME TypeOK, Loops, Conserved, [Next]_vars
             PROVE  TypeOK' /\ Loops' /\ Conserved'
  OBVIOUS
<1>reports. IsReport(report_data) /\ IsReport(main_data)
  BY DEF TypeOK
<1>0. /\ \A i \in Indexes : /\ At(report_data, i) \in Int
                            /\ At(main_data, i) \in Int
                            /\ net[i] \in Int
                            /\ At(main_data, i) + Pending(i) = net[i]
      /\ DOMAIN report_data \subseteq Indexes
      /\ DOMAIN main_data \subseteq Indexes
  BY <1>reports, AtFacts DEF TypeOK, Conserved, IsReport
(* A record more or less under an index, in the worker's list. *)
<1>1. ASSUME NEW i \in Indexes, NEW d \in Int, merger_pc = "away",
             report_data' = Put(report_data, i, At(report_data, i) + d),
             net' = [net EXCEPT ![i] = @ + d],
             UNCHANGED <<main_data, merger, console>>
      PROVE  TypeOK' /\ Loops' /\ Conserved'
  <2>1. At(report_data, i) + d \in Int
    BY <1>0
  <2>2. /\ IsReport(report_data')
        /\ DOMAIN report_data' = DOMAIN report_data \union {i}
        /\ \A j \in Indexes : At(report_data', j)
                                = IF j = i THEN At(report_data, i) + d
                                           ELSE At(report_data, j)
    <3> DEFINE n == At(report_data, i) + d
    <3> HIDE DEF n
    <3>1. IsReport(report_data) /\ i \in Indexes /\ n \in Int
      BY <1>reports, <2>1 DEF n
    <3>2. /\ IsReport(Put(report_data, i, n))
          /\ DOMAIN Put(report_data, i, n) = DOMAIN report_data \union {i}
          /\ \A j \in Indexes : At(Put(report_data, i, n), j)
                                   = IF j = i THEN n ELSE At(report_data, j)
      BY <3>1, PutFacts
    <3>3. report_data' = Put(report_data, i, n)
      BY <1>1 DEF n
    <3>4. /\ IsReport(report_data')
          /\ DOMAIN report_data' = DOMAIN report_data \union {i}
          /\ \A j \in Indexes : At(report_data', j)
                                   = IF j = i THEN n ELSE At(report_data, j)
      BY <3>2, <3>3
    <3> QED BY <3>4 DEF n
  <2>3. TypeOK'
    BY <1>1, <2>2 DEF TypeOK, merger, console
  <2>4. Loops'
    BY <1>1 DEF Loops, merger
  <2>5. ASSUME NEW j \in Indexes
        PROVE  At(main_data', j) + Pending(j)' = net'[j]
    <3>1. Pending(j) = At(report_data, j) /\ Pending(j)' = At(report_data', j)
      BY <1>1 DEF Pending, merger
    <3>2. net'[j] = IF j = i THEN net[i] + d ELSE net[j]
      BY <1>1 DEF TypeOK
    <3>3. At(main_data', j) = At(main_data, j)
      BY <1>1
    <3> QED BY <1>0, <2>2, <3>1, <3>2, <3>3
  <2> QED BY <2>3, <2>4, <2>5 DEF Conserved
<1>2. ASSUME NEW i \in Indexes, add_record(i)
      PROVE  TypeOK' /\ Loops' /\ Conserved'
  <2>1. /\ merger_pc = "away"
        /\ report_data' = Put(report_data, i, At(report_data, i) + 1)
        /\ net' = [net EXCEPT ![i] = @ + 1]
        /\ UNCHANGED <<main_data, merger, console>>
    BY <1>2 DEF add_record
  <2>2. 1 \in Int
    OBVIOUS
  <2> QED BY <1>1, <2>1, <2>2
<1>3. ASSUME NEW i \in Indexes, del_record(i)
      PROVE  TypeOK' /\ Loops' /\ Conserved'
  <2>1. /\ At(report_data, i) - 1 = At(report_data, i) + (-1)
        /\ net[i] - 1 = net[i] + (-1)
        /\ -1 \in Int
    BY <1>0
  <2>2. /\ merger_pc = "away"
        /\ report_data' = Put(report_data, i, At(report_data, i) - 1)
        /\ net' = [net EXCEPT ![i] = @ - 1]
        /\ UNCHANGED <<main_data, merger, console>>
    BY <1>3 DEF del_record
  <2>3. /\ report_data' = Put(report_data, i, At(report_data, i) + (-1))
        /\ net' = [net EXCEPT ![i] = @ + (-1)]
    BY <2>1, <2>2
  <2> QED BY <1>1, <2>1, <2>2, <2>3
(* Steps of the merger that leave the main report alone. *)
<1>4. CASE BeginMerge
  BY <1>0, <1>4 DEF BeginMerge, TypeOK, Loops, Conserved, Pending, At, Has, console
<1>5. ASSUME NEW i \in todo, PassEntry(i)
      PROVE  TypeOK' /\ Loops' /\ Conserved'
  <2>1. TypeOK' /\ Loops'
    BY <1>5 DEF PassEntry, TypeOK, Loops, console
  <2>2. i \in Indexes /\ At(report_data, i) = 0
    BY <1>0, <1>5 DEF PassEntry, TypeOK, At
  <2>3. Conserved'
    BY <1>0, <1>5, <2>2 DEF PassEntry, Conserved, Pending
  <2> QED BY <2>1, <2>3
<1>6. ASSUME NEW i \in todo, BeginInsert(i)
      PROVE  TypeOK' /\ Loops' /\ Conserved'
  BY <1>6 DEF BeginInsert, TypeOK, Loops, Conserved, Pending, console
<1>7. CASE BeginClear
  <2>1. TypeOK' /\ Loops'
    BY <1>7 DEF BeginClear, TypeOK, Loops, console
  <2>2. Conserved'
    BY <1>0, <1>7 DEF BeginClear, Conserved, Pending
  <2> QED BY <2>1, <2>2
<1>8. ASSUME NEW i \in todo, ClearEntry(i)
      PROVE  TypeOK' /\ Loops' /\ Conserved'
  <2>1. i \in DOMAIN report_data /\ i \in Indexes
    BY <1>0 DEF TypeOK
  <2>2. IsReport(report_data') /\ DOMAIN report_data' = DOMAIN report_data
    <3>1. IsReport(report_data) /\ i \in Indexes /\ 0 \in Int
      BY <1>reports, <2>1
    <3>2. /\ IsReport(Put(report_data, i, 0))
          /\ DOMAIN Put(report_data, i, 0) = DOMAIN report_data \union {i}
      BY <3>1, PutFacts
    <3>3. report_data' = Put(report_data, i, 0)
      BY <1>8 DEF ClearEntry
    <3> QED BY <2>1, <3>2, <3>3
  <2>3. TypeOK'
    BY <1>8, <2>2 DEF ClearEntry, TypeOK, console
  <2>4. Loops'
    BY <1>8, <2>1 DEF ClearEntry, Loops, Put
  <2>5. Conserved'
    BY <1>0, <1>8 DEF ClearEntry, Conserved, Pending
  <2> QED BY <2>3, <2>4, <2>5
<1>9. CASE EndClear
  <2>1. TypeOK' /\ Loops'
    BY <1>9 DEF EndClear, TypeOK, Loops, console
  <2>2. \A i \in Indexes : At(report_data, i) = 0
    BY <1>0, <1>9 DEF EndClear, Loops, At, Has
  <2>3. Conserved'
    BY <1>0, <1>9, <2>2 DEF EndClear, Conserved, Pending
  <2> QED BY <2>1, <2>3
(* Steps that change the main report. *)
<1>10. ASSUME NEW i \in todo, MergeEntry(i)
       PROVE  TypeOK' /\ Loops' /\ Conserved'
  <2>1. /\ i \in Indexes /\ i \in DOMAIN report_data
        /\ At(main_data, i) = main_data[i] /\ At(report_data, i) = report_data[i]
    BY <1>0, <1>10 DEF MergeEntry, TypeOK, At, Has
  <2>2. /\ IsReport(main_data')
        /\ \A j \in Indexes : At(main_data', j)
                                = IF j = i THEN At(main_data, i) + At(report_data, i)
                                           ELSE At(main_data, j)
    <3> DEFINE n == main_data[i] + report_data[i]
    <3> HIDE DEF n
    <3>1. n \in Int /\ n = At(main_data, i) + At(report_data, i)
      BY <1>0, <2>1 DEF n
    <3>2. /\ IsReport(Put(main_data, i, n))
          /\ \A j \in Indexes : At(Put(main_data, i, n), j)
                                   = IF j = i THEN n ELSE At(main_data, j)
      BY <1>reports, <2>1, <3>1, PutFacts
    <3>3. main_data' = Put(main_data, i, n)
      BY <1>10 DEF MergeEntry, n
    <3>4. /\ IsReport(main_data')
          /\ \A j \in Indexes : At(main_data', j)
                                   = IF j = i THEN n ELSE At(main_data, j)
      BY <3>2, <3>3
    <3> QED BY <3>1, <3>4
  <2>3. TypeOK' /\ Loops'
    BY <1>10, <2>2 DEF MergeEntry, TypeOK, Loops, console
  <2>4. ASSUME NEW j \in Indexes
        PROVE  At(main_data', j) + Pending(j)' = net'[j]
    <3>1. /\ Pending(j) = IF j \in todo THEN At(report_data, j) ELSE 0
          /\ Pending(j)' = IF j \in todo \ {i} THEN At(report_data, j) ELSE 0
          /\ net'[j] = net[j]
      BY <1>10 DEF MergeEntry, Pending
    <3> QED BY <1>0, <2>2, <3>1
  <2> QED BY <2>3, <2>4 DEF Conserved
<1>11. CASE EndInsert
  <2>1. cur \in Indexes /\ At(main_data, cur) = 0
    BY <1>0, <1>11 DEF EndInsert, TypeOK, Loops, At
  <2>2. /\ IsReport(main_data')
        /\ DOMAIN main_data' = DOMAIN main_data \union {cur}
        /\ \A j \in Indexes : At(main_data', j) = At(main_data, j)
    <3>1. /\ IsReport(Put(main_data, cur, 0))
          /\ DOMAIN Put(main_data, cur, 0) = DOMAIN main_data \union {cur}
          /\ \A j \in Indexes : At(Put(main_data, cur, 0), j)
                                   = IF j = cur THEN 0 ELSE At(main_data, j)
      BY <1>reports, <2>1, PutFacts
    <3>2. main_data' = Put(main_data, cur, 0)
      BY <1>11 DEF EndInsert
    <3>3. /\ IsReport(main_data')
          /\ DOMAIN main_data' = DOMAIN main_data \union {cur}
          /\ \A j \in Indexes : At(main_data', j)
                                   = IF j = cur THEN 0 ELSE At(main_data, j)
      BY <3>1, <3>2
    <3> QED BY <2>1, <3>3
  <2>3. TypeOK'
    BY <1>11, <2>2 DEF EndInsert, TypeOK, console
  <2>4. Loops'
    BY <1>11, <2>2 DEF EndInsert, Loops, Has
  <2>5. Conserved'
    BY <1>0, <1>11, <2>2 DEF EndInsert, Conserved, Pending
  <2> QED BY <2>3, <2>4, <2>5
<1>12. CASE FillEntry
  <2>1. /\ cur \in Indexes /\ cur \in todo
        /\ At(main_data, cur) = main_data[cur]
        /\ At(report_data, cur) = report_data[cur]
    BY <1>0, <1>12 DEF FillEntry, TypeOK, Loops, At, Has
  <2>2. /\ IsReport(main_data')
        /\ \A j \in Indexes : At(main_data', j)
                                = IF j = cur
                                  THEN At(main_data, cur) + At(report_data, cur)
                                  ELSE At(main_data, j)
    <3> DEFINE n == main_data[cur] + report_data[cur]
    <3> HIDE DEF n
    <3>1. n \in Int /\ n = At(main_data, cur) + At(report_data, cur)
      BY <1>0, <2>1 DEF n
    <3>2. /\ IsReport(Put(main_data, cur, n))
          /\ \A j \in Indexes : At(Put(main_data, cur, n), j)
                                   = IF j = cur THEN n ELSE At(main_data, j)
      BY <1>reports, <2>1, <3>1, PutFacts
    <3>3. main_data' = Put(main_data, cur, n)
      BY <1>12 DEF FillEntry, n
    <3>4. /\ IsReport(main_data')
          /\ \A j \in Indexes : At(main_data', j)
                                   = IF j = cur THEN n ELSE At(main_data, j)
      BY <3>2, <3>3
    <3> QED BY <3>1, <3>4
  <2>3. TypeOK' /\ Loops'
    BY <1>12, <2>2 DEF FillEntry, TypeOK, Loops, console
  <2>4. ASSUME NEW j \in Indexes
        PROVE  At(main_data', j) + Pending(j)' = net'[j]
    <3>1. /\ Pending(j) = IF j \in todo THEN At(report_data, j) ELSE 0
          /\ Pending(j)' = IF j \in todo \ {cur} THEN At(report_data, j) ELSE 0
          /\ net'[j] = net[j]
      BY <1>12 DEF FillEntry, Pending
    <3> QED BY <1>0, <2>1, <2>2, <3>1
  <2> QED BY <2>3, <2>4 DEF Conserved
<1>13. CASE Console
  <2>1. UNCHANGED <<report_data, main_data, net, merger>>
    BY <1>13 DEF Console, DumpFirst, DumpNext, EndDump
  <2>2. Loops' /\ Conserved'
    BY <2>1 DEF Loops, Conserved, Pending, At, Has, merger
  <2>3. dumping' \in BOOLEAN /\ raced' \in BOOLEAN /\ at' \in Indexes \union {0}
        /\ shown' \in SUBSET Indexes /\ present' \in SUBSET Indexes
    BY <1>0, <1>13 DEF Console, DumpFirst, DumpNext, EndDump, TypeOK, Above
  <2> QED BY <2>1, <2>2, <2>3 DEF TypeOK, merger
<1>14. CASE UNCHANGED vars
  BY <1>14 DEF vars, merger, console, TypeOK, Loops, Conserved, Pending
<1> QED BY <1>2, <1>3, <1>4, <1>5, <1>6, <1>7, <1>8, <1>9, <1>10, <1>11, <1>12,
           <1>13, <1>14
        DEF Next, Worker, Merger

(* Every variable keeps its type. *)
THEOREM TypeCorrect == Spec => []TypeOK
<1> QED BY InvInit, InvStep, PTL DEF Spec

(* No record is lost or counted twice on its way to the main report. *)
THEOREM Conservation == Spec => []Conserved
<1> QED BY InvInit, InvStep, PTL DEF Spec
-----------------------------------------------------------------------------
(* The walk: what was there when it started is there still, and the lookup *)
(* above an index finds the least of those it has not been at.             *)
WalkInv ==
  /\ WalkIsComplete
  /\ dumping => present \subseteq DOMAIN main_data

LEMMA WalkInit == Init => WalkInv
BY DEF Init, WalkInv, WalkIsComplete

LEMMA WalkStep == TypeOK /\ WalkInv /\ [Next]_vars => WalkInv'
<1> SUFFICES ASSUME TypeOK, WalkInv, [Next]_vars PROVE WalkInv'
  OBVIOUS
<1>0. /\ DOMAIN main_data \subseteq Indexes /\ Indexes \subseteq Nat
      /\ present \subseteq Indexes /\ at \in Nat
  BY IndexesAssumption DEF TypeOK, IsReport
<1>1. CASE Worker \/ Merger \/ UNCHANGED vars
  <2>1. DOMAIN main_data \subseteq DOMAIN main_data' /\ UNCHANGED console
    BY <1>1 DEF Worker, Merger, add_record, del_record, BeginMerge, MergeEntry,
       PassEntry, BeginInsert, EndInsert, FillEntry, BeginClear, ClearEntry,
       EndClear, Put, vars
  <2> QED BY <2>1 DEF WalkInv, WalkIsComplete, console
<1>2. CASE DumpFirst
  <2>1. PICK i \in Indexes : IsLeast(DOMAIN main_data, i) /\ at' = i /\ shown' = {i}
    BY <1>2 DEF DumpFirst
  <2>2. present' = DOMAIN main_data /\ main_data' = main_data
    BY <1>2 DEF DumpFirst
  <2>3. ASSUME NEW p \in present', p <= at'
        PROVE  p \in shown'
    <3>1. p \in Nat /\ i \in Nat /\ i <= p /\ p <= i
      BY <1>0, <2>1, <2>2, <2>3 DEF IsLeast
    <3> QED BY <2>1, <3>1
  <2> QED BY <2>2, <2>3 DEF WalkInv, WalkIsComplete
<1>3. CASE DumpNext
  <2>1. PICK i \in Above(DOMAIN main_data, at) :
          /\ merger_pc = "insert" \/ IsLeast(Above(DOMAIN main_data, at), i)
          /\ at' = i
          /\ shown' = shown \union {i}
    BY <1>3 DEF DumpNext
  <2>2. /\ dumping /\ dumping' /\ present' = present /\ main_data' = main_data
        /\ raced' = (raced \/ merger_pc = "insert")
    BY <1>3 DEF DumpNext
  <2>3. ASSUME ~raced', NEW p \in present, p <= i
        PROVE  p \in shown'
    <3>1. ~raced /\ IsLeast(Above(DOMAIN main_data, at), i)
      BY <2>1, <2>2, <2>3
    <3>2. CASE p <= at
      BY <2>1, <2>2, <3>1, <3>2 DEF WalkInv, WalkIsComplete
    <3>3. CASE p > at
      <4>1. p \in Above(DOMAIN main_data, at)
        BY <2>2, <3>3 DEF WalkInv, Above
      <4>2. i <= p
        BY <3>1, <4>1 DEF IsLeast
      <4>3. i = p
        <5>1. i \in Nat /\ p \in Nat
          BY <1>0, <2>1, <2>3 DEF Above
        <5> QED BY <2>3, <4>2, <5>1
      <4> QED BY <2>1, <4>3
    <3> QED BY <1>0, <3>2, <3>3
  <2> QED BY <2>1, <2>2, <2>3 DEF WalkInv, WalkIsComplete
<1>4. CASE EndDump
  BY <1>4 DEF EndDump, WalkInv, WalkIsComplete
<1> QED BY <1>1, <1>2, <1>3, <1>4 DEF Next, Console

(* The console's walk leaves no index out, unless a lookup was in a race. *)
THEOREM CompleteWalk == Spec => []WalkIsComplete
<1>1. WalkInv => WalkIsComplete
  BY DEF WalkInv
<1> QED BY <1>1, TypeCorrect, WalkInit, WalkStep, PTL DEF Spec
=============================================================================
