----------------------------- MODULE WorkerClock -----------------------------
(***************************************************************************)
(* When a worker swaps its lists (pinba_worker_loop, worker.cc): on the    *)
(* wall clock, which may be set at any time, and only at the top of the    *)
(* loop.  Pinba has for it a flag that is set some day; this is the time   *)
(* itself, in the code's struct timeval, for one worker.                   *)
(*                                                                         *)
(* elapsed, set, read and swapped are not in the code: the microseconds    *)
(* that really passed, by how much the clock differs from them, and both   *)
(* as they were when the clock was last read and when the lists were       *)
(* last swapped.                                                           *)
(***************************************************************************)
EXTENDS Integers

CONSTANTS
  Million,   (* 1000000, the microseconds in a second *)
  Periods,   (* what the loop may be called with *)
  Settings,  (* what the clock may be set to *)
  Chunks,    (* the lists of a container *)
  MaxTime    (* bound on the microseconds that pass *)

ASSUME MillionAssumption == Million \in Nat \ {0}
ASSUME ChunksAssumption == Chunks \in Nat
ASSUME MaxTimeAssumption == MaxTime \in Nat

Timeval == [tv_sec : Nat, tv_usec : 0 .. Million - 1]

ASSUME PeriodsAssumption == Periods \subseteq Timeval
ASSUME SettingsAssumption == Settings \subseteq Timeval

VARIABLES
  pc,       (* "top": of the loop, "compare", "recv" *)
  period,
  clock,    (* what gettimeofday gives *)
  cur,
  next,
  reports,  (* the worker has a list *)
  empty,    (* how many lists get_emty_list could still give *)
  elapsed,
  set,
  read,
  swapped

vars == <<pc, period, clock, cur, next, reports, empty, elapsed, set, read, swapped>>

Val(t) == t.tv_sec * Million + t.tv_usec

(* Mutant: the carry is lost. *)
timeradd_lossy(a, b) ==
  [tv_sec |-> a.tv_sec + b.tv_sec, tv_usec |-> (a.tv_usec + b.tv_usec) % Million]

timeradd(a, b) ==
  LET usec == a.tv_usec + b.tv_usec
  IN  IF usec >= Million
      THEN [tv_sec |-> a.tv_sec + b.tv_sec + 1, tv_usec |-> usec - Million]
      ELSE [tv_sec |-> a.tv_sec + b.tv_sec, tv_usec |-> usec]

(* timercmp(a, b, <) *)
IsBefore(a, b) ==
  IF a.tv_sec = b.tv_sec THEN a.tv_usec < b.tv_usec ELSE a.tv_sec < b.tv_sec

Zero == [tv_sec |-> 0, tv_usec |-> 0]

Init ==
  /\ pc = "top"
  /\ period \in Periods
  /\ clock \in Settings
  /\ cur = Zero
  /\ next = Zero
  /\ reports = FALSE
  /\ empty = Chunks
  /\ elapsed = 0
  /\ set = Val(clock)
  /\ read = [at |-> 0, set |-> 0]
  /\ swapped = [at |-> 0, set |-> 0]
-----------------------------------------------------------------------------
GetTimeOfDay ==
  /\ pc = "top"
  /\ cur' = clock
  /\ read' = [at |-> elapsed, set |-> set]
  /\ pc' = "compare"
  /\ UNCHANGED <<period, clock, next, reports, empty, elapsed, set, swapped>>

(* The list held till now becomes a full one. *)
SwapLists ==
  /\ pc = "compare"
  /\ IsBefore(next, cur)
  /\ empty > 0
  /\ empty' = empty - 1
  /\ reports' = TRUE
  /\ next' = timeradd(cur, period)
  /\ swapped' = read
  /\ pc' = "recv"
  /\ UNCHANGED <<period, clock, cur, elapsed, set, read>>

(* Mutant: the period begins anew when there is no empty list. *)
KeepList_anew ==
  /\ pc = "compare"
  /\ ~ IsBefore(next, cur) \/ empty = 0
  /\ next' = IF IsBefore(next, cur) THEN timeradd(cur, period) ELSE next
  /\ pc' = "recv"
  /\ UNCHANGED <<period, clock, cur, reports, empty, elapsed, set, read, swapped>>

(* It is not time, or there is no empty list. *)
KeepList ==
  /\ pc = "compare"
  /\ ~ IsBefore(next, cur) \/ empty = 0
  /\ pc' = "recv"
  /\ UNCHANGED <<period, clock, cur, next, reports, empty, elapsed, set, read, swapped>>

(* recv returns, with a datagram or an error. *)
Receive ==
  /\ pc = "recv"
  /\ pc' = "top"
  /\ UNCHANGED <<period, clock, cur, next, reports, empty, elapsed, set, read, swapped>>

(* The merger gives a list back. *)
ReturnEmptyList ==
  /\ empty + (IF reports THEN 1 ELSE 0) < Chunks
  /\ empty' = empty + 1
  /\ UNCHANGED <<pc, period, clock, cur, next, reports, elapsed, set, read, swapped>>

Tick ==
  /\ elapsed < MaxTime
  /\ elapsed' = elapsed + 1
  /\ clock' = timeradd(clock, [tv_sec |-> 0, tv_usec |-> 1])
  /\ UNCHANGED <<pc, period, cur, next, reports, empty, set, read, swapped>>

SetClock(t) ==
  /\ clock' = t
  /\ set' = Val(t) - elapsed
  /\ UNCHANGED <<pc, period, cur, next, reports, empty, elapsed, read, swapped>>

Next ==
  \/ GetTimeOfDay
  \/ SwapLists
  \/ KeepList
  \/ Receive
  \/ ReturnEmptyList
  \/ Tick
  \/ \E t \in Settings : SetClock(t)

Spec == Init /\ [][Next]_vars
-----------------------------------------------------------------------------
Moment == [at : 0 .. MaxTime, set : Int]

TypeOK ==
  /\ pc \in {"top", "compare", "recv"}
  /\ period \in Periods
  /\ clock \in Timeval
  /\ cur \in Timeval
  /\ next \in Timeval
  /\ reports \in BOOLEAN
  /\ empty \in 0 .. Chunks
  /\ elapsed \in 0 .. MaxTime
  /\ set \in Int
  /\ read \in Moment
  /\ swapped \in Moment

Waited == read.at - swapped.at

(* By how much the clock was set forward since, or back if negative. *)
Forward == read.set - swapped.set

(***************************************************************************)
(* A list is not full before its period is over: it is handed in only when *)
(* more time has passed, but for what the clock was set forward by.        *)
(***************************************************************************)
NotBeforeThePeriod ==
  [][SwapLists /\ reports => Waited > Val(period) - Forward]_vars

(***************************************************************************)
(* Nor does the worker keep its list any longer, once it gets to the top   *)
(* of the loop and finds an empty one, than the clock was set back by;     *)
(* and that however often there was no empty list before.  It goes without *)
(* a list only on a clock that stands at zero.                             *)
(***************************************************************************)
NotLaterThanTheClock ==
  [][KeepList /\ empty > 0 =>
       IF reports THEN Waited <= Val(period) - Forward ELSE cur = Zero]_vars
=============================================================================
