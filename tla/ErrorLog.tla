------------------------------- MODULE ErrorLog -------------------------------
(***************************************************************************)
(* pinba_error_ex (main.cc): any thread writes a line to stderr, one at a  *)
(* time, unless it is the line before over again and the clock shows less  *)
(* than a second more.  The clock is the wall clock: it is set forward or  *)
(* back under the threads.                                                 *)
(*                                                                         *)
(* A message is the text that vsnprintf made of it.  Called for a copy of  *)
(* the text (return_error) the function does nothing else.  `now', `back'  *)
(* and `line' are not in the code: the seconds that really passed, those   *)
(* the clock was set back by, and the last line of stderr.                 *)
(***************************************************************************)
EXTENDS Integers

CONSTANTS
  Threads,
  Messages,
  NoMessage,  (* last_errormsg at first: no message is empty *)
  NoThread,   (* nobody holds error_mutex *)
  MaxSeconds, (* bound on the clock *)
  MaxNow,     (* bound on the seconds that pass *)
  MaxBack     (* bound on the seconds the clock is set back by, in all *)

ASSUME BoundsAssumption == MaxSeconds \in Nat /\ MaxNow \in Nat /\ MaxBack \in Nat
ASSUME NoMessageAssumption == NoMessage \notin Messages
ASSUME NoThreadAssumption == NoThread \notin Threads

VARIABLES
  time,             (* time(NULL) *)
  now,
  back,
  error_mutex,
  last_error_time,
  last_errormsg,
  step,             (* per thread: "idle", "lock", "time", "compare" *)
  errormsg,         (* per thread: the text of its call *)
  time_read,        (* per thread: t, and when that was *)
  line              (* the last line: its text, and when its time was read *)

log_vars == <<time, now, back, error_mutex, last_error_time, last_errormsg, step,
              errormsg, time_read, line>>

(* What the clock shows, and when. *)
Reading == [t |-> time, now |-> now, back |-> back]
Epoch == [t |-> 0, now |-> 0, back |-> 0]

LogInit ==
  /\ time \in 0 .. MaxSeconds
  /\ now = 0
  /\ back = 0
  /\ error_mutex = NoThread
  /\ last_error_time = 0
  /\ last_errormsg = NoMessage
  /\ step = [th \in Threads |-> "idle"]
  /\ errormsg = [th \in Threads |-> NoMessage]
  /\ time_read = [th \in Threads |-> Epoch]
  /\ line = [text |-> NoMessage, read |-> Epoch]
-----------------------------------------------------------------------------
PassSecond ==
  /\ now < MaxNow /\ time < MaxSeconds
  /\ time' = time + 1
  /\ now' = now + 1
  /\ UNCHANGED <<back, error_mutex, last_error_time, last_errormsg, step, errormsg,
                 time_read, line>>

SetForward(c) ==
  /\ c > time
  /\ time' = c
  /\ UNCHANGED <<now, back, error_mutex, last_error_time, last_errormsg, step, errormsg,
                 time_read, line>>

SetBack(c) ==
  /\ c < time
  /\ back + (time - c) <= MaxBack
  /\ time' = c
  /\ back' = back + (time - c)
  /\ UNCHANGED <<now, error_mutex, last_error_time, last_errormsg, step, errormsg,
                 time_read, line>>

Goto(th, from, to) == step[th] = from /\ step' = [step EXCEPT ![th] = to]

Call(th, m) ==
  /\ Goto(th, "idle", "lock")
  /\ errormsg' = [errormsg EXCEPT ![th] = m]
  /\ UNCHANGED <<time, now, back, error_mutex, last_error_time, last_errormsg, time_read, line>>

(* Mutant: the mutex is not waited for. *)
Lock_barging(th) ==
  /\ Goto(th, "lock", "time")
  /\ error_mutex' = th
  /\ UNCHANGED <<time, now, back, last_error_time, last_errormsg, errormsg, time_read, line>>

Lock(th) ==
  /\ error_mutex = NoThread
  /\ Goto(th, "lock", "time")
  /\ error_mutex' = th
  /\ UNCHANGED <<time, now, back, last_error_time, last_errormsg, errormsg, time_read, line>>

ReadClock(th) ==
  /\ Goto(th, "time", "compare")
  /\ time_read' = [time_read EXCEPT ![th] = Reading]
  /\ UNCHANGED <<time, now, back, error_mutex, last_error_time, last_errormsg, errormsg, line>>

(* Mutant: a second and less. *)
IsRepeated_second(th) == time_read[th].t - last_error_time <= 1 /\ last_errormsg = errormsg[th]

(* (t - last_error_time) < 1 && strcmp(last_errormsg, errormsg) == 0 *)
IsRepeated(th) == time_read[th].t - last_error_time < 1 /\ last_errormsg = errormsg[th]

(* Mutant: the early return keeps the mutex. *)
Drop_locked(th) ==
  /\ IsRepeated(th)
  /\ Goto(th, "compare", "idle")
  /\ UNCHANGED <<time, now, back, error_mutex, last_error_time, last_errormsg, errormsg, time_read, line>>

Drop(th) ==
  /\ IsRepeated(th)
  /\ Goto(th, "compare", "idle")
  /\ error_mutex' = NoThread
  /\ UNCHANGED <<time, now, back, last_error_time, last_errormsg, errormsg, time_read, line>>

(* Mutant: the time of the last message is not kept. *)
WriteLine_timeless(th) ==
  /\ ~IsRepeated(th)
  /\ Goto(th, "compare", "idle")
  /\ last_errormsg' = errormsg[th]
  /\ line' = [text |-> errormsg[th], read |-> time_read[th]]
  /\ error_mutex' = NoThread
  /\ UNCHANGED <<time, now, back, last_error_time, errormsg, time_read>>

WriteLine(th) ==
  /\ ~IsRepeated(th)
  /\ Goto(th, "compare", "idle")
  /\ last_error_time' = time_read[th].t
  /\ last_errormsg' = errormsg[th]
  /\ line' = [text |-> errormsg[th], read |-> time_read[th]]
  /\ error_mutex' = NoThread
  /\ UNCHANGED <<time, now, back, errormsg, time_read>>

Holds(th) == ReadClock(th) \/ Drop(th) \/ WriteLine(th)

LogNext ==
  \/ PassSecond
  \/ \E c \in 0 .. MaxSeconds : SetForward(c) \/ SetBack(c)
  \/ \E th \in Threads : (\E m \in Messages : Call(th, m)) \/ Lock(th) \/ Holds(th)

LogSpec == LogInit /\ [][LogNext]_log_vars

(* A thread that has the mutex waits for nothing until it gives it back. *)
LogFairSpec == LogSpec /\ \A th \in Threads : WF_log_vars(Holds(th))
-----------------------------------------------------------------------------
Readings == [t : Nat, now : Nat, back : Nat]

LogTypeOK ==
  /\ time \in Nat /\ now \in Nat /\ back \in Nat
  /\ error_mutex \in Threads \union {NoThread}
  /\ last_error_time \in Nat
  /\ last_errormsg \in Messages \union {NoMessage}
  /\ step \in [Threads -> {"idle", "lock", "time", "compare"}]
  /\ errormsg \in [Threads -> Messages \union {NoMessage}]
  /\ time_read \in [Threads -> Readings]
  /\ line \in [text : Messages \union {NoMessage}, read : Readings]

(* The seconds that passed from reading q to reading r, and those the clock  *)
(* was set back by meanwhile.                                               *)
Passed(q, r) == r.now - q.now
SetBackBy(q, r) == r.back - q.back

(***************************************************************************)
(* A message that is dropped is the last line of stderr: nothing is lost   *)
(* that the log does not end with.  And that line is not old: no more      *)
(* seconds have passed since it than the clock was set back by; none, when *)
(* it was not.  The silence after the clock is set back by an hour is an   *)
(* hour, not for ever, and another message ends it.                        *)
(***************************************************************************)
DropsOnlyRepeats ==
  [][\A th \in Threads : step[th] = "compare" /\ step'[th] = "idle" /\ line' = line =>
       /\ errormsg[th] = line.text
       /\ Passed(line.read, time_read[th]) <= SetBackBy(line.read, time_read[th])]_log_vars

(* The same line does not follow itself within a second of the clock, from  *)
(* whichever threads it comes.                                              *)
NotTwiceASecond ==
  [][line' # line /\ line'.text = line.text => line'.read.t >= line.read.t + 1]_log_vars

(* The lines of stderr are in the order of their times, but for what the    *)
(* clock was set back by between the two.                                   *)
InOrder ==
  [][line' # line =>
       line'.read.t >= line.read.t - SetBackBy(line.read, line'.read)]_log_vars

(* error_mutex is given back, on either way out. *)
LogIsFree == error_mutex # NoThread ~> error_mutex = NoThread
=============================================================================
