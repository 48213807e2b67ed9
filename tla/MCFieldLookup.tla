---------------------------- MODULE MCFieldLookup ----------------------------
(* Tables for TLC: every table of up to MaxRanges ranges of up to MaxSize     *)
(* numbers, one apart or none, tables of names of every length up to 9, and  *)
(* the two tables of Pinba.Request (pinba.pb-c.c).                           *)
EXTENDS FieldLookup, FiniteSetsExt, Functions

CONSTANTS MaxRanges, MaxSize

(* pinba__request__field_indices_by_name, and the order of the names.       *)
FieldsByName ==
  <<14, 4, 0, 16, 5, 3, 6, 17, 8, 7, 18, 2, 1, 15, 19, 20, 9, 22, 21, 11, 12, 13, 10>>

RequestNames ==
  [n |-> 23, name |-> [k \in 0 .. 22 |-> k], field |-> [k \in 0 .. 22 |-> FieldsByName[k + 1]]]

(* pinba__request__number_ranges *)
RequestRanges ==
  [n |-> 1, start_value |-> [k \in 0 .. 1 |-> 1 - k], orig_index |-> [k \in 0 .. 1 |-> 23 * k]]

(* The ranges that follow from the numbers in each, and before each. *)
Sum(f, k) == SumFunctionOnSet(f, {j \in DOMAIN f : j < k})

RangeTable(m, size, gap) ==
  [n |-> m,
   start_value |-> [k \in 0 .. m |-> IF k = m THEN 0 ELSE Sum(size, k) + Sum(gap, k + 1)],
   orig_index |-> [k \in 0 .. m |-> Sum(size, k)]]

Tables(m) ==
  {RangeTable(m, size, gap) :
     size \in [0 .. m - 1 -> 1 .. MaxSize], gap \in [0 .. m - 1 -> 0 .. 1]}

MCRangeTables == {RequestRanges} \union UNION {Tables(m) : m \in 0 .. MaxRanges}

(* A name that is not there falls between two that are. *)
MCNameTables ==
  {RequestNames}
    \union {[n |-> m,
             name |-> [k \in 0 .. m - 1 |-> 2 * k + 1],
             field |-> [k \in 0 .. m - 1 |-> m - 1 - k]] : m \in 0 .. 9}

MCWanted == -1 .. 24
=============================================================================
