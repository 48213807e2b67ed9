----------------------------- MODULE FieldLookup -----------------------------
(***************************************************************************)
(* How a field of a message is found in its descriptor (protobuf-c.h): by  *)
(* its number, int_range_lookup in the ranges of numbers that have no gap, *)
(* or by its name, get_field_by_name in the table of the fields sorted by  *)
(* name.  Both are binary searches over an array indexed from 0, halved    *)
(* around its middle, and a loop round is a step here.                     *)
(*                                                                         *)
(* A table of ranges has an entry after the last one, for its orig_index   *)
(* only: a range ends where the next one's indices begin.  A name is its   *)
(* place in the order of strcmp.                                           *)
(***************************************************************************)
EXTENDS Integers

CONSTANTS
  RangeTables,  (* tables of ranges: n, start_value and orig_index *)
  NameTables,   (* tables of names: n, the sorted names, the field of each *)
  Wanted        (* the numbers and the names that are looked up *)

RangeSize(t, k) == t.orig_index[k + 1] - t.orig_index[k]
RangeEnd(t, k) == t.start_value[k] + RangeSize(t, k)

(* The ranges protoc writes: not empty, rising, one after the other. *)
IsRangeTable(t) ==
  /\ t.n \in Nat
  /\ t.start_value \in [0 .. t.n -> Int]
  /\ t.orig_index \in [0 .. t.n -> Nat]
  /\ t.orig_index[0] = 0
  /\ \A k \in 0 .. t.n - 1 : RangeSize(t, k) > 0
  /\ \A j, k \in 0 .. t.n - 1 : j < k => RangeEnd(t, j) <= t.start_value[k]

IsNameTable(t) ==
  /\ t.n \in Nat
  /\ t.name \in [0 .. t.n - 1 -> Int]
  /\ t.field \in [0 .. t.n - 1 -> Nat]
  /\ \A j, k \in 0 .. t.n - 1 : j < k => t.name[j] < t.name[k]

ASSUME TablesAssumption ==
  /\ \A t \in RangeTables : IsRangeTable(t)
  /\ \A t \in NameTables : IsNameTable(t)
  /\ Wanted \subseteq Int

NotFound == -1

VARIABLES
  by,      (* "number" or "name" *)
  table,
  wanted,
  start,   (* the first entry that may still be the one *)
  n,       (* how many entries may be: `n', or `count' *)
  done,
  result   (* the index of the field, or NotFound *)

lookup_vars == <<by, table, wanted, start, n, done, result>>

LookupInit ==
  /\ \/ by = "number" /\ table \in RangeTables
     \/ by = "name" /\ table \in NameTables
  /\ wanted \in Wanted
  /\ start = 0
  /\ n = table.n
  /\ done = FALSE
  /\ result = NotFound

mid == start + n \div 2

Lower ==
  /\ n' = mid - start
  /\ UNCHANGED <<by, table, wanted, start, done, result>>

Upper ==
  /\ start' = mid + 1
  /\ n' = start + n - (mid + 1)
  /\ UNCHANGED <<by, table, wanted, done, result>>

Return(r) ==
  /\ done' = TRUE
  /\ result' = r
  /\ UNCHANGED <<by, table, wanted, start, n>>
-----------------------------------------------------------------------------
IsInRange(k) == table.start_value[k] <= wanted /\ wanted < RangeEnd(table, k)
Index(k) == wanted - table.start_value[k] + table.orig_index[k]

(* Mutant: the number after a range is taken to be in it. *)
HalveRanges_inclusive ==
  /\ by = "number" /\ ~done /\ n > 1
  /\ \/ wanted < table.start_value[mid] /\ Lower
     \/ wanted > RangeEnd(table, mid) /\ Upper
     \/ /\ table.start_value[mid] <= wanted /\ wanted <= RangeEnd(table, mid)
        /\ Return(Index(mid))

HalveRanges ==
  /\ by = "number" /\ ~done /\ n > 1
  /\ \/ wanted < table.start_value[mid] /\ Lower
     \/ wanted >= RangeEnd(table, mid) /\ Upper
     \/ IsInRange(mid) /\ Return(Index(mid))

LastRange ==
  /\ by = "number" /\ ~done /\ n <= 1
  /\ Return(IF n > 0 /\ IsInRange(start) THEN Index(start) ELSE NotFound)

HalveNames ==
  /\ by = "name" /\ ~done /\ n > 1
  /\ \/ table.name[mid] < wanted /\ Upper
     \/ table.name[mid] > wanted /\ Lower
     \/ table.name[mid] = wanted /\ Return(table.field[mid])

LastName ==
  /\ by = "name" /\ ~done /\ n <= 1
  /\ Return(IF n > 0 /\ table.name[start] = wanted THEN table.field[start] ELSE NotFound)

LookupNext == HalveRanges \/ LastRange \/ HalveNames \/ LastName

LookupSpec == LookupInit /\ [][LookupNext]_lookup_vars
-----------------------------------------------------------------------------
(* The entry that has what is wanted. *)
Has(k) == IF by = "number" THEN IsInRange(k) ELSE table.name[k] = wanted
FieldOf(k) == IF by = "number" THEN Index(k) ELSE table.field[k]

(* The entries left are entries of the table, so is the middle of them: no  *)
(* entry but the table's own is read.                                       *)
LookupTypeOK ==
  /\ by \in {"number", "name"}
  /\ wanted \in Wanted
  /\ start \in 0 .. table.n
  /\ n \in 0 .. table.n - start
  /\ n > 1 => mid \in 0 .. table.n - 1
  /\ done \in BOOLEAN
  /\ result \in Nat \union {NotFound}

(***************************************************************************)
(* The search finds the field when there is one, and nothing when there is *)
(* none, in every table: no entry between two halves is passed over, the   *)
(* first and the last one included.                                        *)
(***************************************************************************)
FindsTheField ==
  done =>
    /\ \A k \in 0 .. table.n - 1 : Has(k) => result = FieldOf(k)
    /\ (\A k \in 0 .. table.n - 1 : ~Has(k)) => result = NotFound
=============================================================================
