------------------------------- MODULE MCVarint -------------------------------
(* The words for TLC: every run of 1 bits between two of the chosen          *)
(* positions, which are those on either side of a byte, of a group of 7 bits *)
(* and of the sign.                                                          *)
EXTENDS Varint

Runs(ends) == {{}} \union {a .. b : a \in ends, b \in ends}

MCWords32 == Runs({0, 1, 6, 7, 8, 13, 14, 20, 21, 27, 28, 30, 31})

MCWords64 ==
  Runs({0, 6, 7, 20, 21, 27, 28, 31, 32, 34, 35, 36, 41, 42, 48, 49, 55, 56, 62, 63})
=============================================================================
