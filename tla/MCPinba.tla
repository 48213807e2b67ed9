------------------------------- MODULE MCPinba -------------------------------
(* Pinba on a few requests; request n falls under index n modulo 2. *)
EXTENDS Pinba

MCIndex == [r \in Requests |-> r % 2]
=============================================================================
