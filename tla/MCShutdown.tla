----------------------------- MODULE MCShutdown -----------------------------
(* Shutdown for TLC: two calls of send_order(), their cancels, and one     *)
(* closing order per symbol.                                               *)
EXTENDS Shutdown

Ids == { OrdId(n) : n \in 0..1 } \cup { CancelId(n) : n \in 1..2 } \cup { FlatId(1) }
=============================================================================
