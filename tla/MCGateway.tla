------------------------------ MODULE MCGateway ------------------------------
(* Gateway for TLC: the order ids of one or two calls. *)
EXTENDS Gateway

OneOrder  == { OrdId(n) : n \in 0..0 }
TwoOrders == { OrdId(n) : n \in 0..1 }
=============================================================================
