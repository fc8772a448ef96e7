-------------------------- MODULE MCPositionLedger --------------------------
(***************************************************************************)
(* Small instance of PositionLedger: two symbols compete for one slot.     *)
(***************************************************************************)
EXTENDS PositionLedger

SymbolSymmetry == Permutations(Symbols)
=============================================================================
