------------------------- MODULE MCWarehouseLedger -------------------------
(* Instances of WarehouseLedger for TLC. *)
EXTENDS WarehouseLedger, TLC

NeedTwo == [o \in Orders |-> 2]
HandlerSymmetry == Permutations(Handlers)
OrderSymmetry == Permutations(Orders)
=============================================================================
