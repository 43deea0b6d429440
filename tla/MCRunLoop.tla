----------------------------- MODULE MCRunLoop ------------------------------
(***************************************************************************)
(* Small instances of RunLoop for TLC.  The costs are scaled down: an      *)
(* instruction takes one or two cycles and an interrupt three.             *)
(***************************************************************************)
EXTENDS RunLoop

MCCost == [a \in PCs |-> IF a = 1 THEN 2 ELSE 1]
=============================================================================
