------------------------------ MODULE MCServices ------------------------------
(* A guest with nothing, with a credit, or with a debt. *)
EXTENDS Services

MCOpenings == {0, 1, -1}

(* Card payments have by far the most interleavings. *)
MCDeskRequests == [d \in Desks |-> IF d = "card" THEN 3 ELSE 4]
=============================================================================
