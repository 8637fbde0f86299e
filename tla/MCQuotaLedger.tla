--------------------------- MODULE MCQuotaLedger ---------------------------
(* A small instance of QuotaLedger for TLC.                                *)
EXTENDS QuotaLedger, TLC

MCLimit == [d \in Dims |-> CASE d = "requests" -> 2 [] d = "prompt" -> 2 [] d = "generated" -> 3]

Symmetry == Permutations(Ids)
=============================================================================
