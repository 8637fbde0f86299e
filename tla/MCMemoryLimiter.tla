-------------------------- MODULE MCMemoryLimiter --------------------------
(* Small instances of MemoryLimiter for TLC.                               *)
EXTENDS MemoryLimiter, TLC

MCLimit == [d \in Dims |-> CASE d = "requests" -> 2 [] d = "prompt" -> 3 [] d = "generated" -> 2]

\* One request a minute.
MCLimitOne == [MCLimit EXCEPT !["requests"] = 1]

Symmetry == Permutations(Ids)
=============================================================================
