--------------------------- MODULE MCTokenBudget ---------------------------
(* A small instance of TokenBudget for TLC: an empty text, texts whose words *)
(* or whose characters decide, and limits around what they count for.       *)
EXTENDS TokenBudget

MCTexts == {[words |-> 0, chars |-> 0], [words |-> 1, chars |-> 9]}
MCContexts == {0, 1, 2, 3, 8, 9, 16}
MCOutputs == {0, 1, 3, 9}
=============================================================================
