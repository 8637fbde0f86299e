-------------------------- MODULE MCModelLifecycle --------------------------
(* One model, so that every step of the workflows meets every other.       *)
EXTENDS ModelLifecycle
=============================================================================
