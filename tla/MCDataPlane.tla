---------------------------- MODULE MCDataPlane ----------------------------
(* Small instances of DataPlane for TLC: see the .cfg files.               *)
EXTENDS DataPlane, TLC

\* Engines are interchangeable: no definition names one.
EngineSymmetry == Permutations(Engines)
=============================================================================
