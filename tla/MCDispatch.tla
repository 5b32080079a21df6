----------------------------- MODULE MCDispatch -----------------------------
(***************************************************************************)
(* CallbackDispatch for TLC: no script is distinguished from another, so    *)
(* behaviours that differ only in which is which are checked once.  All     *)
(* its properties are about single states or steps, for which that is sound.*)
(***************************************************************************)
EXTENDS CallbackDispatch, TLC

ScriptSymmetry == Permutations(Scripts)
=============================================================================
