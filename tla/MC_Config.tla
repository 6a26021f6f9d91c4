------------------------------- MODULE MC_Config -------------------------------
(***************************************************************************)
(* Instances of Config for TLC: up to three hosts, two names, and port     *)
(* numbers on both sides of 16 bits.                                       *)
(***************************************************************************)
EXTENDS Config, TLC

NameSymmetry == Permutations(Name)
================================================================================
