---------------------------- MODULE MCGdbSession ----------------------------
(* Model values of GdbSession for TLC.                                      *)
EXTENDS GdbSession, TLC

\* The crash breakpoints differ in nothing but their names.
SpecSymmetry == Permutations(Specs)
=============================================================================
