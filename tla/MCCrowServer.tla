---------------------------- MODULE MCCrowServer ----------------------------
(***************************************************************************)
(* CrowServer for TLC.  No step tells the connections apart but by their   *)
(* phases, workers and deadlines, so their permutations are symmetries;    *)
(* nothing but invariants and action properties is checked with them.      *)
(***************************************************************************)
EXTENDS CrowServer, TLC

Symmetry == Permutations(Connection)
=============================================================================
