---------------------------- MODULE MCHostSession ----------------------------
(***************************************************************************)
(* An instance of HostSession for TLC.  The user's messages differ in      *)
(* nothing but their ids, so permuting them is a symmetry.                 *)
(***************************************************************************)
EXTENDS HostSession

Symmetry == Permutations(Commands)
=============================================================================
