---------------------------- MODULE MCDataServer ----------------------------
(***************************************************************************)
(* Instances of DataServer for TLC.                                        *)
(***************************************************************************)
EXTENDS DataServer

CONSTANTS r1, r2, r3
=============================================================================
