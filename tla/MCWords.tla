------------------------------ MODULE MCWords ------------------------------
(***************************************************************************)
(* All pairs of words of four bits, for TLC.                               *)
(***************************************************************************)
EXTENDS Words
=============================================================================
