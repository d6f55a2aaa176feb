------------------------------ MODULE MCBringup ------------------------------
(* The bring-up of four specs on one chain each. *)
EXTENDS ProgramText
=============================================================================
