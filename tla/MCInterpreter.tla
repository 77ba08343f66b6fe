--------------------------- MODULE MCInterpreter ---------------------------
(***************************************************************************)
(* Instances of the interpreter for TLC.                                   *)
(***************************************************************************)
EXTENDS InterpreterProperties
=============================================================================
