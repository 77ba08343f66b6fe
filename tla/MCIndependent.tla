--------------------------- MODULE MCIndependent ---------------------------
(* Groups of two threads and a few keys: see Independent.cfg and              *)
(* IndependentNil.cfg.                                                         *)
EXTENDS IndependentProperties

CONSTANTS k1, k2, k3, k4, k5

MCKeyOrder == <<k1, k2, k3, k4, k5>>
MCShortOrder == <<k1, k2, k3>>
============================================================================
