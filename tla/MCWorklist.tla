----------------------------- MODULE MCWorklist -----------------------------
(***************************************************************************)
(* Instances of Worklist for TLC.                                          *)
(***************************************************************************)
EXTENDS Worklist

(* Report ids come from a sequence.                                        *)
CONSTANT MaxId
SomeIds == 1 .. MaxId

(* "other" (0.30) and "conflict" (0.95): the two ends of the taxonomy.     *)
SomeSeverities == {30, 95}

(* No filter, and one that the flag moves an "other" report across.        *)
SomeMinima == {0, 20}
=============================================================================
