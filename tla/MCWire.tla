------------------------------- MODULE MCWire -------------------------------
(* Small instances of Wire. *)
EXTENDS Wire, TLC

CONSTANTS x, y, b1, b2

MCBytes  == {x, y}
MCBlocks == {b1, b2}

Symmetric == Permutations(MCBlocks) \cup Permutations(MCBytes)
=============================================================================
