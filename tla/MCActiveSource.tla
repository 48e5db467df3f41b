----------------------------- MODULE MCActiveSource -----------------------------
(* Two inputs of the display: this device moves between them, or another one  *)
(* has the second.                                                            *)
EXTENDS ActiveSource, TLC

Symmetry == Permutations(Addrs) \cup Permutations(Workers)
===============================================================================
