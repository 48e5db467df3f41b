----------------------------- MODULE MCCecAddresses -----------------------------
(* A display of LG and another one at another port; hot-plug threads are alike. *)
EXTENDS CecAddresses, TLC

MCDisplays == {[physical |-> 1, lg |-> TRUE], [physical |-> 2, lg |-> FALSE]}
Symmetric == Permutations(HotPlugs)
===============================================================================
