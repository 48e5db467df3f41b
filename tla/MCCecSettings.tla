------------------------------ MODULE MCCecSettings ------------------------------
(* Two names, the default vendor ID and one that is cut; clients are alike. *)
EXTENDS CecSettings, TLC

Symmetric == Permutations(Callers)

\* Setters of different keys share nothing but the file, of which each changes its
\* own key in one step: two setters at work are explored further on one key only.
OneKey ==
    \A c, d \in Callers :
        call[c].step # "none" /\ call[d].step # "none" => call[c].key = call[d].key
===============================================================================
