------------------------------ MODULE KeyChannel ------------------------------
(***************************************************************************)
(* What SendKeyPressEvent promises to its callers: a key whose post        *)
(* succeeded is handled at most once and in the order of the posts, only   *)
(* keys the API accepts are ever handled, and a device that saw the press  *)
(* of a key also sees its release.  A handled key need not have reached    *)
(* the bus: without a connection the key thread discards it.               *)
(***************************************************************************)
EXTENDS Naturals, Sequences

CONSTANT Keys  \* the keys SendKeyPressEvent accepts

VARIABLES accepted,  \* keys posted with success, in order
          handled    \* keys the thread is done with, and what was sent of each

vars == <<accepted, handled>>

Outcome == {o \in [press : BOOLEAN, release : BOOLEAN] : o.press => o.release}

Init == accepted = <<>> /\ handled = <<>>

Accept(k) ==
    /\ accepted' = Append(accepted, k)
    /\ UNCHANGED handled

Handle(o) ==
    /\ Len(handled) < Len(accepted)
    /\ handled' = Append(handled, [key |-> accepted[Len(handled) + 1],
                                   press |-> o.press, release |-> o.release])
    /\ UNCHANGED accepted

Next == \/ \E k \in Keys : Accept(k)
        \/ \E o \in Outcome : Handle(o)

Spec == Init /\ [][Next]_vars
===============================================================================
