------------------------------ MODULE MCKeySender ------------------------------
(* Two keys that are accepted, one address and one key code that are not. *)
EXTENDS KeySender

MCRequests == {[logicalAddr |-> 0, keyCode |-> 65], [logicalAddr |-> 15, keyCode |-> 13],
               [logicalAddr |-> 16, keyCode |-> 65], [logicalAddr |-> 4, keyCode |-> 99]}
===============================================================================
