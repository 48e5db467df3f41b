---------------------------- MODULE MCNotifications ----------------------------
(* Three clients, so that one has a neighbour on either side; clients are     *)
(* alike, and so are threads.                                                 *)
EXTENDS Notifications, TLC

Symmetric == Permutations(Clients) \cup Permutations(Tellers)
===============================================================================
