--------------------------- MODULE MCPluginLifecycle ---------------------------
(* Two IDs: one is ours, and the other is a connection whose end has not been *)
(* told yet, an object that outlived its shell or one whose registration is   *)
(* stranded.                                                                  *)
EXTENDS PluginLifecycle

MCIds == 1 .. 2
===============================================================================
