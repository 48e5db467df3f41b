------------------------------ MODULE MCCecThreads ------------------------------
(* The instances are in the .cfg files: one or two addresses to scan, one     *)
(* request to a device.                                                       *)
EXTENDS CecThreads
===============================================================================
