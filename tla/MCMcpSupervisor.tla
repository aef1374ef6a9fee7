--------------------------- MODULE MCMcpSupervisor ---------------------------
(* Instances of McpSupervisor for TLC: the constants are given in the .cfg files. *)
EXTENDS McpSupervisor
=============================================================================
