---------------------------- MODULE MCPyStation -----------------------------
(***************************************************************************)
(* Connections are interchangeable for module PyStation.                   *)
(***************************************************************************)
EXTENDS PyStation, TLC

Symmetry == Permutations(Conn)
=============================================================================
