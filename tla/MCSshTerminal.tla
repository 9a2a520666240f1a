---------------------------- MODULE MCSshTerminal ---------------------------
(***************************************************************************)
(* SshTerminal for TLC: one terminal, or several on one saved connection.   *)
(***************************************************************************)
EXTENDS SshTerminal, TLC

Symmetry == Permutations(Terminals)

=============================================================================
